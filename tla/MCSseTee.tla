------------------------------ MODULE MCSseTee ------------------------------
(***************************************************************************)
(* Streams of up to four events.  Counts grow over the events of a message *)
(* or shrink, and a usage may follow the event that ends it.               *)
(***************************************************************************)
EXTENDS SseTee, TLC

Count(i, o, r, c) == [input |-> i, output |-> o, read |-> r, create |-> c]
Plain(name) == [name |-> name, usage |-> NoUsage]
With(name, u) == [name |-> name, usage |-> u]

MCStream == {
  [kind |-> "anthropic",
   events |-> <<With("start", Count(1, 1, 2, 1)), Plain("text"),
                With("delta", Count(0, 2, 0, 0)), Plain("stop")>>],
  [kind |-> "anthropic",
   events |-> <<With("start", Count(0, 0, 0, 0)), Plain("call"), Plain("stop"),
                With("delta", Count(1, 1, 1, 0))>>],
  [kind |-> "chat",
   events |-> <<Plain("other"), With("other", Count(2, 1, 1, 0)), Plain("other")>>],
  [kind |-> "chat", events |-> <<Plain("call"), With("other", Count(1, 1, 2, 0))>>],
  [kind |-> "responses",
   events |-> <<With("other", Count(3, 3, 3, 3)), With("completed", Count(2, 2, 1, 0)),
                With("incomplete", Count(3, 2, 2, 0))>>],
  [kind |-> "responses", events |-> <<Plain("other"), Plain("failed")>>]}

=============================================================================

------------------------------- MODULE SseTee -------------------------------
(***************************************************************************)
(* A streamed response on its way through the proxy.  Every chunk goes to  *)
(* the client; a copy goes into a bounded queue, unless it is full, from   *)
(* which a task of its own frames events and learns the usage the provider *)
(* reports.  The usage is counted, and told to the session tracker, once.  *)
(*                                                                         *)
(* Bytes are cut into pieces, two for an event: the second one holds the   *)
(* blank line that ends it.  A chunk is any number of consecutive pieces.  *)
(***************************************************************************)
EXTENDS Naturals, Sequences, FiniteSets, SequencesExt

CONSTANTS
  Stream,       (* the responses the providers may stream                  *)
  QueueDepth,   (* SSE_PARSER_QUEUE_DEPTH                                  *)
  MaxChunk,     (* bound of the model: pieces in a chunk                   *)
  NoUsage, NoEvent, NoStatus

Kind == {"anthropic", "chat", "responses"}
Counts == [input : Nat, output : Nat, read : Nat, create : Nat]
Zero == [input |-> 0, output |-> 0, read |-> 0, create |-> 0]

(* Events by what the state machine of each provider looks at.  "text" is  *)
(* a delta of the assistant message, "call" begins a headroom_retrieve     *)
(* call, and "other" is everything else: null usage, [DONE], a comment     *)
(* that keeps alive.                                                       *)
Terminal == {"completed", "failed", "incomplete"}
Name(kind) ==
  {"call", "other"} \cup CASE kind = "anthropic" -> {"start", "text", "delta", "stop"}
                         [] kind = "responses" -> Terminal
                         [] kind = "chat" -> {}
Event(kind) == [name : Name(kind), usage : Counts \cup {NoUsage}]

ASSUME SseTeeAssumption ==
  /\ \A s \in Stream : \E k \in Kind : s \in [kind : {k}, events : Seq(Event(k))]
  /\ QueueDepth \in Nat \ {0} /\ MaxChunk \in Nat \ {0}
  /\ NoUsage \notin Counts /\ NoStatus \notin Terminal
  /\ \A k \in Kind : NoEvent \notin Event(k)

VARIABLES
  stream,
  session,    (* does the request belong to a session                      *)
  taken,      (* pieces taken from the upstream                            *)
  received,   (* pieces the client has                                     *)
  body,       (* "open", "complete", "broken", "hungup"                    *)
  queue,      (* chunks on their way to the parser                         *)
  dropped,    (* history: some chunk found the queue full                  *)
  buf,        (* pieces the framer holds                                   *)
  parser,     (* "running", "finished"                                     *)
  usage, chars, emitted, lastStatus,
  recorded,   (* samples counted in the stats                              *)
  fed,        (* what the session tracker was told                         *)
  calls,      (* retrieval calls seen                                      *)
  statuses    (* terminal statuses counted                                 *)

clientVars == <<stream, session, taken, received, body>>
usageVars == <<usage, chars, emitted, lastStatus, recorded, fed, calls>>
vars == <<clientVars, queue, dropped, buf, parser, usageVars, statuses>>

Pieces(es) == [i \in 1..2 * Len(es) |-> [event |-> (i + 1) \div 2, last |-> i % 2 = 0]]
Bytes == Pieces(stream.events)

-----------------------------------------------------------------------------
(* What an event is to the state machine of its provider.                  *)
Absorbs(kind, e) ==
  /\ e.usage # NoUsage
  /\ kind = "responses" => e.name \in Terminal
  /\ kind = "anthropic" => e.name \in {"start", "delta"}

(* Mutant: the delta that carries the final usage ends the message.        *)
EmitsAtDelta(kind, e) ==
  CASE kind = "chat" -> e.usage # NoUsage
    [] kind = "responses" -> e.name \in Terminal
    [] kind = "anthropic" -> e.name \in {"delta", "stop"}
Emits(kind, e) ==
  CASE kind = "chat" -> e.usage # NoUsage
    [] kind = "responses" -> e.name \in Terminal
    [] kind = "anthropic" -> e.name = "stop"

Larger(m, n) == IF m >= n THEN m ELSE n

(* absorb_usage.                                                           *)
Absorbed(u, e) == [f \in DOMAIN u |-> Larger(u[f], e[f])]

(* OpenAI reports no cache writes: what was not read is taken for written. *)
CacheWrite(kind, u) ==
  IF kind = "anthropic" \/ u.create > 0 THEN u.create
  ELSE IF u.input > u.read THEN u.input - u.read ELSE 0

Feed(kind, u, n) ==
  [read |-> u.read, write |-> CacheWrite(kind, u),
   chars |-> IF kind = "anthropic" THEN n ELSE 0]

-----------------------------------------------------------------------------
Init ==
  /\ stream \in Stream
  /\ session \in BOOLEAN
  /\ taken = 0 /\ received = << >> /\ body = "open"
  /\ queue = << >> /\ dropped = FALSE
  /\ buf = << >> /\ parser = "running"
  /\ usage = Zero /\ chars = 0 /\ emitted = FALSE /\ lastStatus = NoStatus
  /\ recorded = << >> /\ fed = << >> /\ calls = 0 /\ statuses = << >>

(* The body of the client takes the next chunk and tries to queue a copy.  *)
(* Mutants: it waits for room; the client loses what the queue cannot      *)
(* take.                                                                   *)
RelayWaits(n) ==
  /\ body = "open"
  /\ taken + n <= Len(Bytes)
  /\ Len(queue) < QueueDepth
  /\ taken' = taken + n
  /\ received' = received \o SubSeq(Bytes, taken + 1, taken + n)
  /\ queue' = Append(queue, SubSeq(Bytes, taken + 1, taken + n))
  /\ UNCHANGED <<stream, session, body, dropped, buf, parser, usageVars, statuses>>
RelayLoses(n) ==
  /\ body = "open"
  /\ taken + n <= Len(Bytes)
  /\ LET chunk == SubSeq(Bytes, taken + 1, taken + n)
         room == Len(queue) < QueueDepth
     IN /\ taken' = taken + n
        /\ received' = IF room THEN received \o chunk ELSE received
        /\ queue' = IF room THEN Append(queue, chunk) ELSE queue
        /\ dropped' = (dropped \/ ~room)
  /\ UNCHANGED <<stream, session, body, buf, parser, usageVars, statuses>>
Relay(n) ==
  /\ body = "open"
  /\ taken + n <= Len(Bytes)
  /\ LET chunk == SubSeq(Bytes, taken + 1, taken + n)
         room == Len(queue) < QueueDepth
     IN /\ taken' = taken + n
        /\ received' = received \o chunk
        /\ queue' = IF room THEN Append(queue, chunk) ELSE queue
        /\ dropped' = (dropped \/ ~room)
  /\ UNCHANGED <<stream, session, body, buf, parser, usageVars, statuses>>

Bodiless == <<stream, session, taken, received, queue, dropped, buf, parser,
              usageVars, statuses>>

(* The upstream ends.  The sender goes with the body.                      *)
Complete ==
  /\ body = "open"
  /\ taken = Len(Bytes)
  /\ body' = "complete"
  /\ UNCHANGED Bodiless

(* An error of the upstream ends the body of the client too, or the client *)
(* goes away and its body is dropped.                                      *)
Cut ==
  /\ body = "open"
  /\ body' \in {"broken", "hungup"}
  /\ UNCHANGED Bodiless

-----------------------------------------------------------------------------
(* The framer: a block is what stands before the first blank line.         *)
Ends == {i \in DOMAIN buf : buf[i].last}
Block == SubSeq(buf, 1, CHOOSE i \in Ends : \A j \in Ends : i <= j)

(* What a block may be read as.  One that lacks pieces, or has pieces of   *)
(* several events, is one of those if the cut is at a line, a mixture of   *)
(* them, or not JSON at all.                                               *)
Of(b) == {stream.events[p.event] : p \in ToSet(b)}
Readings(b) ==
  IF Len(b) = 2 /\ b[1].event = b[2].event
  THEN Of(b)
  ELSE {NoEvent} \cup {[name |-> d.name, usage |-> e.usage] : d \in Of(b), e \in Of(b)}

Receive ==
  /\ parser = "running"
  /\ Ends = {}
  /\ queue # << >>
  /\ buf' = buf \o Head(queue)
  /\ queue' = Tail(queue)
  /\ UNCHANGED <<clientVars, dropped, parser, usageVars, statuses>>

(* emit_final with the usage u.  Mutant: the flag is not looked at.        *)
EmitAgain(u) ==
  /\ emitted' = TRUE
  /\ IF u = Zero
     THEN UNCHANGED <<recorded, fed>>
     ELSE /\ recorded' = Append(recorded, u)
          /\ fed' = IF session THEN Append(fed, Feed(stream.kind, u, chars)) ELSE fed
Emit(u) ==
  /\ emitted' = TRUE
  /\ IF emitted \/ u = Zero
     THEN UNCHANGED <<recorded, fed>>
     ELSE /\ recorded' = Append(recorded, u)
          /\ fed' = IF session THEN Append(fed, Feed(stream.kind, u, chars)) ELSE fed

Apply(e) ==
  LET kind == stream.kind
  IN /\ calls' = IF e.name = "call" THEN calls + 1 ELSE calls
     /\ chars' = IF kind = "anthropic" /\ e.name = "text" THEN chars + 1 ELSE chars
     /\ lastStatus' = IF kind = "responses" /\ e.name \in Terminal THEN e.name
                      ELSE lastStatus
     /\ usage' = IF Absorbs(kind, e) THEN Absorbed(usage, e.usage) ELSE usage
     /\ IF Emits(kind, e) THEN Emit(usage') ELSE UNCHANGED <<emitted, recorded, fed>>

Frame ==
  /\ parser = "running"
  /\ Ends # {}
  /\ buf' = SubSeq(buf, Len(Block) + 1, Len(buf))
  /\ \E e \in Readings(Block) :
       IF e = NoEvent THEN UNCHANGED usageVars ELSE Apply(e)
  /\ UNCHANGED <<clientVars, queue, dropped, parser, statuses>>

(* The sender is gone and the queue is drained: finish().                  *)
(* Mutant: it waits for the end of the upstream.                           *)
FinishAtEnd ==
  /\ parser = "running"
  /\ body = "complete" /\ queue = << >> /\ Ends = {}
  /\ parser' = "finished"
  /\ statuses' = IF lastStatus # NoStatus THEN Append(statuses, lastStatus) ELSE statuses
  /\ UNCHANGED <<clientVars, queue, dropped, buf, usageVars>>
Finish ==
  /\ parser = "running"
  /\ body # "open" /\ queue = << >> /\ Ends = {}
  /\ parser' = "finished"
  /\ statuses' = IF lastStatus # NoStatus THEN Append(statuses, lastStatus) ELSE statuses
  /\ UNCHANGED <<clientVars, queue, dropped, buf, usageVars>>

Deliver == \E n \in 1..MaxChunk : Relay(n)
ParserStep == Receive \/ Frame \/ Finish
Next == Deliver \/ Complete \/ Cut \/ ParserStep

Spec == Init /\ [][Next]_vars

(* The client reads its response, and the upstream sends: a client that    *)
(* does neither read nor go away holds its own response only.  Of the      *)
(* parser nothing is assumed.                                              *)
FairSpec == Spec /\ WF_vars(Deliver \/ Complete)

-----------------------------------------------------------------------------
TypeOK ==
  /\ stream \in Stream /\ session \in BOOLEAN
  /\ taken \in 0..Len(Bytes)
  /\ body \in {"open", "complete", "broken", "hungup"}
  /\ Len(queue) <= QueueDepth /\ dropped \in BOOLEAN
  /\ parser \in {"running", "finished"}
  /\ usage \in Counts /\ chars \in Nat /\ calls \in Nat /\ emitted \in BOOLEAN
  /\ lastStatus \in Terminal \cup {NoStatus}

(* The client gets the bytes of the upstream, in order and without a gap,  *)
(* whatever becomes of the copies.                                         *)
Promise == INSTANCE ByteRelay WITH
  bytes <- Bytes,
  received <- received,
  ended <- CASE body = "open" -> "no" [] body = "complete" -> "complete" [] OTHER -> "cut"
RelaySpec == Promise!Spec

(* The byte path never waits for the parser: a client that reads comes to  *)
(* the end of its response although the parser takes no step.              *)
ClientServed == <>(body # "open")

(* The parser ends after its stream, however it ended: no task is left.    *)
ParserEnds == WF_vars(ParserStep) => (body # "open" ~> parser = "finished")

(* A response is counted and told to the tracker at most once, with what   *)
(* was counted, whatever was dropped and garbled on the way.               *)
CountedOnce ==
  /\ Len(recorded) <= 1 /\ Len(fed) <= Len(recorded) /\ Len(statuses) <= 1
  /\ \A i \in DOMAIN fed :
       fed[i].read = recorded[i].read /\ fed[i].write = CacheWrite(stream.kind, recorded[i])

(* The reference: of the events the client got in full, those up to the    *)
(* first that ends the message, with the largest count each.               *)
Whole == SubSeq(stream.events, 1, Len(received) \div 2)
Closing ==
  {i \in DOMAIN Whole :
     \/ Whole[i].name \in Terminal \cup {"stop"}
     \/ stream.kind = "chat" /\ Whole[i].usage # NoUsage}
Heard == {i \in DOMAIN Whole : \A j \in Closing : i <= j}
Largest(S) == CHOOSE n \in S : \A m \in S : m <= n
Reporting ==
  {i \in Heard : /\ Whole[i].usage # NoUsage
                 /\ stream.kind = "chat" \/ Whole[i].name \in Terminal \cup {"start", "delta"}}
Reported ==
  [f \in DOMAIN Zero |->
     Largest({0} \cup {Whole[i].usage[f] : i \in Reporting})]
Texts == Cardinality({i \in Heard : Whole[i].name = "text"})

(* If the queue never was full, what was counted and what the tracker was  *)
(* told is the usage in the events the client got, wherever the chunks of  *)
(* the network were cut, also if the client left in the middle.            *)
UndroppedIsExact ==
  parser = "finished" /\ ~dropped =>
    LET expected == IF Closing = {} \/ Reported = Zero THEN << >> ELSE <<Reported>>
    IN /\ recorded = expected
       /\ fed = IF session /\ expected # << >>
                THEN <<Feed(stream.kind, Reported, Texts)>> ELSE << >>
       /\ calls = Cardinality({i \in DOMAIN Whole : Whole[i].name = "call"})
       /\ statuses = LET S == {i \in DOMAIN Whole : Whole[i].name \in Terminal}
                     IN IF stream.kind # "responses" \/ S = {} THEN << >>
                        ELSE <<Whole[Largest(S)].name>>

=============================================================================

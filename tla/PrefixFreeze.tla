---------------------------- MODULE PrefixFreeze ----------------------------
(***************************************************************************)
(* The prefix freeze: the tracker of session.rs, fed by the cache usage of *)
(* responses, tells the live-zone planners below which message a request   *)
(* is left alone.                                                          *)
(*                                                                         *)
(* Clients hold conversations that only grow; each request repeats the     *)
(* conversation so far in the client's own bytes.  A response reports how  *)
(* many prompt tokens the provider has cached; the proxy maps the tokens   *)
(* back to messages with estimates of its own.  Requests of conversations  *)
(* that share a session, and responses, interleave in any order.           *)
(***************************************************************************)
EXTENDS LiveZone, FiniteSets

CONSTANTS
  Conv,             (* conversations                                       *)
  About,            (* what each conversation is: [Conv -> Conversation]   *)
  Compressible,     (* texts that pass the gates of compress_slot          *)
  Estimate,         (* [Text -> Nat]: the proxy's estimate of a message    *)
  Tokens,           (* [Text -> Nat]: the provider's count                 *)
  MarkerTokens,     (* both, of a message that holds a marker              *)
  InstructionsTokens, (* both, of the instructions of a Responses request  *)
  ReplyEstimate,    (* the estimate of an assistant reply                  *)
  NoHeader,         (* no x-headroom-session-id                            *)
  MinCachedTokens, SessionTtl, CleanupInterval,
  MaxOpen,          (* bound: requests of a conversation in flight         *)
  MaxRequests,      (* bound: requests of all conversations                *)
  MaxTime,          (* bound: clock                                        *)
  AlwaysCaches,     (* the provider caches every prompt it is sent         *)
  NoEntry,          (* the session has no tracker                          *)
  Never             (* no sweep yet                                        *)

(* A conversation: its surface, the session-shaping fields, the messages   *)
(* or input items it will have had in the end, a string each, and at which *)
(* lengths the client sends it.                                            *)
Conversation(c) ==
  /\ About[c].shape \in {"chat", "responses", "messages"}
  /\ About[c].history \in Seq(Block)
  /\ About[c].instructions \in BOOLEAN
  /\ About[c].instructions => About[c].shape = "responses"
  /\ About[c].lengths \subseteq 1..Len(About[c].history)
  /\ \A i \in 1..Len(About[c].history) :
       About[c].history[i].msg = i - 1 /\ About[c].history[i].content.kind = "text"

ASSUME PrefixFreezeAssumption ==
  /\ \A c \in Conv : Conversation(c)
  /\ Estimate \in [Text -> Nat] /\ Tokens \in [Text -> Nat]
  /\ MarkerTokens \in Nat /\ InstructionsTokens \in Nat /\ ReplyEstimate \in Nat
  /\ MinCachedTokens \in Nat \ {0}
  /\ SessionTtl \in Nat
  /\ CleanupInterval \in Nat \ {0}
  /\ AlwaysCaches \in BOOLEAN
  /\ Never \notin Nat

(* The explicit header wins; otherwise the model and the first system-role *)
(* message (a string instructions for Responses) identify the session, so  *)
(* that conversations may share one.  Providers never share.               *)
SessionKey(c) ==
  LET a == About[c] IN
  << IF a.shape = "messages" THEN "anthropic" ELSE "openai",
     IF a.header # NoHeader THEN <<a.header>> ELSE <<a.model, a.system>> >>

Key == {SessionKey(c) : c \in Conv}

VARIABLES
  now,      (* the monotonic clock                                         *)
  sweptAt,  (* last_cleanup                                                *)
  tracker,  (* [Key -> [tokens, count, last]] or NoEntry                   *)
  sent      (* [Conv -> Seq(request)]: the requests forwarded so far       *)

vars == <<now, sweptAt, tracker, sent>>

Form == {"raw", "marker"}

-----------------------------------------------------------------------------
Init ==
  /\ now = 0
  /\ sweptAt = Never
  /\ tracker = [s \in Key |-> NoEntry]
  /\ sent = [c \in Conv |-> << >>]

(* maybe_cleanup: at most one sweep per interval, none in between.         *)
SweepDue == sweptAt = Never \/ now >= sweptAt + CleanupInterval

Expired(e) == now > e.last + SessionTtl

(* Mutants: expired trackers are kept; live ones are removed.              *)
SweptNever == tracker
SweptAll == IF SweepDue THEN [s \in Key |-> NoEntry] ELSE tracker
Swept ==
  IF SweepDue
  THEN [s \in Key |-> IF tracker[s] # NoEntry /\ Expired(tracker[s])
                      THEN NoEntry ELSE tracker[s]]
  ELSE tracker

SweptTime == IF SweepDue THEN now ELSE sweptAt

(* The floor a tracker grants.                                             *)
FrozenCount(e) ==
  IF e = NoEntry THEN 0 ELSE IF e.tokens < MinCachedTokens THEN 0 ELSE e.count

Touched(e) == [tokens |-> e.tokens, count |-> e.count, last |-> now]

(* The request a client sends when its conversation has n messages.        *)
ClientBody(c, n, floor) ==
  [shape |-> About[c].shape, blocks |-> SubSeq(About[c].history, 1, n),
   floor |-> floor, instructions |-> About[c].instructions, multi |-> FALSE,
   tools |-> [q \in Req |-> "appendable"]]

Forwarded(c, n, floor) ==
  [i \in 1..n |->
     IF /\ i \in Plan(ClientBody(c, n, floor))
        /\ About[c].history[i].content.text \in Compressible
     THEN "marker" ELSE "raw"]

(* Per-message weights of a forwarded body, with an entry for instructions *)
(* in front, which input arrays do not have.                               *)
Weights(c, body, W) ==
  LET messages == [i \in DOMAIN body |->
                     IF body[i] = "marker" THEN MarkerTokens
                     ELSE W[About[c].history[i].content.text]]
  IN IF About[c].instructions THEN <<InstructionsTokens>> \o messages ELSE messages

(* Anthropic: the reply is the next message of the conversation.           *)
Estimates(c, body) ==
  IF About[c].shape = "messages"
  THEN Append(Weights(c, body, Estimate), ReplyEstimate)
  ELSE Weights(c, body, Estimate)

SumOfFirst(w, n) ==
  LET sum[k \in Nat] == IF k = 0 THEN 0 ELSE sum[k - 1] + w[k] IN sum[n]

(* The walk: the messages that fit into the cached tokens.                 *)
(* Mutant: the message that overflows the total is frozen as well.         *)
CoveredOneMore(w, total) ==
  Cardinality({n \in 1..Len(w) : SumOfFirst(w, n - 1) <= total})
Covered(w, total) ==
  Cardinality({n \in 1..Len(w) : SumOfFirst(w, n) <= total})

Requests == UNION {{<<c, k>> : k \in DOMAIN sent[c]} : c \in Conv}

Open(c) == {k \in DOMAIN sent[c] : sent[c][k].status = "open"}

(* A request: the floor is read, which keeps the tracker alive, and the    *)
(* body is compressed above it and forwarded.                              *)
Send(c, n) ==
  LET s == SessionKey(c)
      floor == FrozenCount(Swept[s])
  IN /\ n \in About[c].lengths
     /\ \A k \in DOMAIN sent[c] : sent[c][k].len <= n
     /\ Cardinality(Open(c)) < MaxOpen
     /\ Cardinality(Requests) < MaxRequests
     /\ sweptAt' = SweptTime
     /\ tracker' = IF Swept[s] = NoEntry THEN Swept
                   ELSE [Swept EXCEPT ![s] = Touched(@)]
     /\ sent' = [sent EXCEPT ![c] = Append(@,
          [len |-> n, floor |-> floor, body |-> Forwarded(c, n, floor),
           status |-> "open", confirmed |-> 0])]
     /\ UNCHANGED now

(* What a response may report about a prompt: the tokens read from the     *)
(* cache, those written to it, and, of OpenAI, all of them.                *)
Usage(c, body) ==
  LET w == Weights(c, body, Tokens)
      all == SumOfFirst(w, Len(w))
      reads == {SumOfFirst(w, n) : n \in 0..Len(w)}
  IN {[read |-> r, write |-> x, input |-> all] :
        r \in reads, x \in (IF About[c].shape = "messages" THEN {0, all} ELSE {0})}

(* OpenAI reports no writes: what was not read is taken for written.       *)
CachedTotal(c, u) ==
  IF About[c].shape = "messages" \/ u.write > 0
  THEN u.read + u.write
  ELSE u.read + (u.input - u.read)

Answers(c, body) ==
  LET w == Weights(c, body, Tokens)
      all == SumOfFirst(w, Len(w))
  IN {u \in Usage(c, body) :
        /\ u.read + u.write <= all
        /\ AlwaysCaches => CachedTotal(c, u) = all}

(* update_from_response: no cached tokens reset the tracker, which is      *)
(* created if it is missing.                                               *)
(* Mutant: the messages of earlier answers are counted again.              *)
NextEntryAccumulated(e, w, total) ==
  [tokens |-> total, last |-> now,
   count |-> Covered(w, total) + IF e = NoEntry THEN 0 ELSE e.count]
NextEntry(e, w, total) ==
  [tokens |-> total, count |-> IF total = 0 THEN 0 ELSE Covered(w, total),
   last |-> now]

Answer(c, k, u) ==
  LET s == SessionKey(c)
      w == Estimates(c, sent[c][k].body)
      e == NextEntry(Swept[s], w, CachedTotal(c, u))
  IN /\ k \in Open(c)
     /\ sweptAt' = SweptTime
     /\ tracker' = [Swept EXCEPT ![s] = e]
     /\ sent' = [sent EXCEPT ![c][k].status = "answered",
                             ![c][k].confirmed = FrozenCount(e)]
     /\ UNCHANGED now

(* An error, a response without usage, a client that hangs up, telemetry   *)
(* chunks dropped on a full queue: the tracker hears nothing.  (Dropped    *)
(* chunks may also lower the usage that is heard: see SseTee.)             *)
NoUsage(c, k) ==
  /\ k \in Open(c)
  /\ sent' = [sent EXCEPT ![c][k].status = "failed"]
  /\ UNCHANGED <<now, sweptAt, tracker>>

(* The proxy restarts: trackers are in memory only, and what follows knows *)
(* nothing of the requests before.                                         *)
Restart ==
  /\ \E c \in Conv : sent[c] # << >>
  /\ sweptAt' = Never
  /\ tracker' = [s \in Key |-> NoEntry]
  /\ sent' = [c \in Conv |-> << >>]
  /\ UNCHANGED now

Tick ==
  /\ now < MaxTime
  /\ now' = now + 1
  /\ UNCHANGED <<sweptAt, tracker, sent>>

Next ==
  \/ \E c \in Conv :
       \/ \E n \in About[c].lengths : Send(c, n)
       \/ \E k \in Open(c) :
            \/ NoUsage(c, k)
            \/ \E u \in Answers(c, sent[c][k].body) : Answer(c, k, u)
  \/ Restart
  \/ Tick

Spec == Init /\ [][Next]_vars

-----------------------------------------------------------------------------
Entry == [tokens : Nat, count : Nat, last : Nat]

TypeOK ==
  /\ now \in Nat
  /\ sweptAt \in Nat \cup {Never}
  /\ tracker \in [Key -> Entry \cup {NoEntry}]
  /\ sent \in [Conv -> Seq([len : Nat, floor : Nat, body : Seq(Form), confirmed : Nat,
                            status : {"open", "answered", "failed"}])]

(* No tracker exists before the first sweep, and none was past its TTL at  *)
(* the last one: the invariant behind FloorIsFresh.                        *)
SweptAreFresh ==
  /\ now \in Nat
  /\ sweptAt \in Nat \cup {Never}
  /\ sweptAt # Never => sweptAt <= now
  /\ DOMAIN tracker = Key
  /\ \A s \in Key : tracker[s] # NoEntry =>
       /\ tracker[s].last \in 0..now
       /\ sweptAt # Never
       /\ sweptAt <= tracker[s].last + SessionTtl

(* A floor is never taken from a session that was idle for the TTL plus a  *)
(* cleanup interval, although a read does not look at the age itself.      *)
FloorIsFresh ==
  \A s \in Key :
    FrozenCount(Swept[s]) > 0 => now < tracker[s].last + SessionTtl + CleanupInterval

(* A floor that a request may read was earned by an answer heard in that   *)
(* very session: enough tokens, and room for the estimates of that many    *)
(* messages of what was forwarded then (and of the reply).                 *)
FloorIsEarned ==
  \A s \in Key : FrozenCount(tracker[s]) > 0 =>
    \E c \in Conv : \E k \in DOMAIN sent[c] :
      LET w == Estimates(c, sent[c][k].body) IN
      /\ SessionKey(c) = s
      /\ sent[c][k].status = "answered"
      /\ tracker[s].count \in 1..Len(w)
      /\ SumOfFirst(w, tracker[s].count) <= tracker[s].tokens

-----------------------------------------------------------------------------
(* Properties of one request and the next of the same conversation.        *)
Sends(c) == Len(sent'[c]) = Len(sent[c]) + 1
Newest(c) == sent'[c][Len(sent'[c])]
Latest(c) == sent[c][Len(sent[c])]

(* No other conversation has the session.                                  *)
OwnSession(c) == \A d \in Conv : SessionKey(d) = SessionKey(c) => d = c

(* What a provider caches is what the proxy reckons: it caches every       *)
(* prompt, requests come one at a time, the estimates are right, no marker *)
(* is longer than the text it stands for, and calls come before answers.   *)
Predictable(c) ==
  /\ AlwaysCaches /\ MaxOpen = 1
  /\ \A i, j \in 1..Len(About[c].history) :
       LET call == About[c].history[i]
           answer == About[c].history[j] IN
       /\ call.type = "tool_use" /\ answer.role = "tool" /\ call.call = answer.call
       => i < j
  /\ \A i \in 1..Len(About[c].history) :
       LET t == About[c].history[i].content.text IN
       Estimate[t] = Tokens[t] /\ (t \in Compressible => MarkerTokens <= Tokens[t])

(* While a session of that kind lives, a message that went out in the      *)
(* client's bytes is never compressed afterwards: a prefix changes at most *)
(* once, from its markers to the client's bytes.                           *)
NeverRecompressed ==
  [][\A c \in Conv :
       /\ Sends(c) /\ sent[c] # << >>
       /\ OwnSession(c) /\ Predictable(c)
       /\ tracker[SessionKey(c)] # NoEntry
       /\ ~Expired(tracker[SessionKey(c)])
       => \A i \in 1..Latest(c).len :
            Latest(c).body[i] = "raw" => Newest(c).body[i] = "raw"]_vars

(* The freeze never reaches beyond the conversation it was learned from,   *)
(* which on Anthropic includes the reply: a message the client sends for   *)
(* the first time is compressed if it would be without a floor.            *)
Replies(c) == IF About[c].shape = "messages" THEN 1 ELSE 0
NewOutputCompressed ==
  [][\A c \in Conv :
       Sends(c) /\ sent[c] # << >> /\ OwnSession(c) =>
         \A i \in Plan(ClientBody(c, Newest(c).len, 0)) :
           /\ i > Latest(c).len + Replies(c)
           /\ About[c].history[i].content.text \in Compressible
           => Newest(c).body[i] = "marker"]_vars

(* "Never modified: prefixes the provider has already confirmed as cached  *)
(* for the session" (README).                                              *)
ConfirmedNeverModified ==
  [][\A c \in Conv : Sends(c) =>
       \A k \in DOMAIN sent[c] : \A i \in DOMAIN sent[c][k].body :
         LET walked == IF About[c].instructions THEN i + 1 ELSE i IN
         walked <= sent[c][k].confirmed => Newest(c).body[i] = "raw"]_vars

=============================================================================

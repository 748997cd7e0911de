-------------------------- MODULE CcrContinuation ---------------------------
(***************************************************************************)
(* The hidden conversation of one exchange.  When the provider answers a   *)
(* request with headroom_retrieve calls only, the proxy resolves them from *)
(* the CCR store and asks again, up to MaxRounds times; calls the client   *)
(* owns are left to it, with the private ones stripped from their side.    *)
(* A line of a batch result runs the same loop, with the stored parameters *)
(* of its request.  Other requests put originals into the store meanwhile. *)
(***************************************************************************)
EXTENDS Naturals, Sequences, FiniteSets

CONSTANTS
  Hash,       (* the strings a model may ask for                           *)
  Valid,      (* those of the length and digits of a hash                  *)
  Id,         (* tool call ids                                             *)
  Upstream,   (* the JSON responses of 200 the providers may give          *)
  MaxRounds,  (* MAX_CCR_CONTINUATION_ROUNDS                               *)
  NoResponse

Provider == {"anthropic", "openai"}

(* A call is a retrieval if its tool is headroom_retrieve and its          *)
(* arguments parse and hold a string hash; "malformed" if only the tool    *)
(* is; and the client's otherwise.  A retrieval may hold a query that is   *)
(* not blank.                                                              *)
Call == [id : Id, kind : {"retrieve", "malformed", "client"}, hash : Hash,
         query : BOOLEAN]

(* Anthropic answers with one list of blocks, OpenAI with choices.         *)
Choice == [calls : SUBSET Call, finish : {"stop", "tools"}]
Response == [choices : Seq(Choice)]

(* Providers end a turn for tools exactly if it calls some, and the ids of *)
(* a turn differ.                                                          *)
ASSUME CcrContinuationAssumption ==
  /\ MaxRounds \in Nat
  /\ Valid \subseteq Hash
  /\ Upstream \subseteq Response
  /\ NoResponse \notin Response
  /\ \A u \in Upstream : \A i \in DOMAIN u.choices :
       /\ IsFiniteSet(u.choices[i].calls)
       /\ u.choices[i].finish = "tools" <=> u.choices[i].calls # {}
       /\ \A c, d \in u.choices[i].calls : c.id = d.id => c = d

VARIABLES
  table,     (* hashes that have a row                                     *)
  pc,        (* where the exchange is                                      *)
  provider,
  offered,   (* hashes whose markers the proxy wrote into the request      *)
  initial,   (* the first response                                         *)
  current, changed, rounds,
  answers,   (* the answers of the round so far                            *)
  history,   (* the turns added to the messages: the calls, the answers    *)
  failed,    (* the last continuation request failed                       *)
  reply      (* what the client gets of a buffered response                *)

vars == <<table, pc, provider, offered, initial, current, changed, rounds,
          answers, history, failed, reply>>

AllCalls(u) == UNION {u.choices[i].calls : i \in DOMAIN u.choices}

(* extract_ccr_tool_calls.                                                 *)
Retrievals(u) == {c \in AllCalls(u) : c.kind = "retrieve"}
Others(u) == AllCalls(u) \ Retrievals(u)

(* Private calls are stripped if some are left to the client; a choice     *)
(* that loses all of its calls becomes a normal turn.                      *)
(* Mutant: the finish reason is left as it was.                            *)
StrippedChoiceUnfinished(k) ==
  [calls |-> {c \in k.calls : c.kind # "retrieve"}, finish |-> k.finish]
StrippedChoice(k) ==
  LET left == {c \in k.calls : c.kind # "retrieve"}
  IN [calls |-> left,
      finish |-> IF k.calls # {} /\ left = {} THEN "stop" ELSE k.finish]

CanStrip(u) == Retrievals(u) # {} /\ Others(u) # {}
Stripped(u) == [choices |-> [i \in DOMAIN u.choices |-> StrippedChoice(u.choices[i])]]

-----------------------------------------------------------------------------
Init ==
  /\ table \in SUBSET Valid
  /\ pc = "idle"
  /\ provider \in Provider
  /\ offered = {}
  /\ initial = NoResponse /\ current = NoResponse /\ reply = NoResponse
  /\ changed = FALSE /\ failed = FALSE
  /\ rounds = 0
  /\ answers = {}
  /\ history = << >>

(* Another request, or hr compress, stores an original.                    *)
Put(h) ==
  /\ table' = table \cup {h}
  /\ UNCHANGED <<pc, provider, offered, initial, current, changed, rounds,
                 answers, history, failed, reply>>

(* The compressed request leaves.  A marker is written for a stored text   *)
(* only (MarkersResolve of CcrCompression).                                *)
Ask ==
  /\ pc = "idle"
  /\ pc' = "asked"
  /\ offered' \in SUBSET table
  /\ UNCHANGED <<table, provider, initial, current, changed, rounds, answers,
                 history, failed, reply>>

(* An identity-encoded JSON body of status 200 is buffered; without        *)
(* retrievals it goes to the client as it is.                              *)
Buffer(u) ==
  /\ pc = "asked"
  /\ provider = "anthropic" => Len(u.choices) = 1
  /\ initial' = u
  /\ current' = u
  /\ IF Retrievals(u) = {}
     THEN pc' = "done" /\ reply' = u
     ELSE pc' = "loop" /\ reply' = reply
  /\ UNCHANGED <<table, provider, offered, changed, rounds, answers, history,
                 failed>>

(* Anything else is streamed through, or the upstream request failed.      *)
PassOn ==
  /\ pc = "asked"
  /\ pc' \in {"streamed", "failed"}
  /\ UNCHANGED <<table, provider, offered, initial, current, changed, rounds,
                 answers, history, failed, reply>>

(* After the loop private calls are stripped once more; a response that    *)
(* was never changed goes to the client in the upstream's bytes.           *)
(* Mutant: no stripping after the loop.                                    *)
FinishUnstripped(u, c) ==
  /\ pc' = "done"
  /\ current' = u
  /\ changed' = c
  /\ reply' = IF c THEN u ELSE initial
  /\ UNCHANGED <<table, provider, offered, initial, rounds, answers, history>>
Finish(u, c) ==
  /\ pc' = "done"
  /\ current' = IF CanStrip(u) THEN Stripped(u) ELSE u
  /\ changed' = (c \/ CanStrip(u))
  /\ reply' = IF changed' THEN current' ELSE initial
  /\ UNCHANGED <<table, provider, offered, initial, rounds, answers, history>>

(* The loop ends: the rounds are used up, nothing is left to resolve, the  *)
(* provider gave several choices, or some calls are the client's.  In the  *)
(* last two cases it strips at once, and Finish has nothing left to do.    *)
(* Mutants: calls the client owns do not stop the loop; the limit is one   *)
(* round short.                                                            *)
MustStopUnlessMixed ==
  \/ rounds >= MaxRounds
  \/ Retrievals(current) = {}
  \/ provider = "openai" /\ Len(current.choices) # 1
MustStopEarly ==
  \/ rounds + 1 >= MaxRounds
  \/ Retrievals(current) = {}
  \/ provider = "openai" /\ Len(current.choices) # 1
  \/ Cardinality(AllCalls(current)) # Cardinality(Retrievals(current))
MustStop ==
  \/ rounds >= MaxRounds
  \/ Retrievals(current) = {}
  \/ provider = "openai" /\ Len(current.choices) # 1
  \/ Cardinality(AllCalls(current)) # Cardinality(Retrievals(current))

Stop ==
  /\ pc = "loop"
  /\ MustStop
  /\ Finish(current, changed)
  /\ UNCHANGED failed

(* A round begins.                                                         *)
(* Mutant: rounds are not counted (its turns are left out, to be finite).  *)
ResolveUncounted ==
  /\ pc = "loop"
  /\ ~MustStop
  /\ pc' = "continued"
  /\ UNCHANGED <<table, provider, offered, initial, current, changed, rounds,
                 answers, history, failed, reply>>
Resolve ==
  /\ pc = "loop"
  /\ ~MustStop
  /\ pc' = "reading"
  /\ rounds' = rounds + 1
  /\ UNCHANGED <<table, provider, offered, initial, current, changed, answers,
                 history, failed, reply>>

(* What a retrieval finds; read says whether the store could be read.  A   *)
(* read that fails, as under another process's lock, looks to the model    *)
(* like a missing row.  A query gets the lines it matches.                 *)
Value(c, read) ==
  IF c.hash \notin Valid THEN "invalid"
  ELSE IF ~read \/ c.hash \notin table THEN "missing"
  ELSE IF c.query THEN "excerpts" ELSE "original"

(* Mutant: a miss is remembered for the exchange.                          *)
MissedBefore(c) ==
  \E k \in DOMAIN history : \E a \in history[k].answers :
    a.call.hash = c.hash /\ a.result = "missing"
AnswerRemembered(c, read) ==
  [call |-> c, read |-> read,
   result |-> IF MissedBefore(c) THEN "missing" ELSE Value(c, read)]
Answer(c, read) == [call |-> c, read |-> read, result |-> Value(c, read)]

(* One call is looked up.                                                  *)
Read(c, read) ==
  /\ pc = "reading"
  /\ c \in Retrievals(current) \ {a.call : a \in answers}
  /\ c.hash \notin Valid => read
  /\ answers' = answers \cup {Answer(c, read)}
  /\ UNCHANGED <<table, pc, provider, offered, initial, current, changed, rounds,
                 history, failed, reply>>

(* The assistant turn and the answers are added to the messages, and the   *)
(* request is sent again.                                                  *)
Send ==
  /\ pc = "reading"
  /\ {a.call : a \in answers} = Retrievals(current)
  /\ pc' = "continued"
  /\ history' = Append(history, [calls |-> AllCalls(current), answers |-> answers])
  /\ answers' = {}
  /\ UNCHANGED <<table, provider, offered, initial, current, changed, rounds,
                 failed, reply>>

Continued(u) ==
  /\ pc = "continued"
  /\ provider = "anthropic" => Len(u.choices) = 1
  /\ pc' = "loop"
  /\ current' = u
  /\ changed' = TRUE
  /\ UNCHANGED <<table, provider, offered, initial, rounds, answers, history,
                 failed, reply>>

(* No connection, a timeout, another status, a body that is not JSON: the  *)
(* loop keeps the response it had.                                         *)
ContinuationFails ==
  /\ pc = "continued"
  /\ failed' = TRUE
  /\ Finish(current, changed)

Next ==
  \/ \E h \in Valid : Put(h)
  \/ Ask
  \/ PassOn
  \/ \E u \in Upstream : Buffer(u) \/ Continued(u)
  \/ Stop
  \/ Resolve
  \/ \E c \in Call, read \in BOOLEAN : Read(c, read)
  \/ Send
  \/ ContinuationFails

(* Every request to a provider ends, if only in the timeout of the client  *)
(* library, and the steps in between wait for nothing but the store, whose *)
(* busy timeout bounds them.                                               *)
Fairness ==
  /\ WF_vars(PassOn \/ \E u \in Upstream : Buffer(u))
  /\ WF_vars(Stop \/ Resolve \/ Send \/ \E c \in Call, read \in BOOLEAN : Read(c, read))
  /\ WF_vars(ContinuationFails \/ \E u \in Upstream : Continued(u))

Spec == Init /\ [][Next]_vars
FairSpec == Spec /\ Fairness

-----------------------------------------------------------------------------
Content == {"original", "excerpts"}
Reply == [call : Call, read : BOOLEAN, result : Content \cup {"missing", "invalid"}]
Turn == [calls : SUBSET Call, answers : SUBSET Reply]

TypeOK ==
  /\ table \in SUBSET Valid
  /\ pc \in {"idle", "asked", "loop", "reading", "continued", "done", "streamed",
            "failed"}
  /\ provider \in Provider
  /\ offered \in SUBSET Hash
  /\ initial \in Upstream \cup {NoResponse}
  /\ current \in Response \cup {NoResponse}
  /\ reply \in Response \cup {NoResponse}
  /\ changed \in BOOLEAN /\ failed \in BOOLEAN
  /\ rounds \in 0..MaxRounds
  /\ answers \in SUBSET Reply
  /\ history \in Seq(Turn)

(* Providers reject a conversation in which a call stays unanswered: every *)
(* turn the proxy adds answers each of its calls, exactly once.            *)
EveryCallAnswered ==
  \A k \in DOMAIN history :
    \A c \in history[k].calls :
      \E a \in history[k].answers :
        /\ a.call.id = c.id
        /\ \A b \in history[k].answers : b.call.id = c.id => b = a

(* What the proxy put a marker for, or an earlier round has shown, only a  *)
(* read that fails can hide from the model: no earlier miss, nothing other *)
(* requests store meanwhile, no round of the exchange.                     *)
Known(h, k) ==
  \/ h \in offered
  \/ \E j \in 1..(k - 1) : \E a \in history[j].answers :
       a.call.hash = h /\ a.result \in Content
KnownIsFound ==
  \A k \in DOMAIN history : \A a \in history[k].answers :
    a.read /\ Known(a.call.hash, k) => a.result \in Content

(* A client that has calls of its own to answer sees no retrieval beside   *)
(* them, whichever round, failure or limit ended the loop.                 *)
NoMixedReply ==
  pc = "done" => Retrievals(reply) = {} \/ Others(reply) = {}

(* A client sees a retrieval only if the proxy could not resolve it: after *)
(* a failure, at the round limit, or in a response of several choices.     *)
UnresolvedForAReason ==
  pc = "done" /\ Retrievals(reply) # {} =>
    failed \/ rounds = MaxRounds \/ Len(reply.choices) # 1

(* A choice that ends for tools has some: an agent waits for calls that    *)
(* never come otherwise.                                                   *)
NoDanglingFinish ==
  pc = "done" => \A i \in DOMAIN reply.choices :
    reply.choices[i].finish = "tools" => reply.choices[i].calls # {}

(* The client is answered, whatever the model asks for.                    *)
ExchangeEnds == pc = "asked" ~> pc \in {"done", "streamed", "failed"}

=============================================================================

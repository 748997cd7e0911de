--------------------------- MODULE BatchContexts ----------------------------
(***************************************************************************)
(* What the proxy remembers of Anthropic batches.  A create that answers   *)
(* leaves the compressed parameters of its requests in a queue, under the  *)
(* id the provider gave; a later request for the results looks them up to  *)
(* continue the retrievals of the lines (CcrContinuation).  Entries expire *)
(* and the oldest make room for new ones.  Nothing survives a restart.     *)
(***************************************************************************)
EXTENDS Naturals, Sequences, FiniteSets

CONSTANTS
  Batch,             (* ids the provider gives to batches                  *)
  Custom,            (* custom ids of the requests in a batch              *)
  Ttl,               (* BATCH_CONTEXT_TTL                                  *)
  MaxBatchContexts,  (* MAX_BATCH_CONTEXTS                                 *)
  None,
  MaxTime, MaxMade   (* bounds of the model: the clock, and the batches    *)

ASSUME BatchContextsAssumption ==
  /\ Ttl \in Nat \ {0} /\ MaxBatchContexts \in Nat \ {0}
  /\ MaxTime \in Nat /\ MaxMade \in Nat

VARIABLES
  now,
  store,     (* the queue, a set of entries [batch, contexts, expires,     *)
             (* turn]: contexts are told apart by their custom ids, and    *)
             (* the entry of the lowest turn is at the front               *)
  pushed,    (* how many entries were pushed to the back: the last turn    *)
  made       (* history: the batches created in this life of the proxy,    *)
             (* [batch, contexts, at, recorded]                            *)

vars == <<now, store, pushed, made>>

(* Mutant: an entry outlives its time by one.                              *)
LiveLate(S) == {e \in S : e.expires + 1 > now}
Live(S) == {e \in S : e.expires > now}

Kept(b) == {e \in Live(store) : e.batch # b}

(* Mutant: the newest entry makes room.                                    *)
TrimmedNewest(S) ==
  {e \in S : Cardinality({f \in S : f.turn <= e.turn}) <= MaxBatchContexts}
(* What is left once the front of a queue S has made room.                 *)
Trimmed(S) ==
  {e \in S : Cardinality({f \in S : f.turn >= e.turn}) <= MaxBatchContexts}

Entry(b, contexts) ==
  [batch |-> b, contexts |-> contexts, expires |-> now + Ttl, turn |-> pushed + 1]

(* record_batch_context: a body without custom ids leaves no entry.        *)
Record(b, contexts) ==
  IF contexts = {} THEN UNCHANGED <<store, pushed>>
  ELSE /\ store' = Trimmed(Kept(b) \cup {Entry(b, contexts)})
       /\ pushed' = pushed + 1

(* batch_context: the newest entry of b.                                   *)
Lookup(b) ==
  LET found == {e \in Live(store) : e.batch = b}
  IN IF found = {} THEN None
     ELSE (CHOOSE e \in found : \A f \in found : f.turn <= e.turn).contexts

-----------------------------------------------------------------------------
Init ==
  /\ now = 0
  /\ store = {}
  /\ pushed = 0
  /\ made = << >>

Note(b, contexts, recorded) ==
  /\ Len(made) < MaxMade
  /\ made' = Append(made, [batch |-> b, contexts |-> contexts, at |-> now,
                           recorded |-> recorded])

(* A create answers in plain JSON: its contexts are recorded before the    *)
(* client learns the id.  Until then it has no effect here; one the        *)
(* provider refuses, or whose connection goes away, has none at all.       *)
Created(b, contexts) ==
  /\ Record(b, contexts)
  /\ Note(b, contexts, contexts # {})
  /\ UNCHANGED now

(* It answers in an encoding the client accepts, and is streamed through.  *)
CreatedEncoded(b, contexts) ==
  /\ Note(b, contexts, FALSE)
  /\ UNCHANGED <<now, store, pushed>>

(* GET /v1/messages/batches/{id}/results works with Lookup(b): without     *)
(* contexts the response is streamed through.  Whatever the id, the lookup *)
(* drops what expired.                                                     *)
Results ==
  /\ store' = Live(store)
  /\ UNCHANGED <<now, pushed, made>>

Restart ==
  /\ store' = {}
  /\ pushed' = 0
  /\ made' = << >>
  /\ UNCHANGED now

(* The wall clock (SystemTime), taken never to be set back.                *)
Tick ==
  /\ now < MaxTime
  /\ now' = now + 1
  /\ UNCHANGED <<store, pushed, made>>

Next ==
  \/ \E b \in Batch, contexts \in SUBSET Custom :
       Created(b, contexts) \/ CreatedEncoded(b, contexts)
  \/ Results
  \/ Restart
  \/ Tick

Spec == Init /\ [][Next]_vars

-----------------------------------------------------------------------------
(* The recorded creates of a batch, and the batches recorded after one.    *)
RecordsOf(b) == {k \in DOMAIN made : made[k].batch = b /\ made[k].recorded}
Latest(b) == made[CHOOSE k \in RecordsOf(b) : \A j \in RecordsOf(b) : j <= k]
Since(b) ==
  {made[j].batch : j \in {j \in DOMAIN made :
                            made[j].recorded /\ \A k \in RecordsOf(b) : k < j}}

(* Contexts are kept for 24 hours, up to 10000 batches (README): a results *)
(* request finds those of the latest create of its batch until they expire *)
(* or as many batches were recorded since, expired ones included.          *)
KeptUntilExpiry ==
  \A b \in Batch :
    /\ RecordsOf(b) # {}
    /\ now < Latest(b).at + Ttl
    /\ Cardinality(Since(b)) < MaxBatchContexts
    => Lookup(b) = Latest(b).contexts

(* A line is continued with parameters of the latest create of its batch,  *)
(* never with those of an older one, of another batch or expired ones.     *)
NeverStale ==
  \A b \in Batch : Lookup(b) # None =>
    /\ RecordsOf(b) # {}
    /\ Lookup(b) = Latest(b).contexts
    /\ now < Latest(b).at + Ttl

=============================================================================

---------------------------- MODULE BatchResults -----------------------------
(***************************************************************************)
(* A request for the results of a batch.  The contexts of the batch are    *)
(* looked up first; then the provider is asked, its answer is walked line  *)
(* by line, and each line whose message calls headroom_retrieve is         *)
(* continued (CcrContinuation) with the parameters of its request.  Other  *)
(* batches are made meanwhile, and entries expire.                         *)
(***************************************************************************)
EXTENDS BatchContexts

CONSTANTS
  Line,      (* lines of a results file                                    *)
  Answer     (* the files providers may give                               *)

(* "blank"; "odd": no JSON, no custom id or no message; "plain": a message *)
(* without retrievals; "retrieves": one with them.                         *)
ASSUME BatchResultsAssumption ==
  /\ Line \subseteq [custom : Custom,
                     kind : {"blank", "odd", "plain", "retrieves"}]
  /\ Answer \subseteq Seq(Line)

VARIABLES
  pc,        (* where the results request is                               *)
  params,    (* its snapshot of the contexts                               *)
  file, at,  (* the provider's answer, and the lines done                  *)
  out,       (* lines_out, and what was done with each                     *)
  processed, (* processed_any                                              *)
  reply,     (* the lines the client gets                                  *)
  promised,  (* history: contexts the batch should have had when asked     *)
  refused    (* history: lines whose continuation the provider refused     *)

walkVars == <<pc, params, file, at, out, processed, reply, promised, refused>>
allVars == <<vars, walkVars>>

Idle ==
  /\ pc = "idle"
  /\ params = None /\ promised = {} /\ refused = {}
  /\ file = << >> /\ at = 0
  /\ out = << >> /\ processed = FALSE /\ reply = << >>

(* Contexts are kept until they expire or newer batches need the room.     *)
Promised(b) ==
  IF /\ RecordsOf(b) # {} /\ now < Latest(b).at + Ttl
     /\ Cardinality(Since(b)) < MaxBatchContexts
  THEN Latest(b).contexts ELSE {}

(* The contexts are cloned out of the queue before the provider is asked.  *)
AskResults(b) ==
  /\ pc = "idle"
  /\ Results
  /\ params' = Lookup(b)
  /\ promised' = Promised(b)
  /\ pc' = IF Lookup(b) = None THEN "streamed" ELSE "asked"
  /\ UNCHANGED <<file, at, out, processed, reply, refused>>

(* Another status, an encoding, bytes that are no UTF-8, or a failure.     *)
PassOn ==
  /\ pc = "asked"
  /\ pc' = "streamed"
  /\ UNCHANGED <<vars, params, file, at, out, processed, reply, promised, refused>>

Receive(f) ==
  /\ pc = "asked"
  /\ pc' = "walking"
  /\ file' = f
  /\ UNCHANGED <<vars, params, at, out, processed, reply, promised, refused>>

Reached == file[at + 1]

Put(change) ==
  /\ at' = at + 1
  /\ out' = Append(out, [line |-> at + 1, change |-> change])

Blank ==
  /\ pc = "walking" /\ at < Len(file)
  /\ Reached.kind = "blank"
  /\ at' = at + 1
  /\ UNCHANGED <<vars, pc, params, file, out, processed, reply, promised, refused>>

(* Mutant: a line of an unknown request ends the walk of the file.         *)
CopyStops ==
  /\ pc = "walking" /\ at < Len(file)
  /\ Reached.kind \in {"odd", "plain"}
       \/ (Reached.kind = "retrieves" /\ Reached.custom \notin params)
  /\ at' = Len(file)
  /\ UNCHANGED <<vars, pc, params, file, out, processed, reply, promised, refused>>
Copy ==
  /\ pc = "walking" /\ at < Len(file)
  /\ Reached.kind \in {"odd", "plain"}
       \/ (Reached.kind = "retrieves" /\ Reached.custom \notin params)
  /\ Put("none")
  /\ UNCHANGED <<vars, pc, params, file, processed, reply, promised, refused>>

Continue ==
  /\ pc = "walking" /\ at < Len(file)
  /\ Reached.kind = "retrieves" /\ Reached.custom \in params
  /\ pc' = "continuing"
  /\ UNCHANGED <<vars, params, file, at, out, processed, reply, promised, refused>>

(* The exchange of the line ended, with another message in its place, or   *)
(* with the message it had if the provider refused to continue.            *)
Continued ==
  /\ pc = "continuing"
  /\ pc' = "walking"
  /\ Put("continued")
  /\ processed' = TRUE
  /\ UNCHANGED <<vars, params, file, reply, promised, refused>>
Refused ==
  /\ pc = "continuing"
  /\ pc' = "walking"
  /\ Put("none")
  /\ refused' = refused \cup {at + 1}
  /\ UNCHANGED <<vars, params, file, processed, reply, promised>>

(* Without a continued line the client gets the bytes of the provider.     *)
Untouched == [i \in DOMAIN file |-> [line |-> i, change |-> "none"]]
(* Mutant: only the last line decides.                                     *)
AnswerByLast ==
  /\ pc = "walking" /\ at = Len(file)
  /\ pc' = "done"
  /\ reply' = IF out # << >> /\ out[Len(out)].change = "continued" THEN out ELSE Untouched
  /\ UNCHANGED <<vars, params, file, at, out, processed, promised, refused>>
AnswerClient ==
  /\ pc = "walking" /\ at = Len(file)
  /\ pc' = "done"
  /\ reply' = IF processed THEN out ELSE Untouched
  /\ UNCHANGED <<vars, params, file, at, out, processed, promised, refused>>

(* The proxy restarts, and the results request goes with it.               *)
Crash ==
  /\ Restart
  /\ pc' = "idle"
  /\ params' = None /\ promised' = {} /\ refused' = {}
  /\ file' = << >> /\ at' = 0
  /\ out' = << >> /\ processed' = FALSE /\ reply' = << >>

(* Other requests make and look up batches, and time goes by.              *)
Elsewhere ==
  /\ \/ \E b \in Batch, contexts \in SUBSET Custom :
          Created(b, contexts) \/ CreatedEncoded(b, contexts)
     \/ Results
     \/ Tick
  /\ UNCHANGED walkVars

WalkInit == Init /\ Idle

WalkNext ==
  \/ Elsewhere \/ Crash
  \/ \E b \in Batch : AskResults(b)
  \/ \E f \in Answer : Receive(f)
  \/ PassOn \/ Blank \/ Copy \/ Continue \/ Continued \/ Refused \/ AnswerClient

WalkSpec == WalkInit /\ [][WalkNext]_allVars

-----------------------------------------------------------------------------
(* The results file reaches the client whole: every line that is not blank *)
(* once and in order, changed only where it retrieves and its request was  *)
(* one of the batch (proxy.rs, forward_batch_results).                     *)
LinesArePreserved ==
  pc = "done" =>
    /\ \A i \in DOMAIN reply : reply[i].line \in DOMAIN file
    /\ \A i, j \in DOMAIN reply : i < j => reply[i].line < reply[j].line
    /\ \A n \in DOMAIN file : file[n].kind # "blank" =>
         \E i \in DOMAIN reply : reply[i].line = n
    /\ \A i \in DOMAIN reply : reply[i].change = "continued" =>
         /\ file[reply[i].line].kind = "retrieves"
         /\ file[reply[i].line].custom \in params

(* A batch whose contexts were kept when its results were asked for has    *)
(* its retrievals resolved, whatever expired or was pushed out before the  *)
(* walk came to the line: only the provider's refusal leaves one in the    *)
(* reply (README, Message Batches).                                        *)
RetrievalsResolved ==
  pc = "done" =>
    \A i \in DOMAIN file :
      file[i].kind = "retrieves" /\ file[i].custom \in promised =>
        \/ i \in refused
        \/ \E k \in DOMAIN reply : reply[k] = [line |-> i, change |-> "continued"]
=============================================================================

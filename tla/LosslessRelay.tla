--------------------------- MODULE LosslessRelay ----------------------------
(***************************************************************************)
(* What compression promises: seen through the store, the proxy is a relay *)
(* that hands each request on exactly as the client sent it, once, or      *)
(* loses it in a crash.                                                    *)
(***************************************************************************)
CONSTANTS
  Task,        (* request slots                                            *)
  Message,     (* requests                                                 *)
  NoMessage,   (* an empty slot                                            *)
  Payload(_)   (* the strings of a request                                 *)

VARIABLES
  status,      (* "idle", "accepted", "sent" or "lost"                     *)
  message,     (* the request each slot holds                              *)
  delivered    (* what the provider can recover of it                      *)

vars == <<status, message, delivered>>

Init ==
  /\ status = [r \in Task |-> "idle"]
  /\ message = [r \in Task |-> NoMessage]
  /\ delivered = [r \in Task |-> << >>]

Accept(r, m) ==
  /\ status[r] = "idle"
  /\ status' = [status EXCEPT ![r] = "accepted"]
  /\ message' = [message EXCEPT ![r] = m]
  /\ UNCHANGED delivered

Deliver(r) ==
  /\ status[r] = "accepted"
  /\ status' = [status EXCEPT ![r] = "sent"]
  /\ delivered' = [delivered EXCEPT ![r] = Payload(message[r])]
  /\ UNCHANGED message

LoseAccepted ==
  /\ status' = [r \in Task |-> IF status[r] = "accepted" THEN "lost" ELSE status[r]]
  /\ UNCHANGED <<message, delivered>>

Next ==
  \/ \E r \in Task : Deliver(r) \/ \E m \in Message : Accept(r, m)
  \/ LoseAccepted

Spec == Init /\ [][Next]_vars

=============================================================================

----------------------------- MODULE ByteRelay -----------------------------
(***************************************************************************)
(* What the proxy promises of a streamed response: the client receives the *)
(* bytes of the upstream in their order, from the first one on and without *)
(* a gap, and is told that the response is complete only if it has them    *)
(* all.                                                                    *)
(***************************************************************************)
EXTENDS Naturals, Sequences

VARIABLES
  bytes,      (* what the upstream sends                                   *)
  received,   (* what the client has                                       *)
  ended       (* "no", "complete", or "cut"                                *)

vars == <<bytes, received, ended>>

Init ==
  /\ received = << >>
  /\ ended = "no"

Deliver ==
  /\ ended = "no"
  /\ \E n \in Len(received) + 1 .. Len(bytes) : received' = SubSeq(bytes, 1, n)
  /\ UNCHANGED <<bytes, ended>>

Complete ==
  /\ ended = "no"
  /\ received = bytes
  /\ ended' = "complete"
  /\ UNCHANGED <<bytes, received>>

Cut ==
  /\ ended = "no"
  /\ ended' = "cut"
  /\ UNCHANGED <<bytes, received>>

Next == Deliver \/ Complete \/ Cut

Spec == Init /\ [][Next]_vars

=============================================================================

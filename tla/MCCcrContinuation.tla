------------------------- MODULE MCCcrContinuation --------------------------
(***************************************************************************)
(* Responses of at most two choices over a retrieval of each hash, one     *)
(* with a query, a retrieval of no hash, a malformed one and a call of the *)
(* client.                                                                 *)
(***************************************************************************)
EXTENDS CcrContinuation, TLC

(* "h" and "g" may be stored; "x" is no hash.                              *)
Named(id, kind, hash, query) ==
  [id |-> id, kind |-> kind, hash |-> hash, query |-> query]

Calls == { Named("a", "retrieve", "h", FALSE), Named("b", "retrieve", "g", TRUE),
           Named("c", "client", "g", FALSE) }

Ends(calls) == [calls |-> calls, finish |-> IF calls = {} THEN "stop" ELSE "tools"]

OneChoice(S) == {[choices |-> <<Ends(x)>>] : x \in SUBSET S}
TwoChoices(S) == {[choices |-> <<Ends(x), Ends(y)>>] : x \in SUBSET S, y \in SUBSET S}

(* Several choices are never resolved, so one retrieval is enough there.   *)
Parsed == OneChoice(Calls) \cup TwoChoices({c \in Calls : c.hash = "h" \/ c.kind = "client"})

WithMalformed ==
  OneChoice({Named("a", "retrieve", "x", FALSE), Named("c", "malformed", "h", FALSE)})

Responses == Parsed \cup WithMalformed

=============================================================================

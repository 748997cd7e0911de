--------------------------- MODULE MCBatchResults ---------------------------
(***************************************************************************)
(* More batches than the queue holds, ids that come back, a clock that     *)
(* runs past the life of an entry, and results of up to three lines.       *)
(***************************************************************************)
EXTENDS BatchResults, TLC

CONSTANTS r1, r2

MCCustom == {r1, r2}
Says(custom, kind) == [custom |-> custom, kind |-> kind]
MCLine == {Says(r1, "blank"), Says(r1, "odd"), Says(r1, "retrieves"),
           Says(r2, "retrieves")}
MCAnswer == { <<Says(r1, "retrieves"), Says(r2, "retrieves")>>,
              <<Says(r1, "blank"), Says(r2, "retrieves"), Says(r1, "odd")>>,
              <<Says(r1, "odd"), Says(r1, "retrieves")>> }

Symmetry == Permutations(Batch)
=============================================================================

--------------------------- MODULE MCClaimWindow ---------------------------
(* The Process claim window with a ring of two entries. *)
EXTENDS ClaimWindow, TLC

\* Cycle ids are compared for equality only.
CycleSymmetry == Permutations(Cycles)
=============================================================================

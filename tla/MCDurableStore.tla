--------------------------- MODULE MCDurableStore ---------------------------
(* Two cycles that compete for one nonce and one global key. *)
EXTENDS DurableStore

CycleSymmetry == Permutations(Cycle)

StoreSymmetry == Permutations(Process) \cup Permutations(Cycle)
=============================================================================

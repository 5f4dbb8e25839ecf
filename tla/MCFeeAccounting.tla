-------------------------- MODULE MCFeeAccounting --------------------------
(* The fee ledger of FeeAccounting on small amounts. *)
EXTENDS FeeAccounting, TLC

\* The three remainders depend on the volume modulo 1000 only. Two swaps, one
\* of the form 1000 + i and one of the form 1000 + 32 * j, reach every residue,
\* and the second carries the remainder of the first.
EveryResidue == {1000 + i : i \in 0..31} \cup {1000 + 32 * j : j \in 0..31}

\* Requests around what the minimum quote leaves, and a spread above it.
RequestedNets == {969, 970, 1067, 1940}

AccountSymmetry == Permutations(Accounts)
=============================================================================

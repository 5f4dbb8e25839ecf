-------------------------- MODULE MCHookemonHook ---------------------------
(* The composed hook: two accounts, one swap size, two claim cycles. *)
EXTENDS HookemonHook, TLC

\* Accounts and cycle ids are compared for equality only.
HookSymmetry == Permutations(Addresses) \cup Permutations(Cycles)
=============================================================================

----------------------------- MODULE BlockTime ------------------------------
(***************************************************************************)
(* block.timestamp, the clock that the claim window and the delayed        *)
(* rotation of the hook both read.                                         *)
(***************************************************************************)
EXTENDS Integers

CONSTANT MaxTime   \* bound on block.timestamp in a run

ASSUME TimeAssumption == MaxTime \in Nat

VARIABLE now       \* block.timestamp

NextBlock == now < MaxTime /\ now' = now + 1
=============================================================================

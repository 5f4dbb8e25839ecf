---------------------------- MODULE MCCycleLease ----------------------------
(* Two runner processes on one state directory. *)
EXTENDS CycleLease

OutsideTheLock == {"idle", "sampled", "spin"}
=============================================================================

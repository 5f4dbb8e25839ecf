---------------------------- MODULE MCClaimStage ----------------------------
(* The claim stage with a bounded number of failures. *)
EXTENDS ClaimStage
=============================================================================

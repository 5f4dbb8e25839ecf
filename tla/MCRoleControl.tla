--------------------------- MODULE MCRoleControl ---------------------------
(* Three accounts that trade the two roles while time passes. *)
EXTENDS RoleControl
=============================================================================

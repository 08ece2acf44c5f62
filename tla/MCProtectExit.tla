--------------------------- MODULE MCProtectExit ---------------------------
(* ProtectExit on small instances: the bounds are in the configurations. *)
EXTENDS ProtectExit
=============================================================================

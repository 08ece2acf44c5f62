---------------------------- MODULE MCUserEvents ----------------------------
(* UserEvents on a small instance: the bounds are in the configuration. *)
EXTENDS UserEvents
=============================================================================

---------------------------- MODULE MCEntryFlow ----------------------------
(* EntryFlow on small instances: the bounds are in the configurations. *)
EXTENDS EntryFlow
=============================================================================

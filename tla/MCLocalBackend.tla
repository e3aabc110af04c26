---------------------------- MODULE MCLocalBackend ----------------------------
(* An instance of LocalBackend for model checking. *)
EXTENDS LocalBackend
==============================================================================

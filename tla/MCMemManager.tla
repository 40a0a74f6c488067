---------------------------- MODULE MCMemManager ----------------------------
(* Instances of MemManager for TLC; every constant is given in the .cfg. *)
EXTENDS MemManager
=============================================================================

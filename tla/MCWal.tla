-------------------------------- MODULE MCWal --------------------------------
(* Instances of Wal for TLC; every constant is given in the .cfg. *)
EXTENDS Wal
=============================================================================

------------------------------ MODULE MCAreas ------------------------------
(* Areas for TLC; the bounds are in MCAreas.cfg. *)
EXTENDS Areas, TLC

MCSymmetry == Permutations(DBs)
=============================================================================

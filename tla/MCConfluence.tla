---------------------------- MODULE MCConfluence ----------------------------
(* Confluence for model checking: see MCConfluence.cfg. *)
EXTENDS Confluence, TLC

Symmetry == Permutations(Cursors)
==============================================================================

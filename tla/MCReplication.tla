---------------------------- MODULE MCReplication ----------------------------
(* Instances of Replication for TLC. *)
EXTENDS Replication

(* The keys of every set share their first symbol; one key is a prefix of  *)
(* another.                                                                *)
ThreeKeys == {<<1, 1>>, <<1, 2>>, <<1, 2, 1>>}

OneSmall == {<<8>>}
OneBig   == {<<9, 9>>}
OneStamp == {<<7>>}
OneKey   == {<<1, 2>>}
TwoKeys  == {<<1, 1>>, <<1, 2, 1>>}
==============================================================================

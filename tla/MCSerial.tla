------------------------------ MODULE MCSerial ------------------------------
(* SerialNumber for TLC: a five-bit counter, see MCSerial.cfg. *)
EXTENDS SerialNumber
=============================================================================

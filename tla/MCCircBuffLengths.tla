-------------------------- MODULE MCCircBuffLengths --------------------------
(* Model-checking instance of CircBuffLengths. *)
EXTENDS CircBuffLengths

MCLengths    == 0 .. 12
MCFrameSizes == 0 .. 7
MCBuffSizes  == 0 .. 48
=============================================================================

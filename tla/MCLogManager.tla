----------------------------- MODULE MCLogManager ----------------------------
(* Model-checking instance of LogManager. *)
EXTENDS LogManager

CONSTANTS main, indi

MCProducers == { main, indi }
=============================================================================

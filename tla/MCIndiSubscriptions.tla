------------------------ MODULE MCIndiSubscriptions ------------------------
(* Small instances of the subscriptions. *)
EXTENDS IndiSubscriptions
=============================================================================

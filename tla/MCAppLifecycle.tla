--------------------------- MODULE MCAppLifecycle ---------------------------
(* Model-checking instance of AppLifecycle. *)
EXTENDS AppLifecycle

MCAppStates == { "NOTCONNECTED", "READY" }
=============================================================================

------------------------------ MODULE MCLogFile ------------------------------
(* Model-checking instance of LogFile. *)
EXTENDS LogFile

MCSizes   == { 1, 3 }
MCPeriods == { 0, 2 }
=============================================================================

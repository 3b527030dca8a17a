---------------------------- MODULE MCShmimMonitor ----------------------------
(* Two geometries and up to three streams, one after the other, of one name. *)
EXTENDS ShmimMonitor

MCSize == {"small", "large"}
=============================================================================

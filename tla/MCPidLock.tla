------------------------------ MODULE MCPidLock ------------------------------
(* Three processes, PIDs of one and of two digits, two ways to invoke the app. *)
EXTENDS PidLock, TLC

MCPid == {<<1>>, <<2>>, <<3>>, <<1, 2>>}

\* Started by its name, or by its full path (which contains the name).
MCInvoked == {"name", "path"}
MCContains(a, b) == a = b \/ a = "name"

Symmetry == Permutations(Instance)
=============================================================================

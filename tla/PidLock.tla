------------------------------- MODULE PidLock -------------------------------
(***************************************************************************)
(* The PID file of a MagAOXApp: lockPID and unlockPID, run by every        *)
(* process that is started with the same configuration name.  The file is  *)
(* what survives a crash; whether its PID still means anything is asked of *)
(* /proc.  One step is one system call: the test of the file and the write *)
(* of it are several steps apart, with nothing to make them atomic.        *)
(***************************************************************************)
EXTENDS Naturals, Sequences, FiniteSets

CONSTANTS
    Instance,   \* the processes that may exist at the same time
    Pid,        \* PIDs the system hands out, as the digits written to the file
    Invoked,    \* the argv[0]s the application is started by
    Contains(_, _), \* Contains(a, b): argv[0] a is found in the command line of b
    NoFile

ASSUME PidAssumption ==
    /\ Pid \subseteq Seq(Nat) \ {<< >>}
    /\ NoFile \notin Seq(Nat)
    /\ \A a, b \in Invoked : Contains(a, b) \in BOOLEAN
    /\ \A a \in Invoked : Contains(a, a)

VARIABLES
    pc,          \* where each process is in execute(); "absent": there is none
    m_pid,       \* the PID of each process, << >> if there is none
    invokedName,
    testPid,     \* what lockPID read from the file
    linked,      \* the file this process has open is the one in the directory
    dir,         \* the status directory exists
    file,        \* the contents of the PID file: digits, << >> (empty) or NoFile
    disturbed    \* history: two lockPID calls overlapped, or two command lines met,
                 \* since the last time no process existed

vars == <<pc, m_pid, invokedName, testPid, linked, dir, file, disturbed>>

Label == {"absent", "locking", "reading", "checking", "opening", "writing",
          "running", "unlocked"}
Locking == {"locking", "reading", "checking", "opening", "writing"}

Present == {i \in Instance : pc[i] # "absent"}
InLock  == {i \in Instance : pc[i] \in Locking}
Running == {i \in Instance : pc[i] = "running"}

(***************************************************************************)
(* A write at offset 0 of a file that somebody else has written since it   *)
(* was truncated leaves the tail of a longer number behind the new one.    *)
(***************************************************************************)
Overlay(new, old) ==
    IF Len(old) <= Len(new)
    THEN new
    ELSE [k \in 1 .. Len(old) |-> IF k <= Len(new) THEN new[k] ELSE old[k]]

TypeOK ==
    /\ pc \in [Instance -> Label]
    /\ m_pid \in [Instance -> Seq(Nat)]
    /\ invokedName \in [Instance -> Invoked]
    /\ testPid \in [Instance -> Seq(Nat)]
    /\ linked \in [Instance -> BOOLEAN]
    /\ \A i \in Instance : linked[i] => file # NoFile
    /\ dir \in BOOLEAN
    /\ file \in Seq(Nat) \cup {NoFile}
    /\ disturbed \in BOOLEAN

(***************************************************************************)
(* Any state a previous session can have left behind: no directory, no     *)
(* file, an empty one (crash between open and write) or any PID.           *)
(***************************************************************************)
Init ==
    /\ pc = [i \in Instance |-> "absent"]
    /\ m_pid = [i \in Instance |-> << >>]
    /\ invokedName \in {[i \in Instance |-> a] : a \in Invoked}
    /\ testPid = [i \in Instance |-> << >>]
    /\ linked = [i \in Instance |-> FALSE]
    /\ dir \in BOOLEAN
    /\ file \in IF dir THEN Pid \cup {<< >>, NoFile} ELSE {NoFile}
    /\ disturbed = FALSE

\* The process is gone, whatever it left in the file system.
Gone(i) ==
    /\ pc' = [pc EXCEPT ![i] = "absent"]
    /\ m_pid' = [m_pid EXCEPT ![i] = << >>]
    /\ testPid' = [testPid EXCEPT ![i] = << >>]
    /\ linked' = [linked EXCEPT ![i] = FALSE]
    /\ UNCHANGED <<invokedName, dir, file, disturbed>>

Goto(i, l) == pc' = [pc EXCEPT ![i] = l]

-----------------------------------------------------------------------------
(***************************************************************************)
(* A process is started and reaches lockPID.  Its PID is any that is free, *)
(* one that a stale file names included.                                   *)
(***************************************************************************)
Start(i) ==
    /\ pc[i] = "absent"
    /\ \E p \in Pid, a \in Invoked :
        /\ \A j \in Present : m_pid[j] # p
        /\ m_pid' = [m_pid EXCEPT ![i] = p]
        /\ invokedName' = [invokedName EXCEPT ![i] = a]
        /\ disturbed' = (\E j \in Present : disturbed \/ j \in InLock \/ invokedName[j] # a)
    /\ Goto(i, "locking")
    /\ UNCHANGED <<testPid, linked, dir, file>>

\* mkdir succeeds: there was no directory, so the file is not looked at.
DirCreated(i) ==
    /\ pc[i] = "locking"
    /\ ~dir
    /\ dir' = TRUE
    /\ Goto(i, "opening")
    /\ UNCHANGED <<m_pid, invokedName, testPid, linked, file, disturbed>>

DirExists(i) ==
    /\ pc[i] = "locking"
    /\ dir
    /\ Goto(i, "reading")
    /\ UNCHANGED <<m_pid, invokedName, testPid, linked, dir, file, disturbed>>

\* No PID file, so we just go on.
NoPidFile(i) ==
    /\ pc[i] = "reading"
    /\ file = NoFile
    /\ Goto(i, "opening")
    /\ UNCHANGED <<m_pid, invokedName, testPid, linked, dir, file, disturbed>>

\* testPid is not initialised: an empty file leaves it with any value.
ReadPidFile(i) ==
    /\ pc[i] = "reading"
    /\ file # NoFile
    /\ \E t \in IF file = << >> THEN Pid \cup {<< >>} ELSE {file} :
           testPid' = [testPid EXCEPT ![i] = t]
    /\ Goto(i, "checking")
    /\ UNCHANGED <<m_pid, invokedName, linked, dir, file, disturbed>>

(***************************************************************************)
(* The processes that /proc/<testPid>/cmdline shows to be this application:*)
(* the calling process is one of them when the stale PID is its own.       *)
(***************************************************************************)
Holder(i) ==
    {j \in Present : m_pid[j] = testPid[i] /\ Contains(invokedName[i], invokedName[j])}

\* Variant: a refused start cleans up after itself.
RefusedUnlocks(i) ==
    /\ pc[i] = "checking"
    /\ Holder(i) # {}
    /\ Goto(i, "unlocked")
    /\ file' = NoFile
    /\ linked' = [j \in Instance |-> FALSE]
    /\ UNCHANGED <<m_pid, invokedName, testPid, dir, disturbed>>

\* "PID already locked.  Time to die": execute returns without unlocking.
Refused(i) ==
    /\ pc[i] = "checking"
    /\ Holder(i) # {}
    /\ Gone(i)

NotLocked(i) ==
    /\ pc[i] = "checking"
    /\ Holder(i) = {}
    /\ testPid' = [testPid EXCEPT ![i] = << >>]
    /\ Goto(i, "opening")
    /\ UNCHANGED <<m_pid, invokedName, linked, dir, file, disturbed>>

\* The ofstream truncates or creates the file ...
OpenPidFile(i) ==
    /\ pc[i] = "opening"
    /\ file' = << >>
    /\ linked' = [linked EXCEPT ![i] = TRUE]
    /\ Goto(i, "writing")
    /\ UNCHANGED <<m_pid, invokedName, testPid, dir, disturbed>>

\* ... and closing it writes the PID, to a file that may have been removed by then.
WritePid(i) ==
    /\ pc[i] = "writing"
    /\ file' = IF linked[i] THEN Overlay(m_pid[i], file) ELSE file
    /\ linked' = [linked EXCEPT ![i] = FALSE]
    /\ Goto(i, "running")
    /\ UNCHANGED <<m_pid, invokedName, testPid, dir, disturbed>>

\* mkdir, open or write fails: lockPID returns -1 and execute returns.
LockError(i) ==
    /\ pc[i] \in {"locking", "opening", "writing"}
    /\ Gone(i)

\* The name is removed, whoever's PID is in it; a missing file is only logged.
unlockPID(i) ==
    /\ pc[i] = "running"
    /\ file' = NoFile
    /\ linked' = [j \in Instance |-> FALSE]
    /\ Goto(i, "unlocked")
    /\ UNCHANGED <<m_pid, invokedName, testPid, dir, disturbed>>

Exit(i) == pc[i] = "unlocked" /\ Gone(i)

\* The process is killed, at any point.
Crash(i) == pc[i] # "absent" /\ Gone(i)

Step(i) ==
    \/ Start(i) \/ DirCreated(i) \/ DirExists(i)
    \/ NoPidFile(i) \/ ReadPidFile(i) \/ Refused(i) \/ NotLocked(i)
    \/ OpenPidFile(i) \/ WritePid(i) \/ LockError(i)
    \/ unlockPID(i) \/ Exit(i) \/ Crash(i)

Next == \E i \in Instance : Step(i)

Spec == Init /\ [][Next]_vars

-----------------------------------------------------------------------------
(***************************************************************************)
(* lockPID prevents duplicates: two instances run at the same time only if *)
(* since the last moment without any process two lockPID calls overlapped  *)
(* or two command lines were in use.  What a crash left in the file, a     *)
(* recycled PID, a removed directory entry or a refused start never leads  *)
(* to it, and nothing of an earlier disturbance outlives the processes.    *)
(***************************************************************************)
Exclusion == \A i, j \in Running : i # j => disturbed

(***************************************************************************)
(* A running instance is the one its PID file names, so that the next      *)
(* start finds it and unlockPID removes a lock that is its own: a refused  *)
(* start has neither removed nor overwritten it.                           *)
(***************************************************************************)
HolderRecorded == ~disturbed => \A i \in Running : dir /\ file = m_pid[i]

=============================================================================

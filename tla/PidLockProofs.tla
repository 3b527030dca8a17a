---------------------------- MODULE PidLockProofs ----------------------------
(***************************************************************************)
(* lockPID keeps instances apart, for any number of processes and any set  *)
(* of PIDs and command lines.  Exclusion is not inductive: it rests on the *)
(* file naming whoever runs, which rests on where the others can be.       *)
(***************************************************************************)
EXTENDS PidLock, TLAPS

\* Live processes have PIDs, all different.
DistinctPids ==
    \A i, j \in Present : m_pid[i] \in Pid /\ (m_pid[i] = m_pid[j] => i = j)

\* Without a disturbance at most one process is in lockPID, and all are invoked alike.
Serial ==
    ~disturbed =>
        /\ \A i, j \in InLock : i = j
        /\ \A i, j \in Present : invokedName[i] = invokedName[j]

\* Whoever is in lockPID while an instance runs has read that instance's PID.
LockStands ==
    ~disturbed =>
        \A i \in Running :
            /\ dir
            /\ file = m_pid[i]
            /\ \A j \in Instance :
                /\ pc[j] \notin {"opening", "writing"}
                /\ pc[j] = "checking" => testPid[j] = m_pid[i]

\* The writer's file is the one it has just truncated.
WriterAlone ==
    ~disturbed => \A i \in Instance : pc[i] = "writing" => dir /\ file = << >> /\ linked[i]

\* Past the directory's creation it exists.
DirKept == \A i \in Instance : pc[i] \in Label \ {"absent", "locking"} => dir

IndInv == TypeOK /\ DistinctPids /\ Serial /\ LockStands /\ WriterAlone /\ DirKept

-----------------------------------------------------------------------------
\* An empty file is a file.
LEMMA EmptyFile == << >> \in Seq(Nat) /\ << >> # NoFile
  <1>1. << >> \in Seq(Nat)
    OBVIOUS
  <1> QED
    BY <1>1, PidAssumption, Zenon

\* Writing a PID into an empty file gives that PID.
LEMMA OverlayEmpty ==
    ASSUME NEW p \in Seq(Nat)
    PROVE  Overlay(p, << >>) = p
  <1>1. Len(<< >>) = 0 /\ Len(p) \in Nat
    OBVIOUS
  <1> QED
    BY <1>1 DEF Overlay

\* Whatever is written over whatever, the file holds digits.
LEMMA OverlayType ==
    ASSUME NEW p \in Seq(Nat), NEW q \in Seq(Nat)
    PROVE  Overlay(p, q) \in Seq(Nat)
  <1>1. CASE Len(q) <= Len(p)
    BY <1>1 DEF Overlay
  <1>2. CASE ~(Len(q) <= Len(p))
    <2> DEFINE f == [k \in 1 .. Len(q) |-> IF k <= Len(p) THEN p[k] ELSE q[k]]
    <2>1. Len(q) \in Nat /\ Len(p) \in Nat
      OBVIOUS
    <2>2. \A k \in 1 .. Len(q) : (IF k <= Len(p) THEN p[k] ELSE q[k]) \in Nat
      BY <2>1
    <2>3. f \in [1 .. Len(q) -> Nat]
      BY <2>2
    <2>4. f \in Seq(Nat)
      BY <2>1, <2>3
    <2> QED
      BY <1>2, <2>4 DEF Overlay
  <1> QED
    BY <1>1, <1>2

\* The variables keep their types under every step of lockPID and unlockPID.
LEMMA TypeStep == TypeOK /\ [Next]_vars => TypeOK'
  <1> SUFFICES ASSUME TypeOK, [Next]_vars PROVE TypeOK'
    OBVIOUS
  <1> USE PidAssumption DEF TypeOK, Label
  <1>1. CASE UNCHANGED vars
    BY <1>1 DEF vars
  <1>2. ASSUME NEW i \in Instance, Step(i) PROVE TypeOK'
    <2>1. CASE Start(i)
      <3>1. disturbed' \in BOOLEAN
        BY <2>1, Zenon DEF Start
      <3> QED
        BY <2>1, <3>1 DEF Start, Goto
    <2>2. CASE DirCreated(i)
      BY <2>2 DEF DirCreated, Goto
    <2>3. CASE DirExists(i) \/ NoPidFile(i)
      BY <2>3 DEF DirExists, NoPidFile, Goto
    <2>4. CASE ReadPidFile(i)
      <3>1. PICK t \in Seq(Nat) : testPid' = [testPid EXCEPT ![i] = t]
        <4>1. \A t \in (IF file = << >> THEN Pid \cup {<< >>} ELSE {file}) : t \in Seq(Nat)
          BY <2>4 DEF ReadPidFile
        <4> QED
          BY <2>4, <4>1 DEF ReadPidFile
      <3> QED
        BY <2>4, <3>1 DEF ReadPidFile, Goto
    <2>5. CASE Gone(i)
      BY <2>5 DEF Gone
    <2>6. CASE NotLocked(i)
      BY <2>6 DEF NotLocked, Goto
    <2>7. CASE OpenPidFile(i)
      <3>1. << >> \in Seq(Nat) /\ << >> # NoFile
        BY EmptyFile
      <3> QED
        BY <2>7, <3>1 DEF OpenPidFile, Goto
    <2>8. CASE WritePid(i)
      <3>1. IF file = NoFile THEN file' = NoFile ELSE file' \in Seq(Nat) /\ file' # NoFile
        <4>1. CASE linked[i]
          <5>1. m_pid[i] \in Seq(Nat) /\ file \in Seq(Nat)
            BY <4>1
          <5> QED
            BY <2>8, <4>1, <5>1, OverlayType DEF WritePid
        <4>2. CASE ~linked[i]
          BY <2>8, <4>2 DEF WritePid
        <4> QED
          BY <4>1, <4>2
      <3> QED
        BY <2>8, <3>1 DEF WritePid, Goto
    <2>9. CASE unlockPID(i)
      BY <2>9 DEF unlockPID, Goto
    <2> QED
      BY <1>2, <2>1, <2>2, <2>3, <2>4, <2>5, <2>6, <2>7, <2>8, <2>9
         DEF Step, Refused, LockError, Exit, Crash
  <1> QED
    BY <1>1, <1>2 DEF Next

-----------------------------------------------------------------------------
\* A process that ends takes part in nothing any more.
LEMMA GoneStep ==
    ASSUME IndInv, NEW i \in Instance, Gone(i)
    PROVE  (DistinctPids /\ Serial /\ LockStands /\ WriterAlone /\ DirKept)'
  <1> USE DEF IndInv, TypeOK, Gone, Present, InLock, Running, Label, Locking
  <1>1. /\ Present' \subseteq Present /\ InLock' \subseteq InLock /\ Running' \subseteq Running
        /\ i \notin Present'
    OBVIOUS
  <1>2. \A j \in Instance : j # i => m_pid'[j] = m_pid[j] /\ pc'[j] = pc[j] /\ testPid'[j] = testPid[j]
                                       /\ linked'[j] = linked[j]
    OBVIOUS
  <1>3. DistinctPids'
    BY <1>1, <1>2 DEF DistinctPids
  <1>4. Serial'
    BY <1>1 DEF Serial
  <1>5. LockStands'
    BY <1>1, <1>2 DEF LockStands
  <1>6. WriterAlone' /\ DirKept'
    BY <1>2 DEF WriterAlone, DirKept
  <1> QED
    BY <1>3, <1>4, <1>5, <1>6

\* Every step of every process keeps the lock standing.
LEMMA LockStep ==
    ASSUME IndInv, NEW i \in Instance, Step(i)
    PROVE  (DistinctPids /\ Serial /\ LockStands /\ WriterAlone /\ DirKept)'
  <1> USE PidAssumption DEF IndInv, TypeOK, Label, Locking, Present, InLock, Running
  <1>1. CASE Start(i)
    <2> USE <1>1 DEF Start, Goto
    <2>1. PICK p \in Pid, a \in Invoked :
            /\ \A j \in Present : m_pid[j] # p
            /\ m_pid' = [m_pid EXCEPT ![i] = p]
            /\ invokedName' = [invokedName EXCEPT ![i] = a]
            /\ disturbed' = (\E j \in Present : disturbed \/ j \in InLock \/ invokedName[j] # a)
      OBVIOUS
    <2>2. \A j \in Instance : j # i => pc'[j] = pc[j] /\ m_pid'[j] = m_pid[j]
                                        /\ invokedName'[j] = invokedName[j]
      BY <2>1
    <2>3. pc'[i] = "locking" /\ m_pid'[i] = p /\ invokedName'[i] = a
      BY <2>1
    <2>4. DistinctPids'
      BY <2>1, <2>2, <2>3 DEF DistinctPids
    <2>5. ASSUME ~disturbed' PROVE \A j \in Present : ~disturbed /\ j \notin InLock /\ invokedName[j] = a
      BY <2>1, <2>5, Zenon
    <2>6. Serial'
      BY <2>2, <2>3, <2>5 DEF Serial
    <2>7. LockStands'
      BY <2>2, <2>3, <2>5 DEF LockStands
    <2>8. WriterAlone'
      BY <2>2, <2>3, <2>5 DEF WriterAlone
    <2>9. DirKept'
      BY <2>2, <2>3 DEF DirKept
    <2> QED
      BY <2>4, <2>6, <2>7, <2>8, <2>9
  <1>2. CASE DirCreated(i) \/ DirExists(i) \/ NoPidFile(i) \/ NotLocked(i)
    <2> USE <1>2 DEF DirCreated, DirExists, NoPidFile, NotLocked, Goto
    <2>1. /\ UNCHANGED <<m_pid, invokedName, linked, file, disturbed>>
          /\ \A j \in Instance : j # i => pc'[j] = pc[j] /\ testPid'[j] = testPid[j]
          /\ pc[i] \in {"locking", "reading", "checking"} /\ pc'[i] \in {"reading", "opening"}
          /\ dir' /\ (dir => dir')
      BY DEF DirKept
    <2>2. Present' = Present /\ InLock' = InLock /\ Running' = Running
      BY <2>1
    <2>3. DistinctPids'
      BY <2>1, <2>2 DEF DistinctPids
    <2>4. Serial'
      BY <2>1, <2>2 DEF Serial
    <2>5. ASSUME ~disturbed, NEW r \in Running PROVE pc'[i] # "opening"
      <3>1. dir /\ file = m_pid[r] /\ m_pid[r] \in Seq(Nat)
        BY <2>5 DEF LockStands
      <3>2. CASE NotLocked(i)
        <4>1. testPid[i] = m_pid[r] /\ invokedName[i] = invokedName[r] /\ r \in Present
          BY <2>5, <3>2 DEF LockStands, Serial
        <4>2. r \in Holder(i)
          BY <4>1 DEF Holder
        <4> QED
          BY <3>2, <4>2
      <3> QED
        BY <3>1, <3>2
    <2>6. LockStands'
      <3> SUFFICES ASSUME ~disturbed, NEW r \in Running
                   PROVE  /\ dir' /\ file' = m_pid'[r]
                          /\ \A j \in Instance :
                              /\ pc'[j] \notin {"opening", "writing"}
                              /\ pc'[j] = "checking" => testPid'[j] = m_pid'[r]
        BY <2>1, <2>2 DEF LockStands
      <3>1. pc'[i] = "reading"
        BY <2>1, <2>5
      <3> QED
        BY <2>1, <3>1 DEF LockStands
    <2>7. WriterAlone' /\ DirKept'
      BY <2>1 DEF WriterAlone, DirKept
    <2> QED
      BY <2>3, <2>4, <2>6, <2>7
  <1>3. CASE ReadPidFile(i)
    <2> USE <1>3 DEF ReadPidFile, Goto
    <2>1. /\ UNCHANGED <<m_pid, invokedName, linked, dir, file, disturbed>>
          /\ \A j \in Instance : j # i => pc'[j] = pc[j] /\ testPid'[j] = testPid[j]
          /\ pc[i] = "reading" /\ pc'[i] = "checking"
      OBVIOUS
    <2>2. Present' = Present /\ InLock' = InLock /\ Running' = Running
      BY <2>1
    <2>3. DistinctPids' /\ Serial'
      BY <2>1, <2>2 DEF DistinctPids, Serial
    <2>4. ASSUME ~disturbed, NEW r \in Running PROVE testPid'[i] = m_pid[r]
      <3>1. file = m_pid[r] /\ m_pid[r] \in Pid
        BY <2>4 DEF LockStands, DistinctPids
      <3>2. file # << >>
        BY <3>1
      <3> QED
        BY <3>1, <3>2
    <2>5. LockStands'
      BY <2>1, <2>2, <2>4 DEF LockStands
    <2>6. WriterAlone' /\ DirKept'
      BY <2>1 DEF WriterAlone, DirKept
    <2> QED
      BY <2>3, <2>5, <2>6
  <1>4. CASE OpenPidFile(i)
    <2> USE <1>4 DEF OpenPidFile, Goto
    <2>1. /\ UNCHANGED <<m_pid, invokedName, testPid, dir, disturbed>> /\ file' = << >>
          /\ \A j \in Instance : j # i => pc'[j] = pc[j]
          /\ pc[i] = "opening" /\ pc'[i] = "writing" /\ linked'[i]
      OBVIOUS
    <2>2. Present' = Present /\ InLock' = InLock /\ Running' = Running
      BY <2>1
    <2>3. DistinctPids' /\ Serial'
      BY <2>1, <2>2 DEF DistinctPids, Serial
    <2>4. LockStands'
      BY <2>1, <2>2 DEF LockStands
    <2>5. dir
      BY <2>1 DEF DirKept
    <2>6. WriterAlone'
      BY <2>1, <2>5 DEF WriterAlone, Serial
    <2>7. DirKept'
      BY <2>1, <2>5 DEF DirKept
    <2> QED
      BY <2>3, <2>4, <2>6, <2>7
  <1>5. CASE WritePid(i)
    <2> USE <1>5 DEF WritePid, Goto
    <2>1. /\ UNCHANGED <<m_pid, invokedName, testPid, dir, disturbed>>
          /\ \A j \in Instance : j # i => pc'[j] = pc[j] /\ linked'[j] = linked[j]
          /\ pc[i] = "writing" /\ pc'[i] = "running"
      OBVIOUS
    <2>2. Present' = Present /\ InLock' = InLock \ {i} /\ Running' = Running \cup {i}
      BY <2>1
    <2>3. DistinctPids' /\ Serial'
      BY <2>1, <2>2 DEF DistinctPids, Serial
    <2>4. ASSUME ~disturbed PROVE Running = {} /\ dir /\ file' = m_pid[i] /\ InLock' = {}
      <3>1. Running = {} /\ InLock = {i}
        BY <2>1, <2>4 DEF LockStands, Serial
      <3>2. file = << >> /\ linked[i] /\ dir
        BY <2>1, <2>4 DEF WriterAlone
      <3>3. file' = Overlay(m_pid[i], << >>)
        BY <3>2
      <3> QED
        BY <2>2, <3>1, <3>2, <3>3, OverlayEmpty
    <2>5. LockStands'
      <3>1. ASSUME ~disturbed, NEW j \in Instance
            PROVE  pc'[j] \notin {"checking", "opening", "writing"}
        BY <2>4, <3>1
      <3> QED
        BY <2>1, <2>2, <2>4, <3>1 DEF LockStands
    <2>6. WriterAlone'
      BY <2>1, <2>2, <2>4 DEF WriterAlone
    <2>7. DirKept'
      BY <2>1 DEF DirKept
    <2> QED
      BY <2>3, <2>5, <2>6, <2>7
  <1>6. CASE unlockPID(i)
    <2> USE <1>6 DEF unlockPID, Goto
    <2>1. /\ UNCHANGED <<m_pid, invokedName, testPid, dir, disturbed>>
          /\ \A j \in Instance : j # i => pc'[j] = pc[j]
          /\ pc[i] = "running" /\ pc'[i] = "unlocked"
      OBVIOUS
    <2>2. Present' = Present /\ InLock' = InLock /\ Running' = Running \ {i}
      BY <2>1
    <2>3. DistinctPids' /\ Serial'
      BY <2>1, <2>2 DEF DistinctPids, Serial
    <2>4. ASSUME ~disturbed PROVE Running' = {} /\ \A j \in Instance : pc'[j] # "writing"
      BY <2>1, <2>2, <2>4 DEF LockStands, DistinctPids
    <2>5. LockStands' /\ WriterAlone' /\ DirKept'
      BY <2>1, <2>4 DEF LockStands, WriterAlone, DirKept
    <2> QED
      BY <2>3, <2>5
  <1>7. CASE Gone(i)
    BY <1>7, GoneStep
  <1> QED
    BY <1>1, <1>2, <1>3, <1>4, <1>5, <1>6, <1>7
       DEF Step, Refused, LockError, Exit, Crash

\* Nothing runs at first, whatever the file holds.
LEMMA InitInv == Init => IndInv
  <1> SUFFICES ASSUME Init PROVE IndInv
    OBVIOUS
  <1> USE PidAssumption DEF Init, Label, Locking
  <1>1. << >> \in Seq(Nat)
    BY EmptyFile
  <1>2. file \in Seq(Nat) \cup {NoFile}
    BY <1>1
  <1>3. TypeOK
    BY <1>1, <1>2 DEF TypeOK
  <1>4. Present = {} /\ InLock = {} /\ Running = {}
    BY DEF Present, InLock, Running
  <1> QED
    BY <1>3, <1>4 DEF IndInv, DistinctPids, Serial, LockStands, WriterAlone, DirKept

\* The strengthening is an invariant of the processes' steps.
THEOREM InvariantHolds == Spec => []IndInv
  <1>1. IndInv /\ [Next]_vars => IndInv'
    <2> SUFFICES ASSUME IndInv, [Next]_vars PROVE IndInv'
      OBVIOUS
    <2>1. TypeOK'
      BY TypeStep DEF IndInv
    <2>2. CASE UNCHANGED vars
      BY <2>1, <2>2 DEF vars, IndInv, DistinctPids, Serial, LockStands, WriterAlone, DirKept,
                        Present, InLock, Running
    <2>3. ASSUME NEW i \in Instance, Step(i) PROVE IndInv'
      BY <2>1, <2>3, LockStep DEF IndInv
    <2> QED
      BY <2>2, <2>3 DEF Next
  <1> QED
    BY <1>1, InitInv, PTL DEF Spec

\* A running instance is the one its file names (lockPID, unlockPID).
THEOREM HolderAlwaysRecorded == Spec => []HolderRecorded
  <1>1. IndInv => HolderRecorded
    BY DEF IndInv, LockStands, HolderRecorded, Running
  <1> QED
    BY <1>1, InvariantHolds, PTL

\* Two instances never run together unless their starts interfered (lockPID).
THEOREM ExclusionHolds == Spec => []Exclusion
  <1>1. IndInv => Exclusion
    <2> SUFFICES ASSUME IndInv, NEW i \in Running, NEW j \in Running, ~disturbed PROVE i = j
      BY DEF Exclusion
    <2>1. file = m_pid[i] /\ file = m_pid[j]
      BY DEF IndInv, LockStands
    <2>2. i \in Present /\ j \in Present
      BY DEF Running, Present
    <2> QED
      BY <2>1, <2>2 DEF IndInv, DistinctPids
  <1> QED
    BY <1>1, InvariantHolds, PTL
=============================================================================

----------------------------- MODULE LogManager -----------------------------
(***************************************************************************)
(* The log manager of MagAO-X (libMagAOX/logger/logManager.hpp): any       *)
(* thread pushes entries on a list under a mutex; the log thread writes    *)
(* them to the log file, shows them to the application, and erases them.   *)
(* The destructor stops the thread and writes what it has left behind.     *)
(* The signal handler of MagAOXApp logs too, on the thread it interrupts.  *)
(*                                                                         *)
(* Data abstraction.  An entry is its number in the order of the pushes.   *)
(* The log file is a sequence of entries (module LogFile says how it is    *)
(* split); writing to it succeeds or fails.                                *)
(***************************************************************************)
EXTENDS Integers, Sequences, SequencesExt

CONSTANTS
    Producers,    \* the threads that log
    MaxLogged,    \* bound: entries logged in a behaviour
    WriteMayFail, \* whether a write to the log file can fail
    MaySignal     \* whether SIGTERM, SIGINT or SIGQUIT can arrive

ASSUME LogManagerAssumption ==
    /\ MaxLogged \in Nat /\ WriteMayFail \in BOOLEAN /\ MaySignal \in BOOLEAN
    /\ { "log", "none" } \cap Producers = {}

VARIABLES
    logQueue,          \* m_logQueue
    qMutex,            \* the thread that holds m_qMutex, or "none"
    logShutdown,       \* m_logShutdown
    logThreadRunning,  \* m_logThreadRunning
    logPc,             \* where logThreadExec is
    it,                \* its iterator: an entry, or 0 for end()
    destructor,        \* "no", "joining", "draining" or "done"
    interrupted,       \* the thread the signal handler runs on, or "none"
    signalled          \* "unset" without handlers, then "no", "handling", "logged"

VARIABLES              \* history
    logged,            \* how many entries have been pushed
    stored,            \* the entries in the log file
    drainFailed,       \* a write failed in the run of the destructor itself
    flushed,           \* how many of them were in it at the last flush
    batch              \* the entries in the list when the batch began

queueVars == << logQueue, qMutex, logged >>
threadVars == << logThreadRunning, logPc, it >>
historyVars == << stored, drainFailed, flushed, batch >>
signalVars == << interrupted, signalled >>
managerVars == << queueVars, threadVars, historyVars, signalVars, logShutdown, destructor >>

Threads == Producers \cup { "log" }
LogLabels == { "start", "top", "write", "message", "advance", "lock", "erase",
               "flush", "ended" }

ManagerInit ==
    /\ logQueue = << >> /\ qMutex = "none" /\ logShutdown = FALSE
    /\ logThreadRunning = FALSE /\ it = 0
    /\ logPc \in { "start", "ended" }  \* "ended": execute returns before logThreadStart
    /\ destructor = "no" /\ interrupted = "none" /\ signalled = "unset"
    /\ logged = 0 /\ stored = << >> /\ drainFailed = FALSE /\ flushed = 0 /\ batch = {}

\* A thread is stopped while a signal handler runs on it.
Runs(t) == interrupted # t
MutexFree == qMutex = "none"

\* push_back of the next entry.
Push ==
    /\ logQueue' = Append(logQueue, logged + 1)
    /\ logged' = logged + 1

----------------------------------------------------------------------------
\* log(): the mutex is taken; producers have ended when the destructor runs.
LogLock(p) ==
    /\ Runs(p) /\ destructor = "no"
    /\ logged < MaxLogged /\ MutexFree
    /\ qMutex' = p
    /\ UNCHANGED << logQueue, logged, threadVars, historyVars, signalVars,
                    logShutdown, destructor >>

\* log(): the entry is pushed and the mutex released.
LogPush(p) ==
    /\ Runs(p) /\ qMutex = p
    /\ Push
    /\ qMutex' = "none"
    /\ UNCHANGED << threadVars, historyVars, signalVars, logShutdown, destructor >>

----------------------------------------------------------------------------
(***************************************************************************)
(* logThreadExec, run by the log thread and again by the destructor.       *)
(***************************************************************************)

\* Variants with a fault: the thread stops as soon as it is told to; it never stops.
MoreToDoUntilShutdown == ~logShutdown
MoreToDoAlways == TRUE

MoreToDo == ~logShutdown \/ logQueue # << >>

ThreadStart ==
    /\ logPc = "start"
    /\ logThreadRunning' = TRUE
    /\ logPc' = "top"
    /\ UNCHANGED << queueVars, it, historyVars, signalVars, logShutdown, destructor >>

\* The loop condition, then begin() and end() of the list, under the mutex.
BatchBegin ==
    /\ logPc = "top" /\ Runs("log") /\ MoreToDo /\ MutexFree
    /\ it' = IF logQueue = << >> THEN 0 ELSE Head(logQueue)
    /\ batch' = ToSet(logQueue)
    /\ logPc' = IF it' = 0 THEN "flush" ELSE "write"
    /\ UNCHANGED << queueVars, logThreadRunning, stored, drainFailed, flushed, signalVars,
                    logShutdown, destructor >>

ThreadEnd ==
    /\ logPc = "top" /\ Runs("log") /\ ~MoreToDo
    /\ logThreadRunning' = FALSE
    /\ logPc' = "ended"
    /\ UNCHANGED << queueVars, it, historyVars, signalVars, logShutdown, destructor >>

WriteLog ==
    /\ logPc = "write" /\ Runs("log")
    /\ stored' = Append(stored, it)
    /\ logPc' = "message"
    /\ UNCHANGED << queueVars, logThreadRunning, it, drainFailed, flushed, batch,
                    signalVars, logShutdown, destructor >>

\* The entry stays in the list.
WriteLogError ==
    /\ WriteMayFail /\ logPc = "write" /\ Runs("log")
    /\ logThreadRunning' = FALSE
    /\ drainFailed' = (destructor = "draining")
    /\ logPc' = "ended"
    /\ UNCHANGED << queueVars, it, stored, flushed, batch, signalVars, logShutdown,
                    destructor >>

\* logMessage of the application; it may log itself, on this thread ("FSM alert
\* set", or an exception while sending the message over INDI).
LogMessage ==
    /\ logPc = "message" /\ Runs("log")
    /\ \/ UNCHANGED queueVars
       \/ /\ logged < MaxLogged /\ MutexFree
          /\ Push
          /\ UNCHANGED qMutex
    /\ logPc' = "advance"
    /\ UNCHANGED << logThreadRunning, it, historyVars, signalVars, logShutdown,
                    destructor >>

\* The iterator moves on, without the mutex: it sees the entries pushed meanwhile.
Advance ==
    /\ logPc = "advance" /\ Runs("log")
    /\ it' = IF Len(logQueue) > 1 THEN logQueue[2] ELSE 0
    /\ logPc' = "lock"
    /\ UNCHANGED << queueVars, logThreadRunning, historyVars, signalVars,
                    logShutdown, destructor >>

EraseLock ==
    /\ logPc = "lock" /\ Runs("log") /\ MutexFree
    /\ qMutex' = "log"
    /\ logPc' = "erase"
    /\ UNCHANGED << logQueue, logged, logThreadRunning, it, historyVars, signalVars,
                    logShutdown, destructor >>

\* Variant with a fault: the rest of the list goes with the entry.
EraseAll ==
    /\ logPc = "erase" /\ Runs("log")
    /\ logQueue' = << >>
    /\ qMutex' = "none"
    /\ logPc' = IF it = 0 THEN "flush" ELSE "write"
    /\ UNCHANGED << logged, logThreadRunning, it, historyVars, signalVars,
                    logShutdown, destructor >>

\* The written entry, the first of the list, is erased.
Erase ==
    /\ logPc = "erase" /\ Runs("log")
    /\ logQueue' = Tail(logQueue)
    /\ qMutex' = "none"
    /\ logPc' = IF it = 0 THEN "flush" ELSE "write"
    /\ UNCHANGED << logged, logThreadRunning, it, historyVars, signalVars,
                    logShutdown, destructor >>

\* Variant with a fault: the batch ends without a flush.
FlushSkipped ==
    /\ logPc = "flush" /\ Runs("log")
    /\ logPc' = "top"
    /\ UNCHANGED << queueVars, logThreadRunning, it, historyVars, signalVars,
                    logShutdown, destructor >>

\* flush, closeIfIntervalElapsed, and a pause when there is nothing to do.
Flush ==
    /\ logPc = "flush" /\ Runs("log")
    /\ flushed' = Len(stored)
    /\ logPc' = "top"
    /\ UNCHANGED << queueVars, logThreadRunning, it, stored, drainFailed, batch, signalVars,
                    logShutdown, destructor >>

----------------------------------------------------------------------------
(***************************************************************************)
(* The destructor, after the threads of the application have ended.        *)
(***************************************************************************)
DestructorBegin ==
    /\ destructor = "no" /\ qMutex \in { "none", "log" }
    /\ interrupted = "none"
    /\ logShutdown' = TRUE
    /\ destructor' = "joining"
    /\ UNCHANGED << queueVars, threadVars, historyVars, signalVars >>

\* The thread is joined; if the list is not empty, logThreadExec runs once more, on
\* the thread of the destructor.
DestructorJoined ==
    /\ destructor = "joining" /\ logPc = "ended"
    /\ IF logQueue # << >>
         THEN destructor' = "draining" /\ logPc' = "start"
         ELSE destructor' = "done" /\ UNCHANGED logPc
    /\ UNCHANGED << queueVars, logThreadRunning, it, historyVars, signalVars,
                    logShutdown >>

DestructorDrained ==
    /\ destructor = "draining" /\ logPc = "ended"
    /\ destructor' = "done"
    /\ UNCHANGED << queueVars, threadVars, historyVars, signalVars, logShutdown >>

Ended == destructor = "done" /\ UNCHANGED managerVars

----------------------------------------------------------------------------
(***************************************************************************)
(* handlerSigTerm of MagAOXApp: it runs on the thread t it interrupts,     *)
(* wherever that thread is, and logs.                                      *)
(***************************************************************************)

\* execute() installs the handlers once it has seen the log thread running.
InstallHandlers ==
    /\ signalled = "unset" /\ logThreadRunning /\ destructor = "no"
    /\ signalled' = "no"
    /\ UNCHANGED << queueVars, threadVars, historyVars, interrupted, logShutdown, destructor >>

Signal(t) ==
    /\ MaySignal /\ signalled = "no" /\ destructor = "no"
    /\ t = "log" => logPc \notin { "start", "ended" }
    /\ interrupted' = t
    /\ signalled' = "handling"
    /\ UNCHANGED << queueVars, threadVars, historyVars, logShutdown, destructor >>

\* The handler's log() waits for the mutex, which its own thread may hold.
SignalLogs ==
    /\ signalled = "handling" /\ MutexFree
    /\ Push
    /\ signalled' = "logged"
    /\ interrupted' = "none"
    /\ UNCHANGED << qMutex, threadVars, historyVars, logShutdown, destructor >>

ThreadStep == ThreadStart \/ BatchBegin \/ ThreadEnd \/ WriteLog \/ WriteLogError
             \/ LogMessage \/ Advance \/ EraseLock \/ Erase \/ Flush
Producer(p) == LogLock(p) \/ LogPush(p)
Destructor == DestructorBegin \/ DestructorJoined \/ DestructorDrained \/ Ended
Signals == InstallHandlers \/ (\E t \in Threads : Signal(t)) \/ SignalLogs

ManagerNext == ThreadStep \/ (\E p \in Producers : Producer(p)) \/ Destructor \/ Signals

ManagerSpec == ManagerInit /\ [][ManagerNext]_managerVars

(***************************************************************************)
(* Fairness.  The log thread runs (its only pause is m_writePause), a      *)
(* thread that holds the mutex goes on, and so does a signal handler.      *)
(* Nobody has to log, no signal has to come, no write has to fail; that    *)
(* the application ends is not assumed either.                             *)
(***************************************************************************)
LogThreadRuns == ThreadStart \/ BatchBegin \/ ThreadEnd \/ WriteLog \/ LogMessage
                 \/ Advance \/ EraseLock \/ Erase \/ Flush
FairManagerSpec ==
    /\ ManagerSpec
    /\ SF_managerVars(LogThreadRuns)
    /\ \A p \in Producers : WF_managerVars(LogPush(p))
    /\ WF_managerVars(DestructorJoined \/ DestructorDrained)
    /\ SF_managerVars(SignalLogs)

----------------------------------------------------------------------------
\* The entry at the head of the list has been written but not yet erased.
HeadWritten == logPc \in { "message", "advance", "lock", "erase" }

\* What is still to be written.
Unwritten == IF HeadWritten THEN Tail(logQueue) ELSE logQueue

\* Every member has its type.
ManagerTypeOK ==
    /\ logQueue \in Seq(Nat) /\ qMutex \in Threads \cup { "none" }
    /\ logShutdown \in BOOLEAN /\ logThreadRunning \in BOOLEAN
    /\ logPc \in LogLabels /\ it \in Nat
    /\ destructor \in { "no", "joining", "draining", "done" }
    /\ interrupted \in Threads \cup { "none" }
    /\ signalled \in { "unset", "no", "handling", "logged" }
    /\ logged \in Nat /\ stored \in Seq(Nat) /\ drainFailed \in BOOLEAN
    /\ flushed \in Nat /\ batch \subseteq Nat
    /\ HeadWritten => logQueue # << >>

\* Every entry is in the file or in the list, exactly once and in the order of the
\* pushes, although the thread walks the list without the mutex, may fail at any
\* entry and is followed by the destructor's second run over the same list.
EachEntryOnce == stored \o Unwritten = [ i \in 1 .. logged |-> i ]

\* When the destructor has finished, everything that was logged is in the file,
\* unless a write failed in its own run over the list.
EverythingWritten ==
    destructor = "done" => Len(stored) = logged \/ drainFailed

\* A signal handler waits for the mutex on the very thread that holds it.
SignalStuck == signalled = "handling" /\ qMutex = interrupted

\* While the thread runs, each entry that is logged reaches the file, however many
\* more are pushed behind it: the thread cannot be kept from the mutex.
EntriesWritten ==
    \A n \in 1 .. MaxLogged :
        logThreadRunning /\ logged >= n ~> Len(stored) >= n \/ ~logThreadRunning \/ SignalStuck

\* Once nobody logs any more, the list is emptied and the file flushed.  (While others
\* keep logging a batch need not end, and the flush after it need not come: see
\* BatchIsSnapshot.)
FlushedWhenQuiet ==
    <>[][logged' = logged]_managerVars =>
        (logThreadRunning /\ logQueue # << >>
            ~> \/ logQueue = << >> /\ flushed = Len(stored)
               \/ ~logThreadRunning \/ SignalStuck)

\* logThreadExec brings every entry to the file, and flushes the file when the logging
\* pauses, unless a write fails.  (What a stuck signal handler does is SignalIsLogged's.)
EntriesFlushed == EntriesWritten /\ FlushedWhenQuiet

\* Once the destructor has begun it ends: the thread it joins comes to an end, also
\* when it died with entries left.
DestructorEnds == destructor = "joining" ~> destructor = "done"

\* A batch writes only what was in the list when it began, as the comment in
\* logThreadExec says ("so we only process logs in the list at this point").
BatchIsSnapshot == logPc = "write" => it \in batch

\* A signal that is caught is logged, as the documentation of handlerSigTerm says
\* ("Sets m_shutdown to 1 and logs the signal").
SignalIsLogged == signalled = "handling" ~> signalled = "logged"
=============================================================================

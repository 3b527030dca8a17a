---------------------------- MODULE AppLifecycle ----------------------------
(***************************************************************************)
(* The life of a MagAO-X application (libMagAOX/app/MagAOXApp.hpp): the    *)
(* start-up sequence, main event loop and shutdown of execute(), the FSM   *)
(* state and its publication over INDI, and power management.  Next to the *)
(* main thread run the INDI thread with its callbacks, the log thread,     *)
(* which sets the FSM alert for entries worse than an error, and signals.  *)
(*                                                                         *)
(* Data abstraction.  What the derived application does in appStartup,     *)
(* appLogic and its callbacks is reduced to the FSM state it sets and      *)
(* whether it fails.  The published property is its text and its INDI      *)
(* state.  Time is left out: a wait with a timeout may end at any moment.  *)
(***************************************************************************)
EXTENDS Integers

CONSTANTS
    AppStates,     \* FSM states that the derived application sets
    PowerOnWait,   \* m_powerOnWait, in iterations of the event loop
    MaxEvents      \* bound: callbacks, power changes and alerts in a behaviour

StateCodes == { "FAILURE", "ERROR", "UNINITIALIZED", "INITIALIZED", "NODEVICE",
                "POWEROFF", "POWERON", "NOTCONNECTED", "CONNECTED", "LOGGEDIN",
                "CONFIGURING", "NOTHOMED", "HOMING", "OPERATING", "READY", "SHUTDOWN" }

ASSUME AppLifecycleAssumption ==
    /\ AppStates \subseteq StateCodes \ { "POWEROFF", "POWERON" }
    /\ PowerOnWait \in Nat /\ MaxEvents \in Nat

VARIABLES
    useINDI,         \* m_useINDI
    powerMgt,        \* m_powerMgtEnabled
    pc,              \* where execute() is
    ret,             \* where it goes on after a call of state(s)
    local,           \* what state() returned at the end of the loop
    shutdown,        \* m_shutdown
    pid,             \* the PID lock: "none", "locked" or "released"
    logThread,       \* "none", "starting", "running" or "dead"
    handler,         \* the signal handler is installed
    started,         \* appStartup has been called: "no", "failed" or "done"
    appShutdowns,    \* how often appShutdown has been called
    indi,            \* m_indiDriver: "none", "on" or "off"
    state,           \* m_state
    alert,           \* m_stateAlert
    stst,            \* the INDI state that state(s) has computed
    published,       \* m_indiP_state
    indiMutex,       \* the holder of m_indiMutex
    callback,        \* the INDI state that clearFSMAlert has computed, or "idle"
    powerState,      \* m_powerState
    powerOnCounter   \* m_powerOnCounter

VARIABLES            \* history
    events,          \* how many callbacks, power changes and alerts there were
    reports,         \* the values of m_powerState so far
    loopsOn          \* calls of appLogic in POWERON since POWEROFF, or -1

confVars == << useINDI, powerMgt >>
procVars == << pid, logThread, handler, started, appShutdowns, indi >>
pubVars == << stst, published, indiMutex >>
powerVars == << powerState, powerOnCounter, reports, loopsOn >>
fsmVars == << state, alert >>
otherVars == << confVars, callback, events >>
vars == << otherVars, procVars, fsmVars, pubVars, powerVars, pc, ret, local, shutdown >>

\* The body of the event loop.
LoopLabels == { "power", "onPowerOff", "logic", "refresh", "set" }
Labels == { "user", "lock", "startLog", "waitLog", "signal", "startup", "indi",
            "checkPower", "waitPower", "offAtStart", "loop", "appShutdown",
            "stopINDI", "unlock", "fail", "failShutdown", "publish", "send",
            "returned" } \cup LoopLabels

INDIStates == { "IDLE", "OK", "BUSY", "ALERT" }

\* The INDI state that belongs to an FSM state.
Stst(s, a) ==
    CASE a \/ s \in { "FAILURE", "ERROR", "UNINITIALIZED", "INITIALIZED" } -> "ALERT"
      [] ~a /\ s = "READY" -> "OK"
      [] ~a /\ s \in { "OPERATING", "HOMING", "CONFIGURING" } -> "BUSY"
      [] OTHER -> "IDLE"
Property(text, st) == [ text |-> text, st |-> st ]

\* m_shutdown is set already when the configuration was not valid.
Init ==
    /\ useINDI \in BOOLEAN /\ powerMgt \in BOOLEAN /\ shutdown \in BOOLEAN
    /\ pc = "user" /\ ret = "user" /\ local = "UNINITIALIZED"
    /\ pid = "none" /\ logThread = "none" /\ handler = FALSE
    /\ started = "no" /\ appShutdowns = 0 /\ indi = "none"
    /\ state = "UNINITIALIZED" /\ alert = FALSE
    /\ stst = "IDLE" /\ published = Property("UNINITIALIZED", "IDLE")
    /\ indiMutex = "none" /\ callback = "idle"
    /\ powerState = -1 /\ powerOnCounter = -1
    /\ events = 0 /\ reports = {} /\ loopsOn = -1

----------------------------------------------------------------------------
(***************************************************************************)
(* state(s) on the main thread: the assignment, then the publication if    *)
(* m_indiMutex is free at that moment.                                     *)
(***************************************************************************)
Call(s, next) ==
    /\ state' = s
    /\ pc' = "publish" /\ ret' = next

PublishLock ==
    /\ pc = "publish" /\ indi = "on" /\ indiMutex = "none"
    /\ indiMutex' = "main"
    /\ stst' = Stst(state, alert)
    /\ pc' = "send"
    /\ UNCHANGED << otherVars, procVars, fsmVars, published, powerVars, ret, local,
                    shutdown >>

\* Without a driver, or when the mutex is taken, nothing is published.
PublishSkip ==
    /\ pc = "publish" /\ (indi # "on" \/ indiMutex # "none")
    /\ pc' = ret
    /\ UNCHANGED << otherVars, procVars, fsmVars, pubVars, powerVars, ret, local,
                    shutdown >>

\* The text is read after the INDI state has been computed.
PublishSend ==
    /\ pc = "send"
    /\ published' = Property(state, stst)
    /\ indiMutex' = "none"
    /\ pc' = ret
    /\ UNCHANGED << otherVars, procVars, fsmVars, stst, powerVars, ret, local,
                    shutdown >>

----------------------------------------------------------------------------
(***************************************************************************)
(* The start-up sequence of execute().                                     *)
(***************************************************************************)
CheckUser ==
    /\ pc = "user"
    /\ \/ pc' = "lock" /\ UNCHANGED << state, ret >>
       \/ Call("FAILURE", "returned")
    /\ UNCHANGED << otherVars, procVars, alert, pubVars, powerVars, local, shutdown >>

LockPID ==
    /\ pc = "lock"
    /\ \/ pid' = "locked" /\ pc' = "startLog" /\ UNCHANGED << state, ret >>
       \/ Call("FAILURE", "returned") /\ UNCHANGED pid
    /\ UNCHANGED << otherVars, logThread, handler, started, appShutdowns, indi, alert,
                    pubVars, powerVars, local, shutdown >>

\* logThreadStart; its result is not looked at.
LogThreadStart ==
    /\ pc = "startLog"
    /\ logThread' \in { "none", "starting" }
    /\ pc' = "waitLog"
    /\ UNCHANGED << otherVars, pid, handler, started, appShutdowns, indi, fsmVars,
                    pubVars, powerVars, ret, local, shutdown >>

\* The thread is given two seconds to get started.
WaitForLog ==
    /\ pc = "waitLog"
    /\ \/ logThread = "running" /\ pc' = "signal" /\ UNCHANGED << state, ret >>
       \/ logThread # "running" /\ Call("FAILURE", "fail")
    /\ UNCHANGED << otherVars, procVars, alert, pubVars, powerVars, local, shutdown >>

SetSigTermHandler ==
    /\ pc = "signal"
    /\ \/ shutdown /\ pc' = "startup" /\ UNCHANGED << handler, state, ret >>
       \/ ~shutdown /\ handler' = TRUE /\ pc' = "startup" /\ UNCHANGED << state, ret >>
       \/ ~shutdown /\ Call("FAILURE", "fail") /\ UNCHANGED handler
    /\ UNCHANGED << otherVars, pid, logThread, started, appShutdowns, indi, alert,
                    pubVars, powerVars, local, shutdown >>

\* appStartup may set a state and m_shutdown itself, or fail.
AppStartup ==
    /\ pc = "startup"
    /\ \/ /\ shutdown
          /\ pc' = "indi" /\ UNCHANGED << started, state, ret, shutdown >>
       \/ /\ ~shutdown
          /\ started' = "done" /\ state' \in AppStates \cup { "INITIALIZED" }
          /\ shutdown' \in BOOLEAN /\ pc' = "indi" /\ UNCHANGED ret
       \/ /\ ~shutdown
          /\ started' = "failed" /\ Call("FAILURE", "fail") /\ UNCHANGED shutdown
    /\ UNCHANGED << otherVars, pid, logThread, handler, appShutdowns, indi, alert,
                    pubVars, powerVars, local >>

StartINDI ==
    /\ pc = "indi"
    /\ \/ (~useINDI \/ shutdown) /\ pc' = "checkPower" /\ UNCHANGED << indi, state, ret >>
       \/ useINDI /\ ~shutdown /\ indi' = "on" /\ pc' = "checkPower"
          /\ UNCHANGED << state, ret >>
       \/ useINDI /\ ~shutdown /\ Call("FAILURE", "failShutdown") /\ UNCHANGED indi
    /\ UNCHANGED << otherVars, pid, logThread, handler, started, appShutdowns, alert,
                    pubVars, powerVars, local, shutdown >>

\* Variant with a fault: the failure of startINDI forgets that appStartup was called.
FailShutdownSkipped ==
    /\ pc = "failShutdown"
    /\ shutdown' = TRUE
    /\ pc' = "fail"
    /\ UNCHANGED << otherVars, procVars, fsmVars, pubVars, powerVars, ret, local >>

\* INDI did not start: appStartup was called, so appShutdown is.
FailShutdown ==
    /\ pc = "failShutdown"
    /\ shutdown' = TRUE
    /\ appShutdowns' = appShutdowns + 1
    /\ pc' = "fail"
    /\ UNCHANGED << otherVars, pid, logThread, handler, started, indi, fsmVars,
                    pubVars, powerVars, ret, local >>

\* Variant with a fault: a failed start returns without unlockPID.
FailLocked ==
    /\ pc = "fail"
    /\ shutdown' = TRUE
    /\ pc' = "returned"
    /\ UNCHANGED << otherVars, procVars, fsmVars, pubVars, powerVars, ret, local >>

\* The end of a failed start; an error of unlockPID is only logged.
Fail ==
    /\ pc = "fail"
    /\ shutdown' = TRUE
    /\ pid' = "released"
    /\ pc' = "returned"
    /\ UNCHANGED << otherVars, logThread, handler, started, appShutdowns, indi,
                    fsmVars, pubVars, powerVars, ret, local >>

----------------------------------------------------------------------------
(***************************************************************************)
(* Waiting for the power state.                                            *)
(***************************************************************************)
CheckPower ==
    /\ pc = "checkPower"
    /\ pc' = IF powerMgt /\ ~shutdown THEN "waitPower" ELSE "loop"
    /\ UNCHANGED << otherVars, procVars, fsmVars, pubVars, powerVars, ret, local,
                    shutdown >>

\* Variant with a fault: the wait is given up, and the application goes on.
PowerStalledGoesOn ==
    /\ pc = "waitPower" /\ powerState < 0 /\ ~shutdown
    /\ Call("ERROR", "loop")
    /\ UNCHANGED << otherVars, procVars, alert, pubVars, powerVars, local, shutdown >>

\* After thirty seconds without a power state the application gives up.
PowerStalled ==
    /\ pc = "waitPower" /\ powerState < 0 /\ ~shutdown
    /\ shutdown' = TRUE
    /\ Call("ERROR", "waitPower")
    /\ UNCHANGED << otherVars, procVars, alert, pubVars, powerVars, local >>

\* The wait ends with a known power state or with m_shutdown; whatever is not on is
\* taken for off.
PowerWaited ==
    /\ pc = "waitPower" /\ (powerState >= 0 \/ shutdown)
    /\ IF powerState > 0
         THEN Call("POWERON", "loop") /\ UNCHANGED << powerOnCounter, loopsOn >>
         ELSE /\ Call("POWEROFF", "offAtStart")
              /\ powerOnCounter' = 0 /\ loopsOn' = 0
    /\ UNCHANGED << otherVars, procVars, alert, pubVars, powerState, reports, local,
                    shutdown >>

\* onPowerOff, whose error ends the application, before and in the loop.
OnPowerOff ==
    /\ \/ pc = "offAtStart" /\ pc' = "loop" /\ shutdown' \in { shutdown, TRUE }
       \/ pc = "onPowerOff" /\ pc' = "logic" /\ UNCHANGED shutdown
       \/ pc = "onPowerOff" /\ pc' = "loop" /\ shutdown' = TRUE
    /\ UNCHANGED << otherVars, procVars, fsmVars, pubVars, powerVars, ret, local >>

----------------------------------------------------------------------------
(***************************************************************************)
(* The event loop.                                                         *)
(***************************************************************************)
\* Variant with a fault: without power the loop does not look at m_shutdown.
LoopEndPowered ==
    /\ pc = "loop" /\ shutdown
    /\ pc' = IF state = "POWEROFF" THEN "power" ELSE "appShutdown"
    /\ UNCHANGED << otherVars, procVars, fsmVars, pubVars, powerVars, ret, local,
                    shutdown >>

LoopEnd ==
    /\ pc = "loop" /\ shutdown
    /\ pc' = "appShutdown"
    /\ UNCHANGED << otherVars, procVars, fsmVars, pubVars, powerVars, ret, local,
                    shutdown >>

LogThreadLost ==
    /\ pc = "loop" /\ ~shutdown /\ logThread # "running"
    /\ shutdown' = TRUE
    /\ Call("FAILURE", "appShutdown")
    /\ UNCHANGED << otherVars, procVars, alert, pubVars, powerVars, local >>

LoopBegin ==
    /\ pc = "loop" /\ ~shutdown /\ logThread = "running"
    /\ pc' = "power"
    /\ UNCHANGED << otherVars, procVars, fsmVars, pubVars, powerVars, ret, local,
                    shutdown >>

\* Variant with a fault: only the change from off to unknown is seen.
PowerIsBackUnknown == powerMgt /\ state = "POWEROFF" /\ powerState = -1

PowerIsBack == powerMgt /\ state = "POWEROFF" /\ powerState = 1
PowerIsLost == powerMgt /\ state # "POWEROFF" /\ powerState = 0

\* Variant with a fault: the counter of the power-on wait goes on where it was.
PowerBackNoReset ==
    /\ pc = "power" /\ PowerIsBack
    /\ Call("POWERON", "logic")
    /\ UNCHANGED << otherVars, procVars, alert, pubVars, powerVars, local, shutdown >>

PowerBack ==
    /\ pc = "power" /\ PowerIsBack
    /\ powerOnCounter' = 0
    /\ Call("POWERON", "logic")
    /\ UNCHANGED << otherVars, procVars, alert, pubVars, powerState, reports, loopsOn,
                    local, shutdown >>

PowerLost ==
    /\ pc = "power" /\ PowerIsLost
    /\ Call("POWEROFF", "onPowerOff")
    /\ loopsOn' = 0
    /\ UNCHANGED << otherVars, procVars, alert, pubVars, powerState, powerOnCounter,
                    reports, local, shutdown >>

PowerSame ==
    /\ pc = "power" /\ ~PowerIsBack /\ ~PowerIsLost
    /\ pc' = "logic"
    /\ UNCHANGED << otherVars, procVars, fsmVars, pubVars, powerVars, ret, local,
                    shutdown >>

\* m_powerState is read again here.
RunsLogic == ~powerMgt \/ powerState > 0

PowerOnWaitElapsed ==
    PowerOnWait = 0 \/ powerOnCounter < 0 \/ powerOnCounter > PowerOnWait

\* appLogic in POWERON: the application lets the device boot.
AppLogicWaits ==
    /\ pc = "logic" /\ RunsLogic /\ powerMgt
    /\ state = "POWERON" /\ ~PowerOnWaitElapsed
    /\ powerOnCounter' = powerOnCounter + 1
    /\ loopsOn' = loopsOn + 1
    /\ pc' = "refresh"
    /\ UNCHANGED << otherVars, procVars, fsmVars, pubVars, powerState, reports, ret,
                    local, shutdown >>

\* appLogic otherwise: the application sets a state, or leaves it.
AppLogic ==
    /\ pc = "logic" /\ RunsLogic
    /\ state = "POWERON" => ~powerMgt \/ PowerOnWaitElapsed
    /\ \/ state # "POWEROFF" /\ \E s \in AppStates : Call(s, "refresh")
       \/ state # "POWERON" /\ pc' = "refresh" /\ UNCHANGED << state, ret >>
    /\ UNCHANGED << otherVars, procVars, alert, pubVars, powerVars, local, shutdown >>

WhilePowerOff ==
    /\ pc = "logic" /\ ~RunsLogic /\ powerState = 0
    /\ pc' = "refresh"
    /\ UNCHANGED << otherVars, procVars, fsmVars, pubVars, powerVars, ret, local,
                    shutdown >>

\* An error of appLogic or of whilePowerOff ends the application.
LogicFails ==
    /\ pc = "logic" /\ (RunsLogic \/ powerState = 0)
    /\ shutdown' = TRUE
    /\ pc' = "loop"
    /\ UNCHANGED << otherVars, procVars, fsmVars, pubVars, powerVars, ret, local >>

PowerUnknown ==
    /\ pc = "logic" /\ ~RunsLogic /\ powerState < 0
    /\ pc' = "refresh"
    /\ UNCHANGED << otherVars, procVars, fsmVars, pubVars, powerVars, ret, local,
                    shutdown >>

\* state( state() ): the state is read ...
RefreshRead ==
    /\ pc = "refresh"
    /\ local' = state
    /\ pc' = "set"
    /\ UNCHANGED << otherVars, procVars, fsmVars, pubVars, powerVars, ret, shutdown >>

\* Variant with a fault: a state that is the same is not published again.
RefreshSetQuiet ==
    /\ pc = "set"
    /\ state' = local
    /\ pc' = "loop"
    /\ UNCHANGED << otherVars, procVars, alert, pubVars, powerVars, ret, local, shutdown >>

\* ... and set to what was read.
RefreshSet ==
    /\ pc = "set"
    /\ Call(local, "loop")
    /\ UNCHANGED << otherVars, procVars, alert, pubVars, powerVars, local, shutdown >>

----------------------------------------------------------------------------
\* The end of execute().
AppShutdown ==
    /\ pc = "appShutdown"
    /\ appShutdowns' = appShutdowns + 1
    /\ Call("SHUTDOWN", "stopINDI")
    /\ UNCHANGED << otherVars, pid, logThread, handler, started, indi, alert, pubVars,
                    powerVars, local, shutdown >>

StopINDI ==
    /\ pc = "stopINDI"
    /\ indi' = IF indi = "on" THEN "off" ELSE indi
    /\ pc' = "unlock"
    /\ UNCHANGED << otherVars, pid, logThread, handler, started, appShutdowns, fsmVars,
                    pubVars, powerVars, ret, local, shutdown >>

UnlockPID ==
    /\ pc = "unlock"
    /\ pid' = "released"
    /\ pc' = "returned"
    /\ UNCHANGED << otherVars, logThread, handler, started, appShutdowns, indi, fsmVars,
                    pubVars, powerVars, ret, local, shutdown >>

Returned == pc = "returned" /\ UNCHANGED vars

----------------------------------------------------------------------------
(***************************************************************************)
(* The log thread.                                                         *)
(***************************************************************************)
mainVars == << pc, ret, local >>
Alive == pc # "returned"
Event == Alive /\ events < MaxEvents /\ events' = events + 1

LogThreadUp ==
    /\ Alive /\ logThread = "starting"
    /\ logThread' = "running"
    /\ UNCHANGED << otherVars, pid, handler, started, appShutdowns, indi, fsmVars,
                    pubVars, powerVars, mainVars, shutdown >>

LogThreadDies ==
    /\ Alive /\ logThread = "running"
    /\ logThread' = "dead"
    /\ UNCHANGED << otherVars, pid, handler, started, appShutdowns, indi, fsmVars,
                    pubVars, powerVars, mainVars, shutdown >>

\* state(s) on another thread publishes at once, if it can.
PublishIfFree(s, a) ==
    published' = IF indi = "on" /\ indiMutex = "none" THEN Property(s, Stst(s, a))
                 ELSE published

\* logMessage, for an entry worse than an error: state( m_state, true ).  m_state is
\* passed by reference, so that it cannot change.
LogAlert ==
    /\ Event /\ logThread = "running"
    /\ alert' = TRUE
    /\ PublishIfFree(state, TRUE)
    /\ UNCHANGED << confVars, callback, procVars, state, stst, indiMutex, powerVars,
                    mainVars, shutdown >>

----------------------------------------------------------------------------
(***************************************************************************)
(* The INDI thread, one callback at a time.                                *)
(***************************************************************************)
\* A callback of the derived application that takes m_indiMutex ...
CallbackLock ==
    /\ Event /\ indi = "on" /\ callback = "idle" /\ indiMutex = "none"
    /\ indiMutex' = "indi"
    /\ UNCHANGED << confVars, callback, procVars, fsmVars, stst, published, powerVars,
                    mainVars, shutdown >>

\* ... and a callback that sets the FSM state, with the mutex or without it.
CallbackState ==
    /\ Event /\ indi = "on" /\ callback = "idle"
    /\ \E s \in AppStates \ { state } : state' = s /\ PublishIfFree(s, alert)
    /\ UNCHANGED << confVars, callback, procVars, alert, stst, indiMutex, powerVars,
                    mainVars, shutdown >>

CallbackUnlock ==
    /\ indiMutex = "indi"
    /\ indiMutex' = "none"
    /\ UNCHANGED << otherVars, procVars, fsmVars, stst, published, powerVars, mainVars,
                    shutdown >>

\* clearFSMAlert: the alert is cleared and the INDI state computed ...
ClearFSMAlert ==
    /\ Event /\ indi = "on" /\ callback = "idle" /\ indiMutex # "indi" /\ alert
    /\ alert' = FALSE
    /\ callback' = Stst(state, FALSE)
    /\ UNCHANGED << confVars, procVars, state, pubVars, powerVars, mainVars, shutdown >>

\* ... and published, without m_indiMutex.
ClearFSMAlertSend ==
    /\ callback # "idle"
    /\ published' = IF indi = "on" THEN Property(state, callback) ELSE published
    /\ callback' = "idle"
    /\ UNCHANGED << confVars, events, procVars, fsmVars, stst, indiMutex, powerVars,
                    mainVars, shutdown >>

\* setCallBack_m_indiP_powerChannel.
PowerChannel ==
    /\ Event /\ indi = "on" /\ powerMgt
    /\ \E p \in { -1, 0, 1 } \ { powerState } :
          powerState' = p /\ reports' = reports \cup {p}
    /\ UNCHANGED << confVars, callback, procVars, fsmVars, pubVars, powerOnCounter,
                    loopsOn, mainVars, shutdown >>

HandlerSigTerm ==
    /\ Alive /\ handler /\ ~shutdown
    /\ shutdown' = TRUE
    /\ UNCHANGED << otherVars, procVars, fsmVars, pubVars, powerVars, mainVars >>

Publish == PublishLock \/ PublishSkip \/ PublishSend
StartUp == CheckUser \/ LockPID \/ LogThreadStart \/ WaitForLog \/ SetSigTermHandler
           \/ AppStartup \/ StartINDI \/ FailShutdown \/ Fail \/ CheckPower
           \/ PowerStalled \/ PowerWaited \/ OnPowerOff
Loop == LoopEnd \/ LogThreadLost \/ LoopBegin \/ PowerBack \/ PowerLost \/ PowerSame
        \/ AppLogicWaits \/ AppLogic \/ WhilePowerOff \/ LogicFails \/ PowerUnknown
        \/ RefreshRead \/ RefreshSet
ShutDown == AppShutdown \/ StopINDI \/ UnlockPID
Main == Publish \/ StartUp \/ Loop \/ ShutDown
LogThread == LogThreadUp \/ LogThreadDies \/ LogAlert
Callbacks == CallbackLock \/ CallbackState \/ CallbackUnlock \/ ClearFSMAlert
             \/ ClearFSMAlertSend \/ PowerChannel

Next == Main \/ Returned \/ LogThread \/ Callbacks \/ HandlerSigTerm

Spec == Init /\ [][Next]_vars

(***************************************************************************)
(* Fairness.  The main thread never blocks: its waits have time limits and *)
(* m_indiMutex is only tried.  A callback that holds the mutex, or has     *)
(* begun to clear the alert, goes on.  No event has to happen.             *)
(***************************************************************************)
FairSpec == /\ Spec
            /\ WF_vars(Main)
            /\ WF_vars(CallbackUnlock)
            /\ WF_vars(ClearFSMAlertSend)

----------------------------------------------------------------------------
\* Every member and local has its type, and the counter of the power-on wait stops
\* when the wait is over.
TypeOK ==
    /\ useINDI \in BOOLEAN /\ powerMgt \in BOOLEAN /\ shutdown \in BOOLEAN
    /\ pc \in Labels /\ ret \in Labels /\ local \in StateCodes
    /\ pid \in { "none", "locked", "released" }
    /\ logThread \in { "none", "starting", "running", "dead" }
    /\ handler \in BOOLEAN /\ started \in { "no", "failed", "done" }
    /\ appShutdowns \in Nat /\ indi \in { "none", "on", "off" }
    /\ state \in StateCodes /\ alert \in BOOLEAN
    /\ stst \in INDIStates /\ published \in [ text : StateCodes, st : INDIStates ]
    /\ indiMutex \in { "none", "main", "indi" }
    /\ callback \in INDIStates \cup { "idle" }
    /\ powerState \in { -1, 0, 1 } /\ powerOnCounter \in -1 .. PowerOnWait + 1
    /\ events \in Nat /\ reports \subseteq { -1, 0, 1 } /\ loopsOn \in Int

\* The conditions on entry to the main loop that execute() lists hold in all of its
\* body, whenever a signal or an error sets m_shutdown during the start-up.
LoopConditions ==
    pc \in LoopLabels \/ (pc \in { "publish", "send" } /\ ret \in LoopLabels) =>
        /\ pid = "locked" /\ handler /\ started = "done"
        /\ logThread \in { "running", "dead" }
        /\ useINDI => indi = "on"
        /\ powerMgt => reports \cap { 0, 1 } # {}

\* However execute() ends, the PID lock it took is released, and never while the
\* application can still run.
PidReleased ==
    /\ pc = "returned" => pid # "locked"
    /\ pid = "released" => pc = "returned"

\* appShutdown is called exactly once for an appStartup that succeeded, on every way
\* out, and not at all for one that failed.
ShutdownPaired ==
    /\ appShutdowns <= 1
    /\ pc = "returned" /\ started = "done" => appShutdowns = 1
    /\ started = "failed" => appShutdowns = 0

\* After the power was off the application does not go on from POWERON before the
\* device has had its time to boot (m_powerOnWait).
BootWaitRespected ==
    [][ pc = "logic" /\ pc' # pc /\ state = "POWERON" /\ state' # state /\ loopsOn >= 0
          => PowerOnWait = 0 \/ loopsOn > PowerOnWait ]_vars

\* Once the FSM state and the alert are steady, what INDI clients see settles on them,
\* although a publication is skipped when the mutex is busy, may mix two states, and
\* races the one of clearFSMAlert.
PublicationSettles ==
    <>[][ UNCHANGED fsmVars ]_vars =>
        <>[](indi = "on" => shutdown \/ published = Property(state, Stst(state, alert)))

\* A shutdown that is asked for, by whomever and wherever execute() is, ends it.
ShutdownEnds == shutdown ~> pc = "returned"

\* The FSM follows the power: it does not stay in POWEROFF when the power is on, nor
\* in another state when it is off.
PowerFollowed ==
    /\ powerMgt /\ pc \in LoopLabels /\ powerState = 1
         ~> state # "POWEROFF" \/ powerState # 1 \/ shutdown
    /\ powerMgt /\ pc \in LoopLabels /\ powerState = 0
         ~> state = "POWEROFF" \/ powerState # 0 \/ shutdown

\* The refresh at the end of the loop does not change the FSM state, as its comment
\* says ("This is purely to make sure INDI is up to date").
RefreshIsPure == [][ pc = "set" /\ pc' # "set" => state' = state ]_vars

\* onPowerOff is called when a change to power off has been detected, as its
\* documentation says.
OnPowerOffDetected == pc \in { "offAtStart", "onPowerOff" } => 0 \in reports
=============================================================================

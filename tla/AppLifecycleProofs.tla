------------------------- MODULE AppLifecycleProofs -------------------------
(***************************************************************************)
(* Proofs about the life cycle of an application, for every set of states  *)
(* that the derived application sets, every power-on wait and every number *)
(* of events.                                                              *)
(*                                                                         *)
(* The properties are not inductive: that the loop runs under its          *)
(* conditions rests on m_shutdown, which every failed step of the start-up *)
(* leaves set and nothing clears, and that the lock is released and        *)
(* appShutdown called once rests on how far execute() has come.  The       *)
(* inductive invariant says both for every point of execute().             *)
(***************************************************************************)
EXTENDS AppLifecycle, TLAPS

\* Where execute() is, or goes on after the call of state(s) it is in.
Where == IF pc \in { "publish", "send" } THEN ret ELSE pc

\* The PID lock is held between lockPID and unlockPID.
LockStage ==
    /\ ret \notin { "publish", "send", "set" }
    /\ Where \in { "user", "lock" } => pid = "none"
    /\ Where \notin { "user", "lock", "returned" } => pid = "locked"
    /\ Where = "returned" => pid # "locked"
    /\ pid = "released" => pc = "returned"

\* What has become of appStartup and appShutdown.
ShutdownStage ==
    /\ Where \in { "user", "lock", "startLog", "waitLog", "signal", "startup" } =>
         started = "no"
    /\ Where \notin { "fail", "returned" } => started # "failed"
    /\ Where = "failShutdown" => started = "done"
    /\ Where \notin { "fail", "stopINDI", "unlock", "returned" } => appShutdowns = 0
    /\ Where \in { "stopINDI", "unlock" } => appShutdowns = 1
    /\ Where \in { "fail", "returned" } =>
         /\ started = "done" => appShutdowns = 1
         /\ started = "failed" => appShutdowns = 0
         /\ appShutdowns <= 1

\* As long as m_shutdown is not set, every step that execute() has passed has
\* succeeded; in the loop this no longer depends on m_shutdown.
ConditionStage ==
    /\ Where \in { "startup", "indi", "checkPower", "waitPower", "offAtStart", "loop" }
         => handler \/ shutdown
    /\ Where \in { "indi", "checkPower", "waitPower", "offAtStart", "loop" }
         => started = "done" \/ shutdown
    /\ Where \in { "checkPower", "waitPower", "offAtStart", "loop" }
         => ~useINDI \/ indi = "on" \/ shutdown
    /\ Where \in { "offAtStart", "loop" }
         => ~powerMgt \/ reports \cap { 0, 1 } # {} \/ shutdown
    /\ powerState # -1 => powerState \in reports
    /\ Where \in LoopLabels =>
         /\ handler /\ started = "done" /\ logThread \in { "running", "dead" }
         /\ useINDI => indi = "on"
         /\ powerMgt => reports \cap { 0, 1 } # {}

\* The counter of the power-on wait has counted the calls of appLogic since the power
\* was off, also for the state that the refresh is about to set.
BootStage ==
    /\ state = "POWERON" \/ (pc = "set" /\ local = "POWERON") => powerOnCounter = loopsOn
    /\ state = "POWEROFF" \/ (pc = "set" /\ local = "POWEROFF") => loopsOn = 0
    /\ Where \in { "user", "lock", "startLog", "waitLog", "signal", "startup", "indi",
                   "checkPower", "waitPower" } => powerOnCounter = -1 /\ loopsOn = -1
    /\ Where = "waitPower" \/ loopsOn # -1 => powerMgt

IndInv == TypeOK /\ LockStage /\ ShutdownStage /\ ConditionStage /\ BootStage

----------------------------------------------------------------------------
\* The invariant holds when execute() is called.
LEMMA InitInv == Init => IndInv
<1> SUFFICES ASSUME Init PROVE IndInv
  OBVIOUS
<1>0. /\ useINDI \in BOOLEAN /\ powerMgt \in BOOLEAN /\ shutdown \in BOOLEAN
      /\ handler \in BOOLEAN /\ alert \in BOOLEAN
  BY Zenon DEF Init
<1>1. TypeOK
  <2>1. published \in [ text : StateCodes, st : INDIStates ]
    BY DEF Init, Property, StateCodes, INDIStates
  <2>2. /\ pc \in Labels /\ ret \in Labels /\ local \in StateCodes /\ state \in StateCodes
        /\ stst \in INDIStates /\ reports \subseteq { -1, 0, 1 }
    BY DEF Init, Labels, LoopLabels, StateCodes, INDIStates
  <2>3. /\ powerState \in { -1, 0, 1 } /\ powerOnCounter \in -1 .. PowerOnWait + 1
        /\ appShutdowns \in Nat /\ events \in Nat /\ loopsOn \in Int
    BY AppLifecycleAssumption DEF Init
  <2> QED
    BY <1>0, <2>1, <2>2, <2>3, Zenon DEF Init, TypeOK
<1>2. LockStage /\ ShutdownStage /\ ConditionStage
  BY DEF Init, LockStage, ShutdownStage, ConditionStage, Where, LoopLabels
<1>3. BootStage
  BY DEF Init, BootStage, Where
<1> QED
  BY <1>1, <1>2, <1>3 DEF IndInv

\* Every step keeps the types.
LEMMA TypeStep == TypeOK /\ [Next]_vars => TypeOK'
<1> SUFFICES ASSUME TypeOK, [Next]_vars PROVE TypeOK'
  OBVIOUS
<1> USE AppLifecycleAssumption DEF TypeOK, Labels, LoopLabels, StateCodes, INDIStates,
        confVars, procVars, pubVars, powerVars, fsmVars, otherVars
<1>1. CASE PublishLock
  BY <1>1 DEF PublishLock, Stst
<1>2. CASE PublishSkip
  BY <1>2 DEF PublishSkip
<1>3. CASE PublishSend
  BY <1>3 DEF PublishSend, Property
<1>4. CASE CheckUser
  BY <1>4 DEF CheckUser, Call
<1>5. CASE LockPID
  BY <1>5 DEF LockPID, Call
<1>6. CASE LogThreadStart
  BY <1>6 DEF LogThreadStart
<1>7. CASE WaitForLog
  BY <1>7 DEF WaitForLog, Call
<1>8. CASE SetSigTermHandler
  <2>1. handler' \in BOOLEAN
    BY <1>8, Zenon DEF SetSigTermHandler, Call
  <2> QED
    BY <1>8, <2>1 DEF SetSigTermHandler, Call
<1>9. CASE AppStartup
  <2>1. shutdown' \in BOOLEAN
    BY <1>9, Zenon DEF AppStartup, Call
  <2>2. pc' \in Labels /\ ret' \in Labels /\ state' \in StateCodes
        /\ started' \in { "no", "failed", "done" }
    BY <1>9 DEF AppStartup, Call
  <2>3. UNCHANGED << otherVars, pid, logThread, handler, appShutdowns, indi, alert,
                   pubVars, powerVars, local >>
    BY <1>9, Zenon DEF AppStartup
  <2> QED
    BY <2>1, <2>2, <2>3
<1>10. CASE StartINDI
  BY <1>10 DEF StartINDI, Call
<1>11. CASE FailShutdown
  <2>1. shutdown' \in BOOLEAN
    BY <1>11, Zenon DEF FailShutdown
  <2> QED
    BY <1>11, <2>1 DEF FailShutdown
<1>12. CASE Fail
  <2>1. shutdown' \in BOOLEAN
    BY <1>12, Zenon DEF Fail
  <2> QED
    BY <1>12, <2>1 DEF Fail
<1>13. CASE CheckPower
  BY <1>13 DEF CheckPower
<1>14. CASE PowerStalled
  <2>1. shutdown' \in BOOLEAN
    BY <1>14, Zenon DEF PowerStalled, Call
  <2> QED
    BY <1>14, <2>1 DEF PowerStalled, Call
<1>15. CASE PowerWaited
  BY <1>15 DEF PowerWaited, Call
<1>16. CASE OnPowerOff
  <2>1. shutdown' \in BOOLEAN
    BY <1>16, Zenon DEF OnPowerOff
  <2>2. pc' \in Labels
    BY <1>16 DEF OnPowerOff
  <2>3. UNCHANGED << otherVars, procVars, fsmVars, pubVars, powerVars, ret, local >>
    BY <1>16, Zenon DEF OnPowerOff
  <2> QED
    BY <2>1, <2>2, <2>3
<1>17. CASE LoopEnd
  BY <1>17 DEF LoopEnd
<1>18. CASE LogThreadLost
  <2>1. shutdown' \in BOOLEAN
    BY <1>18, Zenon DEF LogThreadLost, Call
  <2> QED
    BY <1>18, <2>1 DEF LogThreadLost, Call
<1>19. CASE LoopBegin
  BY <1>19 DEF LoopBegin
<1>20. CASE PowerBack
  BY <1>20 DEF PowerBack, Call
<1>21. CASE PowerLost
  BY <1>21 DEF PowerLost, Call
<1>22. CASE PowerSame
  BY <1>22 DEF PowerSame
<1>23. CASE AppLogicWaits
  BY <1>23 DEF AppLogicWaits, PowerOnWaitElapsed
<1>24. CASE AppLogic
  BY <1>24 DEF AppLogic, Call
<1>25. CASE WhilePowerOff
  BY <1>25 DEF WhilePowerOff
<1>26. CASE LogicFails
  <2>1. shutdown' \in BOOLEAN
    BY <1>26, Zenon DEF LogicFails
  <2> QED
    BY <1>26, <2>1 DEF LogicFails
<1>27. CASE PowerUnknown
  BY <1>27 DEF PowerUnknown
<1>28. CASE RefreshRead
  BY <1>28 DEF RefreshRead
<1>29. CASE RefreshSet
  BY <1>29 DEF RefreshSet, Call
<1>30. CASE AppShutdown
  BY <1>30 DEF AppShutdown, Call
<1>31. CASE StopINDI
  BY <1>31 DEF StopINDI
<1>32. CASE UnlockPID
  BY <1>32 DEF UnlockPID
<1>33. CASE Returned
  BY <1>33 DEF Returned, vars
<1>34. CASE LogThreadUp
  BY <1>34 DEF LogThreadUp, mainVars
<1>35. CASE LogThreadDies
  BY <1>35 DEF LogThreadDies, mainVars
<1>36. CASE LogAlert
  <2>1. alert' \in BOOLEAN
    BY <1>36, Zenon DEF LogAlert, mainVars, Event
  <2> QED
    BY <1>36, <2>1 DEF LogAlert, mainVars, Event, PublishIfFree, Property, Stst
<1>37. CASE CallbackLock
  BY <1>37 DEF CallbackLock, mainVars, Event
<1>38. CASE CallbackState
  BY <1>38 DEF CallbackState, mainVars, Event, PublishIfFree, Property, Stst
<1>39. CASE CallbackUnlock
  BY <1>39 DEF CallbackUnlock, mainVars
<1>40. CASE ClearFSMAlert
  <2>1. alert' \in BOOLEAN
    BY <1>40, Zenon DEF ClearFSMAlert, mainVars, Event
  <2> QED
    BY <1>40, <2>1 DEF ClearFSMAlert, mainVars, Event, Stst
<1>41. CASE ClearFSMAlertSend
  BY <1>41 DEF ClearFSMAlertSend, mainVars, Property
<1>42. CASE PowerChannel
  BY <1>42 DEF PowerChannel, mainVars, Event
<1>43. CASE HandlerSigTerm
  <2>1. shutdown' \in BOOLEAN
    BY <1>43, Zenon DEF HandlerSigTerm, mainVars
  <2> QED
    BY <1>43, <2>1 DEF HandlerSigTerm, mainVars
<1>44. CASE UNCHANGED vars
  BY <1>44 DEF vars
<1> QED
  BY <1>1, <1>2, <1>3, <1>4, <1>5, <1>6, <1>7, <1>8, <1>9, <1>10, <1>11, <1>12, <1>13,
     <1>14, <1>15, <1>16, <1>17, <1>18, <1>19, <1>20, <1>21, <1>22, <1>23, <1>24, <1>25,
     <1>26, <1>27, <1>28, <1>29, <1>30, <1>31, <1>32, <1>33, <1>34, <1>35, <1>36, <1>37,
     <1>38, <1>39, <1>40, <1>41, <1>42, <1>43, <1>44
     DEF Next, Main, Publish, StartUp, Loop, ShutDown, LogThread, Callbacks

\* Every step keeps the stages.
LEMMA StageStep == IndInv /\ [Next]_vars => LockStage' /\ ShutdownStage' /\ ConditionStage'
<1> SUFFICES ASSUME TypeOK, LockStage, ShutdownStage, ConditionStage, [Next]_vars
             PROVE  LockStage' /\ ShutdownStage' /\ ConditionStage'
  BY DEF IndInv
<1> USE DEF TypeOK, LockStage, ShutdownStage, ConditionStage, Where, LoopLabels,
        confVars, procVars, pubVars, powerVars, fsmVars, otherVars
<1>1. CASE PublishLock
  BY <1>1 DEF PublishLock
<1>2. CASE PublishSkip
  BY <1>2 DEF PublishSkip
<1>3. CASE PublishSend
  BY <1>3 DEF PublishSend
<1>4. CASE CheckUser
  BY <1>4 DEF CheckUser, Call
<1>5. CASE LockPID
  BY <1>5 DEF LockPID, Call
<1>6. CASE LogThreadStart
  BY <1>6 DEF LogThreadStart
<1>7. CASE WaitForLog
  BY <1>7 DEF WaitForLog, Call
<1>8. CASE SetSigTermHandler
  BY <1>8 DEF SetSigTermHandler, Call
<1>9. CASE AppStartup
  BY <1>9 DEF AppStartup, Call
<1>10. CASE StartINDI
  BY <1>10 DEF StartINDI, Call
<1>11. CASE FailShutdown
  BY <1>11 DEF FailShutdown
<1>12. CASE Fail
  BY <1>12 DEF Fail
<1>13. CASE CheckPower
  BY <1>13 DEF CheckPower
<1>14. CASE PowerStalled
  BY <1>14 DEF PowerStalled, Call
<1>15. CASE PowerWaited
  BY <1>15 DEF PowerWaited, Call
<1>16. CASE OnPowerOff
  BY <1>16 DEF OnPowerOff
<1>17. CASE LoopEnd
  BY <1>17 DEF LoopEnd
<1>18. CASE LogThreadLost
  BY <1>18 DEF LogThreadLost, Call
<1>19. CASE LoopBegin
  BY <1>19 DEF LoopBegin
<1>20. CASE PowerBack
  BY <1>20 DEF PowerBack, Call
<1>21. CASE PowerLost
  BY <1>21 DEF PowerLost, Call
<1>22. CASE PowerSame
  BY <1>22 DEF PowerSame
<1>23. CASE AppLogicWaits
  BY <1>23 DEF AppLogicWaits
<1>24. CASE AppLogic
  BY <1>24 DEF AppLogic, Call
<1>25. CASE WhilePowerOff
  BY <1>25 DEF WhilePowerOff
<1>26. CASE LogicFails
  BY <1>26 DEF LogicFails
<1>27. CASE PowerUnknown
  BY <1>27 DEF PowerUnknown
<1>28. CASE RefreshRead
  BY <1>28 DEF RefreshRead
<1>29. CASE RefreshSet
  BY <1>29 DEF RefreshSet, Call
<1>30. CASE AppShutdown
  BY <1>30 DEF AppShutdown, Call
<1>31. CASE StopINDI
  BY <1>31 DEF StopINDI
<1>32. CASE UnlockPID
  BY <1>32 DEF UnlockPID
<1>33. CASE Returned
  BY <1>33 DEF Returned, vars
<1>34. CASE LogThreadUp
  BY <1>34 DEF LogThreadUp, mainVars
<1>35. CASE LogThreadDies
  BY <1>35 DEF LogThreadDies, mainVars
<1>36. CASE LogAlert
  BY <1>36 DEF LogAlert, mainVars, Event
<1>37. CASE CallbackLock
  BY <1>37 DEF CallbackLock, mainVars, Event
<1>38. CASE CallbackState
  BY <1>38 DEF CallbackState, mainVars, Event
<1>39. CASE CallbackUnlock
  BY <1>39 DEF CallbackUnlock, mainVars
<1>40. CASE ClearFSMAlert
  BY <1>40 DEF ClearFSMAlert, mainVars, Event
<1>41. CASE ClearFSMAlertSend
  BY <1>41 DEF ClearFSMAlertSend, mainVars
<1>42. CASE PowerChannel
  BY <1>42 DEF PowerChannel, mainVars, Event
<1>43. CASE HandlerSigTerm
  BY <1>43 DEF HandlerSigTerm, mainVars
<1>44. CASE UNCHANGED vars
  BY <1>44 DEF vars
<1> QED
  BY <1>1, <1>2, <1>3, <1>4, <1>5, <1>6, <1>7, <1>8, <1>9, <1>10, <1>11, <1>12, <1>13,
     <1>14, <1>15, <1>16, <1>17, <1>18, <1>19, <1>20, <1>21, <1>22, <1>23, <1>24, <1>25,
     <1>26, <1>27, <1>28, <1>29, <1>30, <1>31, <1>32, <1>33, <1>34, <1>35, <1>36, <1>37,
     <1>38, <1>39, <1>40, <1>41, <1>42, <1>43, <1>44
     DEF Next, Main, Publish, StartUp, Loop, ShutDown, LogThread, Callbacks

\* Every step keeps the counter of the power-on wait in step.
LEMMA BootStep == IndInv /\ [Next]_vars => BootStage'
<1> SUFFICES ASSUME TypeOK, LockStage, BootStage, [Next]_vars
             PROVE  BootStage'
  BY DEF IndInv
<1> USE AppLifecycleAssumption DEF TypeOK, LockStage, BootStage, Where,
        confVars, procVars, pubVars, powerVars, fsmVars, otherVars
<1>1. CASE PublishLock
  BY <1>1 DEF PublishLock
<1>2. CASE PublishSkip
  BY <1>2 DEF PublishSkip
<1>3. CASE PublishSend
  BY <1>3 DEF PublishSend
<1>4. CASE CheckUser
  BY <1>4 DEF CheckUser, Call
<1>5. CASE LockPID
  BY <1>5 DEF LockPID, Call
<1>6. CASE LogThreadStart
  BY <1>6 DEF LogThreadStart
<1>7. CASE WaitForLog
  BY <1>7 DEF WaitForLog, Call
<1>8. CASE SetSigTermHandler
  BY <1>8 DEF SetSigTermHandler, Call
<1>9. CASE AppStartup
  BY <1>9 DEF AppStartup, Call
<1>10. CASE StartINDI
  BY <1>10 DEF StartINDI, Call
<1>11. CASE FailShutdown
  BY <1>11 DEF FailShutdown
<1>12. CASE Fail
  BY <1>12 DEF Fail
<1>13. CASE CheckPower
  BY <1>13 DEF CheckPower
<1>14. CASE PowerStalled
  BY <1>14 DEF PowerStalled, Call
<1>15. CASE PowerWaited
  BY <1>15 DEF PowerWaited, Call
<1>16. CASE OnPowerOff
  BY <1>16 DEF OnPowerOff
<1>17. CASE LoopEnd
  BY <1>17 DEF LoopEnd
<1>18. CASE LogThreadLost
  BY <1>18 DEF LogThreadLost, Call
<1>19. CASE LoopBegin
  BY <1>19 DEF LoopBegin
<1>20. CASE PowerBack
  BY <1>20 DEF PowerBack, Call, PowerIsBack
<1>21. CASE PowerLost
  BY <1>21 DEF PowerLost, Call, PowerIsLost
<1>22. CASE PowerSame
  BY <1>22 DEF PowerSame
<1>23. CASE AppLogicWaits
  BY <1>23 DEF AppLogicWaits, PowerOnWaitElapsed
<1>24. CASE AppLogic
  BY <1>24 DEF AppLogic, Call
<1>25. CASE WhilePowerOff
  BY <1>25 DEF WhilePowerOff
<1>26. CASE LogicFails
  BY <1>26 DEF LogicFails
<1>27. CASE PowerUnknown
  BY <1>27 DEF PowerUnknown
<1>28. CASE RefreshRead
  BY <1>28 DEF RefreshRead
<1>29. CASE RefreshSet
  BY <1>29 DEF RefreshSet, Call
<1>30. CASE AppShutdown
  BY <1>30 DEF AppShutdown, Call
<1>31. CASE StopINDI
  BY <1>31 DEF StopINDI
<1>32. CASE UnlockPID
  BY <1>32 DEF UnlockPID
<1>33. CASE Returned
  BY <1>33 DEF Returned, vars
<1>34. CASE LogThreadUp
  BY <1>34 DEF LogThreadUp, mainVars
<1>35. CASE LogThreadDies
  BY <1>35 DEF LogThreadDies, mainVars
<1>36. CASE LogAlert
  BY <1>36 DEF LogAlert, mainVars, Event
<1>37. CASE CallbackLock
  BY <1>37 DEF CallbackLock, mainVars, Event
<1>38. CASE CallbackState
  BY <1>38 DEF CallbackState, mainVars, Event
<1>39. CASE CallbackUnlock
  BY <1>39 DEF CallbackUnlock, mainVars
<1>40. CASE ClearFSMAlert
  BY <1>40 DEF ClearFSMAlert, mainVars, Event
<1>41. CASE ClearFSMAlertSend
  BY <1>41 DEF ClearFSMAlertSend, mainVars
<1>42. CASE PowerChannel
  BY <1>42 DEF PowerChannel, mainVars, Event
<1>43. CASE HandlerSigTerm
  BY <1>43 DEF HandlerSigTerm, mainVars
<1>44. CASE UNCHANGED vars
  BY <1>44 DEF vars
<1> QED
  BY <1>1, <1>2, <1>3, <1>4, <1>5, <1>6, <1>7, <1>8, <1>9, <1>10, <1>11, <1>12, <1>13,
     <1>14, <1>15, <1>16, <1>17, <1>18, <1>19, <1>20, <1>21, <1>22, <1>23, <1>24, <1>25,
     <1>26, <1>27, <1>28, <1>29, <1>30, <1>31, <1>32, <1>33, <1>34, <1>35, <1>36, <1>37,
     <1>38, <1>39, <1>40, <1>41, <1>42, <1>43, <1>44
     DEF Next, Main, Publish, StartUp, Loop, ShutDown, LogThread, Callbacks

----------------------------------------------------------------------------
\* The inductive invariant of the life cycle: at every point of execute() the lock,
\* the calls of appStartup and appShutdown, and the conditions of the loop are as
\* far as that point says.
THEOREM LifecycleInvariance == Spec => []IndInv
<1>1. IndInv /\ [Next]_vars => IndInv'
  BY TypeStep, StageStep, BootStep DEF IndInv
<1> QED
  BY InitInv, <1>1, PTL DEF Spec

\* Types; in particular the counter of the power-on wait never passes the wait by
\* more than one.
THEOREM LifecycleTypes == Spec => []TypeOK
<1>1. IndInv => TypeOK
  BY DEF IndInv
<1> QED
  BY <1>1, LifecycleInvariance, PTL

\* The body of the event loop of execute() runs only under the conditions it lists.
THEOREM LoopIsSafe == Spec => []LoopConditions
<1>1. IndInv => LoopConditions
  BY DEF IndInv, LockStage, ShutdownStage, ConditionStage, Where, LoopLabels,
     LoopConditions
<1> QED
  BY <1>1, LifecycleInvariance, PTL

\* Every way out of execute() releases the PID lock, and nothing runs after that.
THEOREM LockIsReleased == Spec => []PidReleased
<1>1. IndInv => PidReleased
  BY DEF IndInv, LockStage, Where, PidReleased
<1> QED
  BY <1>1, LifecycleInvariance, PTL

\* Every way out of execute() pairs a successful appStartup with one appShutdown.
THEOREM StartupIsUndone == Spec => []ShutdownPaired
<1>1. IndInv => ShutdownPaired
  BY DEF IndInv, TypeOK, ShutdownStage, Where, ShutdownPaired
<1> QED
  BY <1>1, LifecycleInvariance, PTL

\* After the power was off, appLogic leaves POWERON only when it has been called more
\* often than the power-on wait asks for: execute() resets the counter whenever the
\* power is back, and counts nothing else with it.
THEOREM BootWaitHolds == Spec => BootWaitRespected
<1> DEFINE Left == pc = "logic" /\ pc' # pc /\ state = "POWERON" /\ state' # state
                     /\ loopsOn >= 0
<1>1. IndInv /\ [Next]_vars /\ Left => AppLogic
  <2> SUFFICES ASSUME IndInv, Next, Left PROVE AppLogic
    BY DEF vars
  <2> USE DEF fsmVars, mainVars
  <2>1. CASE Publish
    BY <2>1 DEF Publish, PublishLock, PublishSkip, PublishSend
  <2>2. CASE StartUp
    BY <2>2 DEF StartUp, CheckUser, LockPID, LogThreadStart, WaitForLog,
       SetSigTermHandler, AppStartup, StartINDI, FailShutdown, Fail, CheckPower,
       PowerStalled, PowerWaited, OnPowerOff
  <2>3. CASE Loop
    BY <2>3 DEF Loop, LoopEnd, LogThreadLost, LoopBegin, PowerBack, PowerLost,
       PowerSame, AppLogicWaits, WhilePowerOff, LogicFails, PowerUnknown,
       RefreshRead, RefreshSet
  <2>4. CASE ShutDown
    BY <2>4 DEF ShutDown, AppShutdown, StopINDI, UnlockPID
  <2>5. CASE LogThread \/ HandlerSigTerm
    BY <2>5 DEF LogThread, LogThreadUp, LogThreadDies, LogAlert, HandlerSigTerm
  <2>6. CASE Callbacks
    BY <2>6 DEF Callbacks, CallbackLock, CallbackState, CallbackUnlock, ClearFSMAlert,
       ClearFSMAlertSend, PowerChannel
  <2>7. CASE Returned
    BY <2>7 DEF Returned, vars
  <2> QED
    BY <2>1, <2>2, <2>3, <2>4, <2>5, <2>6, <2>7 DEF Next, Main
<1>2. IndInv /\ AppLogic /\ Left => PowerOnWait = 0 \/ loopsOn > PowerOnWait
  <2> SUFFICES ASSUME IndInv, AppLogic, Left, PowerOnWait # 0 PROVE loopsOn > PowerOnWait
    OBVIOUS
  <2>1. powerOnCounter = loopsOn
    BY DEF IndInv, BootStage
  <2>2. ~powerMgt \/ powerOnCounter < 0 \/ powerOnCounter > PowerOnWait
    BY DEF AppLogic, PowerOnWaitElapsed
  <2>3. powerMgt
    BY DEF IndInv, BootStage
  <2> QED
    BY <2>1, <2>2, <2>3, AppLifecycleAssumption DEF IndInv, TypeOK
<1>3. IndInv /\ [Next]_vars => (Left => PowerOnWait = 0 \/ loopsOn > PowerOnWait)
  BY <1>1, <1>2
<1> QED
  BY <1>3, LifecycleInvariance, PTL DEF Spec, BootWaitRespected
=============================================================================

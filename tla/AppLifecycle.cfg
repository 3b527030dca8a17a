CONSTANTS
    AppStates <- MCAppStates
    PowerOnWait = 1
    MaxEvents = 4
SPECIFICATION FairSpec
INVARIANTS LoopConditions PidReleased ShutdownPaired
PROPERTIES BootWaitRespected PublicationSettles ShutdownEnds PowerFollowed

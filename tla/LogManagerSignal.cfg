CONSTANTS
    main = main
    indi = indi
    Producers <- MCProducers
    MaxLogged = 2
    WriteMayFail = FALSE
    MaySignal = TRUE
SPECIFICATION FairManagerSpec
PROPERTIES SignalIsLogged
CHECK_DEADLOCK FALSE

CONSTANTS
    main = main
    indi = indi
    Producers <- MCProducers
    MaxLogged = 3
    WriteMayFail = FALSE
    MaySignal = FALSE
SPECIFICATION ManagerSpec
INVARIANTS BatchIsSnapshot

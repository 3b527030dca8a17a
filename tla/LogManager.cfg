CONSTANTS
    main = main
    indi = indi
    Producers <- MCProducers
    MaxLogged = 5
    WriteMayFail = TRUE
    MaySignal = TRUE
SPECIFICATION FairManagerSpec
INVARIANTS EachEntryOnce EverythingWritten
PROPERTIES EntriesFlushed DestructorEnds
CHECK_DEADLOCK FALSE

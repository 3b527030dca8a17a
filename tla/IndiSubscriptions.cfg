SPECIFICATION Spec
CONSTANTS
    Key = {k1, k2, k3}
    Aliased = {k3}
    InitialDelay = 1
    MaxDelay = 3
    MaxQueue = 2
    MaxRestarts = 2
    MaxFaults = 2
INVARIANTS
    BelievesRightly
PROPERTIES
    AllSubscribed
    RetriesEnd

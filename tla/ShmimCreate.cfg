SPECIFICATION SpecCreate
CONSTANTS
    Size <- MCSize
    GetExisting = TRUE
    MaxStreams = 2
    MaxRequests = 2
    MaxEvents = 3
INVARIANTS
    ImageStays
CHECK_DEADLOCK FALSE

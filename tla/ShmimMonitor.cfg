SPECIFICATION Spec
CONSTANTS
    Size <- MCSize
    GetExisting = TRUE
    MaxStreams = 2
    MaxRequests = 2
    MaxEvents = 3
PROPERTIES
    RestartHonoured
    FollowsStream
CHECK_DEADLOCK FALSE

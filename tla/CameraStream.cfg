SPECIFICATION CameraSpec
CONSTANTS
    Size <- MCGeometry
    GetExisting = TRUE
    MaxStreams = 4
    MaxRequests = 1
    MaxEvents = 2
    Roi <- MCRoi
    Default = "small"
    Depth = 2
    MaxCamera = 2
    MaxTotal = 3
INVARIANTS
    CameraWritesInside
PROPERTIES
    RestartHonoured
    FollowsStream
    FramesAsConfigured
CHECK_DEADLOCK FALSE

CONSTANTS
    Geometries <- RefusedGeometry
    RepeatLimit = 0
    MaxFrames = 2
    MayFail = TRUE
SPECIFICATION FairSpec
PROPERTIES StopCompletes WindowReturned ShutdownEnds ToggleSettles

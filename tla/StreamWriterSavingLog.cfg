CONSTANTS
    Geometries <- OneGeometry
    RepeatLimit = 0
    MaxFrames = 3
    MayFail = FALSE
SPECIFICATION Spec
INVARIANTS RecordingIsLogged

CONSTANTS
    Geometries <- ManyGeometries
    RepeatLimit = 0
    MaxFrames = 4
    MayFail = TRUE
SPECIFICATION Spec
INVARIANTS
    SavedInOrder NothingLost IdleMeansSaved
    IndInv
PROPERTIES WindowStable ImplementsRecorder

CONSTANTS
    MaxLogSize = 2
    Sizes   <- MCSizes
    Periods <- MCPeriods
    MaxAhead = 2
    MaxClock = 4
    MaxEntries = 3
    MaxRequests = 1
    MayFail = TRUE
SPECIFICATION Spec
INVARIANTS CollisionResolved SizeBackstop RotationSeparates IntervalsSeparate
PROPERTIES FilesKept

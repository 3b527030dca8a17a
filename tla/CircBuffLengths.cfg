SPECIFICATION FairSpec
CONSTANTS
    Lengths    <- MCLengths
    FrameSizes <- MCFrameSizes
    BuffSizes  <- MCBuffSizes
INVARIANTS DivisorPositive RefusedForCause
PROPERTIES SizingEnds
CHECK_DEADLOCK FALSE

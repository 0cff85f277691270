SPECIFICATION FairVisionSpec
CONSTANTS
    RingLimit = 2
    QueueLimit = 1
    MaxFrames = 2
    MaxMoves = 1
    MaxRegions = 2
    MaxCuts = 1
    MaxBoots = 1
INVARIANTS
    Consistent
PROPERTIES
    KnownMovesAreHeld
    QueuedFramesAreJudged
CHECK_DEADLOCK FALSE

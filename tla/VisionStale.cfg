SPECIFICATION VisionSpec
CONSTANTS
    RingLimit = 2
    QueueLimit = 2
    MaxFrames = 2
    MaxMoves = 1
    MaxRegions = 1
    MaxCuts = 0
    MaxBoots = 0
INVARIANT NeverStale
CHECK_DEADLOCK FALSE

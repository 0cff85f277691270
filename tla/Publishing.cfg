SPECIFICATION FairSpec
CONSTANTS
    FullFor = 1
    ThinFor = 3
    SlotTicks = 2
    KeyTicks = 2
    DayTicks = 2
    MaxDigest = 1
    Looks = {"calm"}
    BadLook = "bad"
    Unsure = {}
    MaxTime = 4
    MaxFrames = 3
    KeptSlots = 1
    MaxFailures = 1
INVARIANTS
    Sound
    RetentionKeeps
PROPERTIES
    PlaneCatchesUp
CHECK_DEADLOCK FALSE

SPECIFICATION FairSpec
CONSTANTS
    Commands = {c1, c2}
    MaybeAborts = {c2}
    NoCommand = NoCommand
    RingLimit = 2
    MaxDials = 2
    MaxHubRestarts = 1
    MaxModuleRestarts = 1
INVARIANTS
    Consistent
PROPERTIES
    KeepsThePromise
    EndsUnlessRestarted
CHECK_DEADLOCK FALSE

SPECIFICATION ClientFairSpec
CONSTANTS
    Filters = {f1, f2}
    MaxFaults = 3
INVARIANT
    HearsAll
PROPERTIES
    HealthyIsKept
    ComesBack
CHECK_DEADLOCK FALSE

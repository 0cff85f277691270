SPECIFICATION FairShimSpec
CONSTANTS
    Requests = {c1}
    NoRequest = NoRequest
    Steps = 2
    Room = 2
    MaxDials = 2
    MaxHubRestarts = 1
INVARIANTS
    ShimConsistent
PROPERTIES
    KeepsThePromise
    EndsUnlessAccepted
    SilentUnitLeaves
CHECK_DEADLOCK FALSE

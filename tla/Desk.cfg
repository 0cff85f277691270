SPECIFICATION FairSpec
CONSTANTS
    Modules = {m1}
    Callers = {t1, t2}
    Scheduler = Scheduler
    Keys = {k1}
    NoKey = NoKey
    Slots = {1, 2}
    CallTypes = {"sample"}
    MaxCalls = 2
    MaxFaults = 1
    MayDefer = TRUE
INVARIANTS
    Disciplined
    RetryIsSafe
PROPERTIES
    CadenceResumes
CHECK_DEADLOCK FALSE

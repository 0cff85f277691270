SPECIFICATION Spec
CONSTANTS
    alice = alice
    bob = bob
    agent = agent
    Actors <- MCActors
    ClassOf <- MCClassOf
    MaxRisk <- MCMaxRisk
    PathCeiling <- MCPathCeiling
    Commands = {c1}
    Threads = {t1, t2}
    NoRequest = NoRequest
    MaxRefusals = 1
    MaxRestarts = 1
INVARIANTS
    DispatchIsAuthorized
    DecidedOnce
CHECK_DEADLOCK FALSE

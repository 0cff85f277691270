SPECIFICATION FairSpec
CONSTANTS
    c1 = c1
    c2 = c2
    c3 = c3
    Commands = {c1, c2, c3}
    NoCommand = NoCommand
    Asks <- MCAsks
    Fitted = {"NH4", "NOX", "PO4"}
    MaxAccidents = 1
INVARIANTS
    Consistent
    SucceededIsComplete
PROPERTIES
    PumpsObey
    EndsUnlessCut
CHECK_DEADLOCK FALSE

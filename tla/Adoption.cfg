SPECIFICATION FairSpec
CONSTANTS
    Units = {u1}
    MaxSessions = 3
    MaxLosses = 1
    MaxRestarts = 1
    MaxCalls = 2
INVARIANTS
    Sound
    MuteUntilTrusted
    ReleaseIsDurable
PROPERTIES
    RecognizedOnSight
CHECK_DEADLOCK FALSE

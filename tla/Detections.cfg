SPECIFICATION FairSpec
CONSTANTS
    m1 = m1
    m2 = m2
    Modules <- MCModules
    Rules <- MCRules
    r1 = r1
    Requests = {r1}
    About <- MCAbout
    Count = 2
    QueueBound = 1
    MaxRefusals = 1
    Nobody = Nobody
INVARIANTS
    Sound
    AlarmFollowsReadings
    
PROPERTIES
    StaleIsRaised
    ProducerIsCleared
CHECK_DEADLOCK FALSE

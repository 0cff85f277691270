SPECIFICATION FeedsFairSpec
CONSTANTS
    e1 = e1
    e2 = e2
    e3 = e3
    Writers = {w1, w2}
    Subscribers = {sse}
    Envelopes = {e1, e2, e3}
    NoWriter = NoWriter
    NoRow = NoRow
    QueueLimit = 2
    Sse = sse
    ReplayLimit = 2
    PageSize = 1
    TimeOf <- MCTimeOf
    Windows = {1}
    Forever = 9
INVARIANTS
    Sound
    PublishedIsDurable
    SseHasNoGap
    BundleIsHonest
PROPERTIES
    RowsAreImmutable
    LockIsReleased
CHECK_DEADLOCK FALSE

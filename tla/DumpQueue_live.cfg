CONSTANTS
    t1 = t1 t2 = t2 t3 = t3 k1 = k1 k2 = k2 k3 = k3 s1 = s1 s2 = s2 s3 = s3 s4 = s4
    Rank = {0}
    Task = {t1, t2}
    RankOf <- OneRank
    Shards <- Crossed
    Key = {k1, k2}
    Slot = {s1, s2}
    Segment <- OneSegment
    Backed = {s1}
    Streams = 1
    WaitingDepth = 2
    DumpingDepth = 2
    Faults <- Everything
    Expiring = {t1, t2}
    Closing = {0}
    NONE = NONE
SPECIFICATION FairSpec
INVARIANT ClosedIsQuiet
PROPERTIES
    TasksComplete
    CloseReturns
CHECK_DEADLOCK FALSE

CONSTANTS
    t1 = t1 t2 = t2 t3 = t3 k1 = k1 k2 = k2 k3 = k3 s1 = s1 s2 = s2 s3 = s3 s4 = s4
    Rank = {0, 1}
    Task = {t1, t2, t3}
    RankOf <- TwoRanks
    Shards <- SharedAndOwn
    Key = {k1, k2, k3}
    Slot = {s1, s2, s3}
    Segment <- TwoSegments
    Backed = {s1, s2, s3}
    Streams = 2
    WaitingDepth = 3
    DumpingDepth = 2
    Faults <- Failing
    Expiring = {t1}
    Closing = {}
    NONE = NONE
SPECIFICATION Spec
INVARIANTS
    ReadyHoldsKey
    StoredExact
    OkMeansSubmitted

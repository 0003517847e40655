CONSTANTS
    t1 = t1 t2 = t2 k1 = k1 k2 = k2 k3 = k3 s1 = s1 s2 = s2 s3 = s3 s4 = s4
    Rank = {0, 1}
    Task = {t1, t2}
    RankOf <- TwoRanks
    Workload <- OwnOrDistributed
    Key = {k1, k2, k3}
    Slot = {s1, s2, s3, s4}
    Segment <- TwoSegments
    WaitingDepth = 2
    RunningDepth = 3
    Faults = {}
    Expiring = {}
    Closing = {}
    NONE = NONE
SPECIFICATION Spec
INVARIANTS
    OkMeansLoaded
    DistributedNotStuck
\* A task may wait for a preallocated slot that nobody fills until its time is
\* up, and no time is up here.
CHECK_DEADLOCK FALSE

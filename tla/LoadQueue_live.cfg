CONSTANTS
    t1 = t1 t2 = t2 k1 = k1 k2 = k2 k3 = k3 s1 = s1 s2 = s2 s3 = s3 s4 = s4
    Rank = {0}
    Task = {t1, t2}
    RankOf <- OneRank
    Workload <- Following
    Key = {k1, k2}
    Slot = {s1, s2}
    Segment <- OneSegment
    WaitingDepth = 2
    RunningDepth = 4
    Faults <- Failing
    Expiring = {t2}
    Closing = {0}
    NONE = NONE
SPECIFICATION FairSpec
INVARIANTS
    NoCopyAfterWait
PROPERTY TasksComplete
\* A waiting thread polls, which changes nothing and is no step of the model;
\* that nobody polls for ever is what the temporal property says.
CHECK_DEADLOCK FALSE

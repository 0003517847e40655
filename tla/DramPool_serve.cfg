CONSTANTS
    k1 = k1 k2 = k2 k3 = k3 s1 = s1 s2 = s2 s3 = s3 r1 = r1 r2 = r2 r3 = r3 h1 = h1 h2 = h2
    Key = {k1, k2, k3}
    Slot = {s1, s2, s3}
    Shard = {h1, h2}
    SizeOf <- OneAndTwo
    MaxBatch = 2
    ShardOf <- TwoShards
    Position <- Positions
    Request = {r1, r2, r3}
    Workloads <- Requests
    RequestDepth = 1
    CompletionDepth = 1
    PendingDepth = 2
    FlagSlots = 1
    EvictPercent = 50
    NONE = NONE
SPECIFICATION FairSpec
INVARIANTS
    SlotsExact
    TransferKeepsEntry
    OkMeansLoaded
PROPERTIES
    RequestsAnswered
    StopEnds
CHECK_DEADLOCK FALSE

CONSTANTS
    c1 = c1 c2 = c2 p1 = p1 w1 = w1 w2 = w2
    Loop = p1
    WindowSize = 2
    FailureThreshold = 2
    InitialCooldown = 1
    MaxCooldown = 2
    BackoffFactor = 3
    CounterRange = 1000
    NONE = NONE
    Caller = {c1}
    PassiveThreshold = 2
    PassiveWindow = 1
    StableReset = 1
    Worker = {w1}
    MaxInFlight = 1
    MaxFlips = 3
    MaxFailures = 2
    MaxStops = 1
    MaxLag = 0
SPECIFICATION FairSpec
INVARIANTS
    PassiveTripNotMissed
PROPERTIES
    RecoveryEarned
    PassiveTripJustified
    UpForGood
    DownForGood
    StopReturns

SPECIFICATION FairSpec
CONSTANTS
  a = a
  b = b
  w1 = w1
  w2 = w2
  w3 = w3
  Worker = {w1, w2}
  NWorker = 1
  MaxFaults = 1
  NONE = NONE
  Shard = {a, b}
  File = {1, 2, 3, 4}
  Contents <- Full
  ShardOf <- OneSmall
  Id = {1, 2, 3, 4, 5}
  Precise = {TRUE, FALSE}
  SampleCount = 1
  Threshold = 2
  Unit = 3
  RecyclePercent = 2
  ExtraPercent = 1
  MaxRecycle = 2
CHECK_DEADLOCK FALSE
INVARIANTS
  RoundSettled
  GivenUpStops
PROPERTIES
  ResultsFinal
  CycleEnds

CONSTANTS
  t1 = t1 t2 = t2 r1 = r1 r2 = r2 r3 = r3 n1 = n1 n2 = n2 s1 = s1 s2 = s2
  NONE = NONE
  Task = {t1, t2}
  Request = {r1, r2}
  Node = {n1}
  NodeOf <- OneNode
  Split <- Both
  Entries <- OneEach
  Prerequisite = {r2}
  ReplySlot = {s1, s2}
  MaxInflight = 2
  MaxIoEntries = 2
  Timeout = 1
  Reconnect = 1
  Poll = 1
SPECIFICATION FairSpec
INVARIANTS
  EpochFenced
  OkMeansServed
  RoomForAll
PROPERTIES
  TasksComplete
CHECK_DEADLOCK FALSE

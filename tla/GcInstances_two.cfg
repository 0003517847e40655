CONSTANTS
  i1 = i1
  i2 = i2
  NONE = NONE
  NoDir = NoDir
  EmptyDir = EmptyDir
  Instance = {i1, i2}
  Nonce = {1, 2, 3, 4}
  Configs <- AlikeOrNot
  Stale = 2
  MaxFaults = 1
  Faulty = {i1}
SPECIFICATION FairSpec
INVARIANTS
  HolderKeepsLock
  ConfigsAgree
PROPERTIES
  LockRecovered

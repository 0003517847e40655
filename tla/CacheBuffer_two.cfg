CONSTANTS
    p1 = p1 p2 = p2 s1 = s1 s2 = s2 s3 = s3 b1 = b1 b2 = b2 h1 = h1 h2 = h2
    Proc = {p1, p2}
    Block = {b1, b2}
    Offset = {1}
    Slot = {s1, s2, s3}
    Bucket = {h1, h2}
    Stripe = {h1, h2}
    HashKey <- MCHashKey
    LockOf <- MCLockOf
    Usable <- MCUsable
    Ops <- MixedOps
    Claimed = 3
    MaxCrash = 1
    NONE = NONE
SPECIFICATION Spec
SYMMETRY Symmetry
INVARIANTS
    TypeOK
    ReferenceExact
    ReadyServesOwnKey
PROPERTIES
    ImplementsStore

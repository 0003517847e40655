CONSTANTS
    p1 = p1 p2 = p2 r1 = r1 s1 = s1 s2 = s2 s3 = s3 h1 = h1 h2 = h2
    Writer = {p1, p2}
    Reader = {r1}
    Slot = {s1, s2, s3}
    Bucket = {h1, h2}
    Stripe = {h1, h2}
    LockOf <- OwnStripe
    MaxCrash = 1
    NONE = NONE
SPECIFICATION Spec
SYMMETRY Symmetry
INVARIANTS
    ChainExact
PROPERTIES
    ImplementsIndex

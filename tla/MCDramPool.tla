----------------------------- MODULE MCDramPool -----------------------------
(* Small instances of the memory pool: one slot of the small size and two of *)
(* the large one.                                                            *)
EXTENDS DramPool

CONSTANTS k1, k2, k3, s1, s2, s3, r1, r2, r3, h1, h2

OneAndTwo == [s \in Slot |-> IF s = s1 THEN 1 ELSE 2]
TwoShards == [k \in Key |-> IF k = k3 THEN h2 ELSE h1]
Positions == [k \in Key |-> IF k = k1 THEN 1 ELSE 0]

Dump(ks, n) == [op |-> "DUMP", keys |-> ks, size |-> n]
Load(ks, n) == [op |-> "LOAD", keys |-> ks, size |-> n]
Lookup(ks) == [op |-> "LOOKUP", keys |-> ks, size |-> 0]
Garbage == [op |-> "INVALID", keys |-> <<k1>>, size |-> 0]
Work(a, b, c, stop) ==
    {[asks |-> [r \in Request |-> IF r = r1 THEN a ELSE IF r = r2 THEN b ELSE c], stop |-> stop]}

\* Reuse of the only small slot under a load; a batch of two; a load that asks
\* for more than is stored; a duplicate; a lease; Stop; and what is turned away.
Requests ==
    UNION {Work(Dump(<<k1>>, 1), Load(<<k1>>, 1), Dump(<<k3>>, 1), FALSE),
           Work(Dump(<<k1, k2>>, 2), Load(<<k2, k1>>, 2), NONE, FALSE),
           Work(Dump(<<k1>>, 1), Load(<<k1>>, 2), NONE, FALSE),
           Work(Dump(<<k1>>, 1), Dump(<<k1>>, 2), NONE, FALSE),
           Work(Dump(<<k1>>, 1), Lookup(<<k1>>), NONE, FALSE),
           Work(Dump(<<k1>>, 1), Load(<<k1>>, 1), NONE, TRUE),
           Work(Dump(<<k1>>, 3), Lookup(<<k1, k2, k3>>), Garbage, FALSE)}

\* Stop with at most one request.
Stopping == Work(Dump(<<k1>>, 1), NONE, NONE, TRUE)
=============================================================================

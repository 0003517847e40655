---------------------------- MODULE MCDumpQueue ----------------------------
(* Small instances of the Cache2 dump pipeline. *)
EXTENDS DumpQueue

CONSTANTS t1, t2, t3, k1, k2, k3, s1, s2, s3, s4

\* The second task is on a rank of its own.
TwoRanks == [t \in Task |-> IF t = t2 THEN 1 ELSE 0]
TwoSegments == [r \in Rank |-> Slot \cap (IF r = 0 THEN {s1, s2} ELSE {s3, s4})]

OneRank == [t \in Task |-> 0]
OneSegment == [r \in Rank |-> Slot]

\* The second task dumps a key of the first, the third evicts.
SharedAndOwn == [t \in Task |-> IF t = t1 THEN <<k1, k2>> ELSE IF t = t2 THEN <<k2>> ELSE <<k3>>]
Crossed == [t \in Task |-> IF t = t1 THEN <<k1, k2>> ELSE <<k2, k1>>]

\* The task whose keys nobody shares may fail anywhere, the others only where
\* no shard is lost that another task left to them.
Failing == ({"event", "write"} \X Task) \cup ({"copy", "sync", "submit"} \X {t3})
Everything == {"event", "copy", "sync", "submit", "write"} \X Task
=============================================================================

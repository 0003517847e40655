---------------------------- MODULE MCDramClient ----------------------------
(* Small instances of DramClient.                                            *)
EXTENDS DramClient

CONSTANTS t1, t2, r1, r2, r3, n1, n2, s1, s2

OneNode == [r \in Request |-> n1]
TwoNodes == [r \in Request |-> IF r = r1 THEN n1 ELSE n2]
OneEach == [r \in Request |-> 1]
Together == [r \in Request |-> t1]
Apart == [r \in Request |-> IF r = r1 THEN t1 ELSE t2]
Both == {Together, Apart}
=============================================================================

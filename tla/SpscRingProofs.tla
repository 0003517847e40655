--------------------------- MODULE SpscRingProofs ---------------------------
(***************************************************************************)
(* The ring of spsc_ring_queue.h with one producer and one consumer is a   *)
(* bounded first-in first-out queue, for every capacity and every set of   *)
(* values.                                                                 *)
(***************************************************************************)
EXTENDS SpscRing, SequenceTheorems, TLAPS

\* The remainder by the capacity of a number less than one turn away
\* (the index arithmetic of TryPush and TryPop).
LEMMA ModTurn ==
    ASSUME NEW n \in Int
    PROVE  /\ n \in Index => Mod(n) = n
           /\ n \in Capacity .. 2 * Capacity - 1 => Mod(n) = n - Capacity
           /\ n \in (-Capacity) .. -1 => Mod(n) = n + Capacity
  BY CapacityAssumption DEF Mod, Index

\* The number of values between two indexes, and the cell of each, without
\* remainders (head_, tail_ and buffer_).
LEMMA Between ==
    ASSUME NEW h \in Index, NEW t \in Index
    PROVE  /\ Mod(h + 1) = IF h + 1 = Capacity THEN 0 ELSE h + 1
           /\ Mod(h - t) = IF h >= t THEN h - t ELSE h - t + Capacity
           /\ \A i \in 1 .. Mod(h - t) :
                 Mod(t + i - 1) = IF t + i - 1 < Capacity THEN t + i - 1 ELSE t + i - 1 - Capacity
  <1>1. Capacity \in Nat \ {0} /\ h \in Int /\ t \in Int
    BY CapacityAssumption DEF Index
  <1>2. Mod(h + 1) = IF h + 1 = Capacity THEN 0 ELSE h + 1
    BY <1>1, ModTurn, h + 1 \in Int DEF Index
  <1>3. Mod(h - t) = IF h >= t THEN h - t ELSE h - t + Capacity
    BY <1>1, ModTurn, h - t \in Int DEF Index
  <1>4. ASSUME NEW i \in 1 .. Mod(h - t)
        PROVE  Mod(t + i - 1) = IF t + i - 1 < Capacity THEN t + i - 1 ELSE t + i - 1 - Capacity
    <2>1. i \in Int /\ i >= 1 /\ i <= Capacity - 1
      BY <1>1, <1>3 DEF Index
    <2> QED BY <1>1, <2>1, ModTurn, t + i - 1 \in Int DEF Index
  <1> QED BY <1>2, <1>3, <1>4

\* A ring the producer finds full holds all values but one (TryPush).
LEMMA Full ==
    ASSUME NEW h \in Index, NEW t \in Index, Mod(h + 1) = t
    PROVE  Mod(h - t) = Capacity - 1
  <1>1. /\ Mod(h + 1) = IF h + 1 = Capacity THEN 0 ELSE h + 1
        /\ Mod(h - t) = IF h >= t THEN h - t ELSE h - t + Capacity
    BY Between
  <1> QED BY <1>1, CapacityAssumption DEF Index

\* The cells in use are apart from the one the producer writes, and the
\* first of them is at tail_.
LEMMA Positions ==
    ASSUME NEW h \in Index, NEW t \in Index
    PROVE  /\ Mod(t + 1 - 1) = t
           /\ \A i \in 1 .. Mod(h - t) : Mod(t + i - 1) # h /\ (i # 1 => Mod(t + i - 1) # t)
  <1>1. t \in Int /\ Mod(t) = t /\ t + 1 - 1 = t
    BY ModTurn, CapacityAssumption DEF Index
  <1>2. ASSUME NEW i \in 1 .. Mod(h - t)
        PROVE  Mod(t + i - 1) # h /\ (i # 1 => Mod(t + i - 1) # t)
    <2>1. /\ Mod(h - t) = IF h >= t THEN h - t ELSE h - t + Capacity
          /\ Mod(t + i - 1) = IF t + i - 1 < Capacity THEN t + i - 1 ELSE t + i - 1 - Capacity
      BY Between
    <2> QED BY <2>1, CapacityAssumption DEF Index
  <1> QED BY <1>1, <1>2

\* One more value (TryPush).
LEMMA Grow ==
    ASSUME NEW h \in Index, NEW t \in Index, Mod(h + 1) # t
    PROVE  /\ Mod(Mod(h + 1) - t) = Mod(h - t) + 1
           /\ Mod(h - t) + 1 < Capacity
           /\ Mod(t + (Mod(h - t) + 1) - 1) = h
  <1>1. /\ Mod(h + 1) = IF h + 1 = Capacity THEN 0 ELSE h + 1
        /\ Mod(h - t) = IF h >= t THEN h - t ELSE h - t + Capacity
    BY Between
  <1> DEFINE g == Mod(h + 1)
  <1>2. g \in Index
    BY <1>1, CapacityAssumption DEF Index
  <1>3. Mod(g - t) = IF g >= t THEN g - t ELSE g - t + Capacity
    BY <1>2, Between
  <1>4. Mod(g - t) = Mod(h - t) + 1 /\ Mod(h - t) + 1 < Capacity
    BY <1>1, <1>3, CapacityAssumption DEF Index
  <1>5. t + (Mod(h - t) + 1) - 1 = IF h >= t THEN h ELSE h + Capacity
    BY <1>1, CapacityAssumption DEF Index
  <1>6. Mod(h) = h /\ Mod(h + Capacity) = h
    BY ModTurn, CapacityAssumption, h \in Int, h + Capacity \in Int DEF Index
  <1> QED BY <1>4, <1>5, <1>6

\* One value less (TryPop).
LEMMA Shrink ==
    ASSUME NEW h \in Index, NEW t \in Index, h # t
    PROVE  /\ Mod(h - t) \in 1 .. Capacity - 1
           /\ Mod(h - Mod(t + 1)) = Mod(h - t) - 1
           /\ \A i \in 1 .. Mod(h - t) - 1 : Mod(Mod(t + 1) + i - 1) = Mod(t + (i + 1) - 1)
  <1> DEFINE u == Mod(t + 1)
  <1>1. /\ u = IF t + 1 = Capacity THEN 0 ELSE t + 1
        /\ Mod(h - t) = IF h >= t THEN h - t ELSE h - t + Capacity
    BY Between
  <1>2. u \in Index
    BY <1>1, CapacityAssumption DEF Index
  <1>3. Mod(h - u) = IF h >= u THEN h - u ELSE h - u + Capacity
    BY <1>2, Between
  <1>4. Mod(h - t) \in 1 .. Capacity - 1 /\ Mod(h - u) = Mod(h - t) - 1
    BY <1>1, <1>3, CapacityAssumption DEF Index
  <1>5. ASSUME NEW i \in 1 .. Mod(h - t) - 1
        PROVE  Mod(u + i - 1) = Mod(t + (i + 1) - 1)
    <2>1. i \in 1 .. Mod(h - u) /\ i + 1 \in 1 .. Mod(h - t)
      BY <1>4, CapacityAssumption
    <2>2. Mod(u + i - 1) = IF u + i - 1 < Capacity THEN u + i - 1 ELSE u + i - 1 - Capacity
      BY <1>2, <2>1, Between
    <2>3. Mod(t + (i + 1) - 1) =
            IF t + (i + 1) - 1 < Capacity THEN t + (i + 1) - 1 ELSE t + (i + 1) - 1 - Capacity
      BY <2>1, Between
    <2> QED BY <1>1, <2>1, <2>2, <2>3, CapacityAssumption DEF Index
  <1> QED BY <1>4, <1>5

\* Contents as an operator of the words it reads.
ContentsOf(h, t, c, v, at) ==
    [i \in 1 .. Mod(h - t) |-> IF i = 1 /\ at = "release" THEN v ELSE c[Mod(t + i - 1)]]

\* As many values as there are indexes from t to h make a sequence of that
\* length (Contents).
LEMMA Filled ==
    ASSUME NEW h \in Index, NEW t \in Index,
           NEW c \in [Index -> Value \cup {NONE}], NEW v \in Value \cup {NONE}, NEW at
    PROVE  /\ ContentsOf(h, t, c, v, at) \in Seq(Value \cup {NONE})
           /\ Len(ContentsOf(h, t, c, v, at)) = Mod(h - t)
           /\ Mod(h - t) \in 0 .. Capacity - 1
  <1> DEFINE f == ContentsOf(h, t, c, v, at)
  <1>1. Mod(h - t) = IF h >= t THEN h - t ELSE h - t + Capacity
    BY Between
  <1>2. Mod(h - t) \in 0 .. Capacity - 1
    BY <1>1, CapacityAssumption DEF Index
  <1>3. ASSUME NEW i \in 1 .. Mod(h - t) PROVE Mod(t + i - 1) \in Index
    <2>1. Mod(t + i - 1) = IF t + i - 1 < Capacity THEN t + i - 1 ELSE t + i - 1 - Capacity
      BY Between
    <2> QED BY <1>2, <2>1, CapacityAssumption DEF Index
  <1>4. f \in [1 .. Mod(h - t) -> Value \cup {NONE}]
    BY <1>3 DEF ContentsOf
  <1> HIDE DEF f
  <1>5. f \in Seq(Value \cup {NONE}) /\ Len(f) = Mod(h - t)
    BY <1>2, <1>4, CapacityAssumption
  <1> QED BY <1>2, <1>5 DEF f

\* The values between tail_ and head_, in a state and in the next one.
LEMMA ContentsSeq ==
    /\ RingTypeOK => /\ Contents \in Seq(Value \cup {NONE})
                     /\ Len(Contents) = Mod(head - tail)
                     /\ Mod(head - tail) \in 0 .. Capacity - 1
    /\ RingTypeOK' => /\ Contents' \in Seq(Value \cup {NONE})
                      /\ Len(Contents') = Mod(head' - tail')
                      /\ Mod(head' - tail') \in 0 .. Capacity - 1
  <1>1. ASSUME RingTypeOK
        PROVE  /\ Contents \in Seq(Value \cup {NONE})
               /\ Len(Contents) = Mod(head - tail)
               /\ Mod(head - tail) \in 0 .. Capacity - 1
    <2>1. /\ head \in Index /\ tail \in Index /\ cell \in [Index -> Value \cup {NONE}]
          /\ cons.value \in Value \cup {NONE}
      BY <1>1 DEF RingTypeOK
    <2>2. Contents = ContentsOf(head, tail, cell, cons.value, cons.at)
      BY DEF Contents, ContentsOf
    <2> QED BY <2>1, <2>2, Filled
  <1>2. ASSUME RingTypeOK'
        PROVE  /\ Contents' \in Seq(Value \cup {NONE})
               /\ Len(Contents') = Mod(head' - tail')
               /\ Mod(head' - tail') \in 0 .. Capacity - 1
    <2>1. /\ head' \in Index /\ tail' \in Index /\ cell' \in [Index -> Value \cup {NONE}]
          /\ cons'.value \in Value \cup {NONE}
      BY <1>2 DEF RingTypeOK
    <2>2. Contents' = ContentsOf(head', tail', cell', cons'.value, cons'.at)
      BY DEF Contents, ContentsOf
    <2> QED BY <2>1, <2>2, Filled
  <1> QED BY <1>1, <1>2

\* Nobody moves an index out of range (head_ and tail_), and a step finds what
\* the steps before it left: the three parts of the invariant.
LEMMA InvInit == Init => RingInv
  BY CapacityAssumption DEF Init, RingInv, RingTypeOK, PushInv, PopInv, Index, Idle

\* Every step of the producer keeps the invariant (Push and TryPush).
LEMMA InvPush ==
    ASSUME OneProducer, RingInv, NEW p \in Producer, Push(p)
    PROVE  RingInv'
  <1>1. CASE PushHead(p)
    BY <1>1
    DEF PushHead, Unused, OneProducer, RingInv, RingTypeOK, PushInv, PopInv, ring, log
  <1>2. CASE PushTail(p)
    BY <1>2, CapacityAssumption
    DEF PushTail, OneProducer, RingInv, RingTypeOK, PushInv, PopInv, ring, Idle, Index
  <1>3. CASE PushCell(p)
    BY <1>3 DEF PushCell, OneProducer, RingInv, RingTypeOK, PushInv, PopInv, log
  <1>4. CASE PushPublish(p)
    <2>1. head' = Mod(head + 1) /\ head \in Index /\ Mod(head + 1) # tail
      BY <1>4 DEF PushPublish, RingInv, RingTypeOK, PushInv
    <2>2. head' = IF head + 1 = Capacity THEN 0 ELSE head + 1
      BY <2>1, Between
    <2>3. head' \in Index /\ head' # tail
      BY <2>1, <2>2, CapacityAssumption DEF Index
    <2> QED BY <1>4, <2>3, CapacityAssumption
        DEF PushPublish, OneProducer, RingInv, RingTypeOK, PushInv, PopInv, Idle, Index
  <1> QED BY <1>1, <1>2, <1>3, <1>4 DEF Push

\* Every step of the consumer keeps the invariant (TryPop).
LEMMA InvPop ==
    ASSUME OneProducer, RingInv, Pop
    PROVE  RingInv'
  <1>1. CASE PopHead
    BY <1>1, Zenon DEF PopHead, RingInv, RingTypeOK, PushInv, PopInv, ring, log
  <1>2. CASE PopTail
    BY <1>2, CapacityAssumption DEF PopTail, RingInv, RingTypeOK, PushInv, PopInv, ring, log, Idle, Index
  <1>3. CASE PopCell
    BY <1>3, Zenon DEF PopCell, RingInv, RingTypeOK, PushInv, PopInv, log
  <1>4. CASE PopRelease
    <2>1. tail' \in Index
      BY <1>4, Between, CapacityAssumption DEF PopRelease, RingInv, RingTypeOK, Index
    <2>2. Mod(head + 1) # tail'
      <3>1. head \in Index /\ tail \in Index /\ head # tail /\ tail' = Mod(tail + 1)
        BY <1>4 DEF PopRelease, RingInv, RingTypeOK, PopInv
      <3>2. /\ Mod(head + 1) = IF head + 1 = Capacity THEN 0 ELSE head + 1
            /\ Mod(tail + 1) = IF tail + 1 = Capacity THEN 0 ELSE tail + 1
        BY <3>1, Between
      <3> QED BY <3>1, <3>2, CapacityAssumption DEF Index
    <2> QED BY <1>4, <2>1, <2>2, CapacityAssumption
        DEF PopRelease, RingInv, RingTypeOK, PushInv, PopInv, Idle, Index
  <1> QED BY <1>1, <1>2, <1>3, <1>4 DEF Pop

\* The inductive invariant.
THEOREM RingInvariant ==
    ASSUME OneProducer
    PROVE  Spec => []RingInv
  <1>1. RingInv /\ [Next]_vars => RingInv'
    <2>1. ASSUME RingInv, UNCHANGED vars PROVE RingInv'
      BY <2>1 DEF RingInv, RingTypeOK, PushInv, PopInv, vars, ring
    <2> QED BY <2>1, InvPush, InvPop DEF Next
  <1> QED BY <1>1, InvInit, PTL DEF Spec

----------------------------------------------------------------------------
(* Refinement                                                              *)

\* A push takes effect when head_ is stored, and nothing before shows
\* (TryPush).
LEMMA PushRefines ==
    ASSUME OneProducer, RingInv, RingInv', NEW p \in Producer, Push(p)
    PROVE  [Queue!Next]_Queue!vars
  <1>0. RingTypeOK /\ RingTypeOK' BY DEF RingInv
  <1>1. CASE PushHead(p)
    BY <1>1 DEF PushHead, Queue!vars, Contents, ring, log
  <1>2. CASE PushTail(p)
    <2>1. UNCHANGED <<Contents, delivered>>
      BY <1>2 DEF PushTail, Contents, ring
    <2>2. CASE UNCHANGED refused
      BY <2>1, <2>2 DEF Queue!vars
    <2>3. CASE ~UNCHANGED refused
      <3>1. /\ Mod(head + 1) = tail /\ refused' = refused \cup {prod[p].value}
            /\ prod[p].value \in Value
        BY <1>2, <2>3 DEF PushTail, RingInv, PushInv
      <3>2. Len(Contents) = Capacity - 1
        BY <1>0, <3>1, ContentsSeq, Full DEF RingTypeOK
      <3> QED BY <2>1, <3>1, <3>2 DEF Queue!Next, Queue!Refuse
    <2> QED BY <2>2, <2>3
  <1>3. CASE PushCell(p)
    <2>1. /\ head' = head /\ tail' = tail /\ cons' = cons
          /\ cell' = [cell EXCEPT ![head] = prod[p].value]
      BY <1>3, Zenon DEF PushCell, RingInv, PushInv
    <2>2. \A i \in 1 .. Mod(head - tail) : Mod(tail + i - 1) # head
      BY <1>0, Positions DEF RingTypeOK
    <2>3. UNCHANGED Contents
      BY <1>0, <2>1, <2>2 DEF Contents, RingTypeOK
    <2> QED BY <1>3, <2>3 DEF PushCell, log, Queue!vars
  <1>4. CASE PushPublish(p)
    <2>1. /\ head' = Mod(head + 1) /\ head' # tail /\ tail' = tail /\ cell' = cell
          /\ cons' = cons /\ cell[head] = prod[p].value /\ prod[p].value \in Value
      BY <1>4 DEF PushPublish, RingInv, PushInv
    <2>2. /\ Mod(head' - tail) = Mod(head - tail) + 1
          /\ Mod(head - tail) + 1 < Capacity
          /\ Mod(tail + (Mod(head - tail) + 1) - 1) = head
      BY <1>0, <2>1, Grow DEF RingTypeOK
    <2>3. Contents' = Append(Contents, prod[p].value)
      <3> DEFINE n == Mod(head - tail)
                 S == Value \cup {NONE}
                 more == Append(Contents, prod[p].value)
      <3>1. /\ Contents \in Seq(S) /\ Len(Contents) = n /\ n \in Nat
            /\ Contents' \in Seq(S) /\ Len(Contents') = n + 1
        BY <1>0, <2>1, <2>2, ContentsSeq, CapacityAssumption
      <3>2. /\ more \in Seq(S) /\ Len(more) = n + 1
            /\ \A i \in 1 .. n : more[i] = Contents[i]
            /\ more[n + 1] = prod[p].value
        BY <2>1, <3>1, AppendProperties
      <3>3. ASSUME NEW i \in 1 .. n + 1 PROVE Contents'[i] = more[i]
        <4>1. i \in 1 .. n => Contents'[i] = Contents[i]
          BY <2>1, <2>2, <3>1 DEF Contents
        <4>2. cons.at = "release" => n >= 1
          BY <1>0, Shrink DEF RingTypeOK, RingInv, PopInv
        <4>3. i = n + 1 => Contents'[i] = prod[p].value
          BY <2>1, <2>2, <3>1, <4>2 DEF Contents
        <4> QED BY <3>1, <3>2, <4>1, <4>3
      <3> QED BY <3>1, <3>2, <3>3, SeqEqual
    <2>4. Len(Contents) < Capacity - 1
      BY <1>0, <2>2, ContentsSeq, CapacityAssumption
    <2> QED BY <1>4, <2>1, <2>3, <2>4 DEF PushPublish, Queue!Next, Queue!Accept
  <1> QED BY <1>1, <1>2, <1>3, <1>4 DEF Push

\* A pop takes effect when tail_ is stored (TryPop).
LEMMA PopRefines ==
    ASSUME RingInv, RingInv', Pop
    PROVE  [Queue!Next]_Queue!vars
  <1>0. RingTypeOK /\ RingTypeOK' BY DEF RingInv
  <1>1. CASE PopHead
    BY <1>1 DEF PopHead, Queue!vars, Contents, ring, log
  <1>2. CASE PopTail
    BY <1>2 DEF PopTail, Queue!vars, Contents, ring, log, Idle
  <1>3. CASE PopCell
    <2>1. /\ head' = head /\ tail' = tail /\ cons.at # "release"
          /\ cons'.at = "release" /\ cons'.value = cell[tail]
          /\ cell' = [cell EXCEPT ![tail] = NONE]
      BY <1>0, <1>3 DEF PopCell, RingTypeOK
    <2>2. /\ \A i \in 2 .. Mod(head - tail) : Mod(tail + i - 1) # tail
          /\ Mod(tail + 1 - 1) = tail
      BY <1>0, Positions DEF RingTypeOK
    <2>3. UNCHANGED Contents
      BY <1>0, <2>1, <2>2 DEF Contents, RingTypeOK
    <2> QED BY <1>3, <2>3 DEF PopCell, log, Queue!vars
  <1>4. CASE PopRelease
    <2>1. head # tail /\ head' = head /\ tail' = Mod(tail + 1) /\ cell' = cell
          /\ cons.at = "release" /\ cons'.at # "release"
      BY <1>4 DEF PopRelease, RingInv, PopInv, Idle
    <2>2. /\ Mod(head - tail) >= 1
          /\ Mod(head - tail') = Mod(head - tail) - 1
          /\ \A i \in 1 .. Mod(head - tail) - 1 : Mod(tail' + i - 1) = Mod(tail + (i + 1) - 1)
      BY <1>0, <2>1, Shrink DEF RingTypeOK
    <2>3. Contents # <<>> /\ Head(Contents) = cons.value /\ Contents' = Tail(Contents)
      <3> DEFINE n == Mod(head - tail)
                 S == Value \cup {NONE}
                 rest == Tail(Contents)
      <3>1. /\ Contents \in Seq(S) /\ Len(Contents) = n /\ n \in Nat /\ n >= 1
            /\ Contents' \in Seq(S) /\ Len(Contents') = n - 1
        BY <1>0, <2>1, <2>2, ContentsSeq, CapacityAssumption
      <3>2. Contents # <<>> /\ Head(Contents) = Contents[1]
        BY <3>1
      <3>3. Contents[1] = cons.value
        BY <2>1, <2>2, <3>1 DEF Contents
      <3>4. /\ rest \in Seq(S) /\ Len(rest) = n - 1
            /\ \A i \in 1 .. n - 1 : rest[i] = Contents[i + 1]
        BY <3>1, <3>2, HeadTailProperties
      <3>5. ASSUME NEW i \in 1 .. n - 1 PROVE Contents'[i] = rest[i]
        <4>1. Contents'[i] = cell[Mod(tail' + i - 1)]
          BY <2>1, <2>2, <3>1 DEF Contents
        <4>2. Contents[i + 1] = cell[Mod(tail + (i + 1) - 1)]
          BY <2>1, <2>2, <3>1 DEF Contents
        <4> QED BY <2>2, <3>4, <4>1, <4>2
      <3>6. Contents' = rest
        BY <3>1, <3>4, <3>5, SeqEqual
      <3> QED BY <3>2, <3>3, <3>6
    <2> QED BY <1>4, <2>3 DEF PopRelease, Queue!Next, Queue!Deliver
  <1> QED BY <1>1, <1>2, <1>3, <1>4 DEF Pop

\* The ring implements the bounded queue: with one producer, whatever the
\* capacity, values leave in the order in which TryPush accepted them, none is
\* lost or delivered twice, and one is refused only by a full ring.
THEOREM RingImplementsQueue ==
    ASSUME OneProducer
    PROVE  Spec => ImplementsQueue
  <1>1. Init => Queue!Init
    BY CapacityAssumption DEF Init, Queue!Init
  <1>2. RingInv /\ RingInv' /\ [Next]_vars => [Queue!Next]_Queue!vars
    <2>1. CASE UNCHANGED vars
      BY <2>1 DEF vars, ring, log, Queue!vars, Contents
    <2> QED BY <2>1, PushRefines, PopRefines DEF Next
  <1> QED BY <1>1, <1>2, RingInvariant, PTL DEF Spec, ImplementsQueue, Queue!Spec
=============================================================================

------------------------- MODULE HealthPassiveProofs -------------------------
(***************************************************************************)
(* The passive window of the breaker, fed by the callers' own transfers:   *)
(* PassiveTripNotMissed and PassiveTripJustified of HealthBreaker, for     *)
(* every number of callers and every accepted configuration.               *)
(***************************************************************************)
EXTENDS HealthBreakerProofs

\* The threads and the bounds.
LEMMA ThreadFacts ==
    /\ Loop \in Threads /\ Loop \notin Caller /\ Caller \subseteq Threads
    /\ \A p \in Threads : p # NONE
    /\ \A p \in Threads : p # Loop => p \in Caller
    /\ IsFiniteSet(Caller)
    /\ PassiveThreshold \in Nat \ {0} /\ PassiveWindow \in Nat \ {0}
    /\ MaxFailures \in Nat /\ CounterRange \in Nat \ {0} /\ MaxFailures < CounterRange
  BY ConfigAssumption DEF ValidConfig, Threads

\* The failures within the window are finitely many.
LEMMA RecentFinite ==
    ASSUME PassiveTypeOK
    PROVE  /\ Len(counted) \in Nat /\ DOMAIN counted = 1 .. Len(counted)
           /\ Recent \subseteq 1 .. Len(counted) /\ IsFiniteSet(Recent) /\ Cardinality(Recent) \in Nat
           /\ \A S \in SUBSET Recent : IsFiniteSet(S) /\ Cardinality(S) <= Cardinality(Recent)
  <1>1. Len(counted) \in Nat /\ DOMAIN counted = 1 .. Len(counted)
    BY DEF PassiveTypeOK
  <1>2. Recent \in SUBSET (1 .. Len(counted))
    BY <1>1 DEF Recent
  <1>3. IsFiniteSet(Recent)
    <2>1. IsFiniteSet(1 .. Len(counted))
      BY <1>1, FS_Interval
    <2> QED BY <1>2, <2>1, FS_Subset, Zenon
  <1> QED BY <1>1, <1>2, <1>3, FS_CardinalityType, FS_Subset, Zenon

\* An element of a sequence.
LEMMA ElementOf ==
    ASSUME NEW S, NEW s \in Seq(S), NEW i \in 1 .. Len(s)
    PROVE  s[i] \in S
  OBVIOUS

\* Each of them is of a generation and has an age.
LEMMA CountedFacts ==
    ASSUME PassiveTypeOK
    PROVE  /\ DOMAIN counted = 1 .. Len(counted)
           /\ \A i \in 1 .. Len(counted) : counted[i] \in [gen : Nat, age : Nat]
  <1>1. DOMAIN counted = 1 .. Len(counted)
    BY DEF PassiveTypeOK
  <1>2. \A i \in 1 .. Len(counted) : counted[i] \in [gen : Nat, age : Nat]
    BY ElementOf, Zenon DEF PassiveTypeOK
  <1> QED BY <1>1, <1>2

\* The snapshots.
LEMMA SnapshotFacts ==
    ASSUME PassiveTypeOK
    PROVE  /\ Len(snapshots) \in Nat /\ DOMAIN snapshots = 1 .. Len(snapshots)
           /\ \A k \in DOMAIN snapshots : snapshots[k] \in [age : Nat, failures : Nat]
  <1>1. Len(snapshots) \in Nat /\ DOMAIN snapshots = 1 .. Len(snapshots)
    BY DEF PassiveTypeOK
  <1>2. \A k \in 1 .. Len(snapshots) : snapshots[k] \in [age : Nat, failures : Nat]
    BY ElementOf, Zenon DEF PassiveTypeOK
  <1> QED BY <1>1, <1>2

\* So are the callers about to count.
LEMMA PendingFinite == IsFiniteSet(Pending) /\ Cardinality(Pending) \in Nat
  <1>1. Pending \in SUBSET Caller
    BY DEF Pending
  <1> QED BY <1>1, ThreadFacts, FS_Subset, FS_CardinalityType

\* The passive window starts empty.
LEMMA PassiveInit == Init => PassiveInv
  <1> SUFFICES ASSUME Init PROVE PassiveInv
    OBVIOUS
  <1>1. /\ healthy = TRUE /\ generation = 0 /\ counted = <<>> /\ snapshots = <<>> /\ base = 0 /\ resetAt = 0
        /\ \A p \in Threads : act[p] = [at |-> "out"]
    BY DEF Init, Tracker!Init, Tracker!Out, Tracker!Thread, Threads
  <1>2. PassiveTypeOK
    BY <1>1, ThreadFacts DEF PassiveTypeOK, IoState
  <1>3. Len(counted) = 0 /\ DOMAIN counted = {} /\ DOMAIN snapshots = {} /\ Recent = {} /\ Pending = {}
    BY <1>1, ThreadFacts DEF Recent, Pending, Tracker!At
  <1>4. CountedOK
    BY <1>3, ThreadFacts, FS_EmptySet DEF CountedOK
  <1>5. GenerationOK /\ WindowStartOK
    BY <1>1, <1>3, ThreadFacts DEF GenerationOK, WindowStartOK, Recording, Critical
  <1>6. ReadOK
    BY <1>1, ThreadFacts DEF ReadOK, ReadBy
  <1>7. TripComing
    BY <1>3, ThreadFacts, FS_EmptySet, SMTT(30) DEF TripComing
  <1> QED BY <1>2, <1>4, <1>5, <1>6, <1>7 DEF PassiveInv

window == <<counted, base, snapshots, resetAt>>

\* Steps outside the passive window.
LEMMA PassiveSame ==
    ASSUME PassiveInv, UNCHANGED <<healthy, generation, act, window>>
    PROVE  PassiveInv'
  BY DEF PassiveInv, window, PassiveTypeOK, CountedOK, Pending, Tracker!At, GenerationOK, Tripping, Recording,
         Critical, WindowStartOK, ReadOK, ReadBy, TripComing, Coming, Recent

\* A step of RecordIo that changes neither the counters nor the state.
LEMMA MoveStep ==
    ASSUME PassiveInv, NEW c \in Caller, UNCHANGED <<healthy, generation, window>>,
           \A p \in Threads : p # c => act'[p] = act[p],
           act'[c] \in IoState, act[c].at # "bump", act'[c].at # "bump",
           CountedOK',
           act'[c].at # "out" => act'[c].gen <= generation /\ (~healthy /\ ~Tripping => act'[c].gen < generation),
           ReadBy(c)',
           healthy /\ Cardinality(Recent) >= PassiveThreshold /\ Coming(c) => Coming(c)'
    PROVE  PassiveInv'
  <1>1. PassiveTypeOK'
    BY ThreadFacts, Zenon DEF PassiveInv, PassiveTypeOK, window
  <1>2. GenerationOK'
    <2>1. Tripping' <=> Tripping
      BY DEF Tripping
    <2>2. \A p \in Threads : Critical(p)' => Critical(p)
      BY DEF Critical, IoState
    <2>3. \A d \in Caller : Recording(d)' =>
             act'[d].gen <= generation /\ (~healthy /\ ~Tripping => act'[d].gen < generation)
      BY ThreadFacts DEF Recording, PassiveInv, GenerationOK
    <2> QED BY <2>1, <2>2, <2>3, Zenon DEF PassiveInv, GenerationOK, window
  <1>3. Recent' = Recent
    BY DEF Recent, window
  <1>4. WindowStartOK'
    BY <1>3, Zenon DEF PassiveInv, WindowStartOK, window
  <1>5. ReadOK'
    BY <1>3, ThreadFacts, Zenon DEF PassiveInv, ReadOK, ReadBy, window
  <1>6. TripComing'
    BY <1>3, ThreadFacts, Zenon DEF PassiveInv, TripComing, Coming
  <1> QED BY <1>1, <1>2, <1>4, <1>5, <1>6, Zenon DEF PassiveInv

\* The beginning of RecordIo.
LEMMA RecordIoStep ==
    ASSUME BreakerInv, PassiveInv, NEW c \in Caller, NEW gen, NEW ok \in BOOLEAN, Tracker!RecordIo(c, gen, ok),
           ok \/ Len(counted) + Cardinality(Pending) < MaxFailures
    PROVE  PassiveInv'
  <1>1. /\ UNCHANGED <<healthy, generation, window>> /\ act[c].at = "out" /\ c \in Threads
        /\ DOMAIN act = Threads
        /\ act' = [act EXCEPT ![c] =
              IF healthy /\ ~Tracker!Stale(gen) /\ ~ok
              THEN [at |-> "count", gen |-> gen, lag |-> 0, seen |-> 0] ELSE Tracker!Out]
    BY ThreadFacts DEF Tracker!RecordIo, Tracker!flags, Tracker!passive, Tracker!At, window, BreakerInv, TrackerOK
  <1>2. /\ \A p \in Threads : p # c => act'[p] = act[p]
        /\ \/ act'[c] = [at |-> "out"]
           \/ /\ act'[c] = [at |-> "count", gen |-> generation, lag |-> 0, seen |-> 0] /\ healthy
              /\ ~ok
    BY <1>1 DEF Tracker!Stale, Tracker!Out
  <1>3. act'[c] \in IoState
    BY <1>2 DEF IoState, BreakerInv, TrackerOK
  <1>4. CountedOK'
    <2>1. Pending' = IF act'[c].at = "count" THEN Pending \cup {c} ELSE Pending
      BY <1>1, <1>2, ThreadFacts, Zenon DEF Pending, Tracker!At
    <2>2. c \notin Pending
      BY <1>1 DEF Pending, Tracker!At
    <2>3. Cardinality(Pending \cup {c}) = Cardinality(Pending) + 1
      BY <2>2, PendingFinite, FS_AddElement, Zenon
    <2>4. Len(counted) \in Nat
      BY RecentFinite DEF PassiveInv
    <2>5. CASE act'[c] = [at |-> "out"]
      BY <1>1, <2>1, <2>5 DEF PassiveInv, CountedOK, window
    <2>6. CASE ~ok /\ act'[c].at = "count"
      BY <1>1, <2>1, <2>3, <2>4, <2>6, PendingFinite, ThreadFacts, SMTT(30) DEF CountedOK, window
    <2> QED BY <1>2, <2>5, <2>6
  <1>5. act'[c].at # "out" => act'[c].gen <= generation /\ (~healthy /\ ~Tripping => act'[c].gen < generation)
    BY <1>2 DEF BreakerInv, TrackerOK
  <1>6. ReadBy(c)' /\ act'[c].at # "bump" /\ ~Coming(c)
    BY <1>1, <1>2 DEF ReadBy, Coming
  <1> QED BY <1>1, <1>2, <1>3, <1>4, <1>5, <1>6, MoveStep, Zenon

\* A call of RecordIo in progress, field by field.
LEMMA IoRecord ==
    ASSUME NEW r \in [at : {"count", "stats", "more", "lock"}, gen : Nat, lag : Nat, seen : Nat]
    PROVE  /\ [r EXCEPT !.at = "stats"] = [at |-> "stats", gen |-> r.gen, lag |-> r.lag, seen |-> r.seen]
           /\ [r EXCEPT !.lag = @ + 1] = [at |-> r.at, gen |-> r.gen, lag |-> r.lag + 1, seen |-> r.seen]
  <1>2. [r EXCEPT !.at = "stats"] = [at |-> "stats", gen |-> r.gen, lag |-> r.lag, seen |-> r.seen]
    OBVIOUS
  <1>3. [r EXCEPT !.lag = @ + 1] = [at |-> r.at, gen |-> r.gen, lag |-> r.lag + 1, seen |-> r.seen]
    OBVIOUS
  <1> QED BY <1>2, <1>3

\* A thread outside RecordIo.
LEMMA OutState == [at |-> "out"] \in IoState /\ [at |-> "bump"] \in IoState
  BY DEF IoState

\* The start of the window is read.
LEMMA StatsStep ==
    ASSUME BreakerInv, PassiveInv, NEW c \in Caller, UNCHANGED <<healthy, generation, window>>,
           act[c].at = "stats", act' = [act EXCEPT ![c].at = "more", ![c].seen = base]
    PROVE  PassiveInv'
  <1>1. c \in Threads /\ DOMAIN act = Threads /\ act[c] \in IoState
    BY ThreadFacts DEF BreakerInv, TrackerOK, PassiveInv, PassiveTypeOK
  <1>2. act[c] \in [at : {"count", "stats", "more", "lock"}, gen : Nat, lag : Nat, seen : Nat]
    BY <1>1 DEF IoState
  <1>3. /\ \A p \in Threads : p # c => act'[p] = act[p]
        /\ act'[c] = [at |-> "more", gen |-> act[c].gen, lag |-> act[c].lag, seen |-> base]
    BY <1>1, <1>2, Zenon
  <1>4. act'[c] \in IoState
    BY <1>2, <1>3 DEF IoState, PassiveInv, PassiveTypeOK
  <1>5. CountedOK'
    <2>1. Pending' = Pending
      <3>1. ASSUME NEW d \in Caller PROVE act'[d].at = "count" <=> act[d].at = "count"
        <4>1. CASE d = c
          BY <1>3, <4>1
        <4>2. CASE d # c
          BY <1>3, <4>2, ThreadFacts, Zenon
        <4> QED BY <4>1, <4>2, Zenon
      <3> QED BY <3>1, Zenon DEF Pending, Tracker!At
    <2> QED BY <2>1 DEF PassiveInv, CountedOK, window
  <1>6. act'[c].gen <= generation /\ (~healthy /\ ~Tripping => act'[c].gen < generation)
    BY <1>3 DEF PassiveInv, GenerationOK, Recording
  <1>7. Recent' = Recent
    BY DEF Recent, window
  <1>8. ReadBy(c)'
    <2>1. act'[c].at = "more" /\ act'[c].seen = base /\ UNCHANGED window
      BY <1>3
    <2> QED BY <1>7, <2>1, Zenon DEF ReadBy, PassiveInv, WindowStartOK, window
  <1>9. Coming(c)' <=> Coming(c)
    BY <1>3 DEF Coming
  <1>10. act[c].at # "bump" /\ act'[c].at # "bump"
    BY <1>3
  <1> QED BY <1>3, <1>4, <1>5, <1>6, <1>8, <1>9, <1>10, MoveStep, ZenonT(60)

\* The total is read: no failure within the window is missed.
LEMMA TotalStep ==
    ASSUME BreakerInv, PassiveInv, NEW c \in Caller, UNCHANGED <<healthy, generation, window>>,
           act[c].at = "more",
           act' = [act EXCEPT ![c] =
                IF Tracker!Exceeded(Tracker!Total, act[c].seen)
                THEN [at |-> "lock", gen |-> act[c].gen, lag |-> act[c].lag, seen |-> 0] ELSE Tracker!Out]
    PROVE  PassiveInv'
  <1>1. c \in Threads /\ DOMAIN act = Threads /\ act[c] \in IoState
    BY ThreadFacts DEF BreakerInv, TrackerOK, PassiveInv, PassiveTypeOK
  <1>2. act[c] \in [at : {"count", "stats", "more", "lock"}, gen : Nat, lag : Nat, seen : Nat]
    BY <1>1 DEF IoState
  <1> DEFINE seen == act[c].seen
  <1>3. Tracker!Exceeded(Tracker!Total, seen) <=> Len(counted) - seen >= PassiveThreshold
    <2>1. Len(counted) \in Nat /\ seen \in Nat /\ seen <= Len(counted) /\ Len(counted) <= MaxFailures
      BY <1>2, RecentFinite, PendingFinite, ThreadFacts, SMTT(30) DEF PassiveInv, ReadOK, ReadBy, CountedOK
    <2> DEFINE d == Len(counted) - seen
    <2>2. d \in 0 .. CounterRange - 1
      BY <2>1, ThreadFacts
    <2> HIDE DEF d
    <2>3. d % CounterRange = d
      BY <2>2, ThreadFacts
    <2> QED BY <2>3, Zenon DEF Tracker!Exceeded, Tracker!Total, d
  <1>4. /\ \A p \in Threads : p # c => act'[p] = act[p]
        /\ act'[c] = IF Len(counted) - seen >= PassiveThreshold
                     THEN [at |-> "lock", gen |-> act[c].gen, lag |-> act[c].lag, seen |-> 0]
                     ELSE [at |-> "out"]
    <2>2. act'[c] = IF Tracker!Exceeded(Tracker!Total, seen)
                    THEN [at |-> "lock", gen |-> act[c].gen, lag |-> act[c].lag, seen |-> 0]
                    ELSE Tracker!Out
      BY <1>1
    <2>3. \A p \in Threads : p # c => act'[p] = act[p]
      BY <1>1
    <2> QED BY <1>3, <2>2, <2>3, Zenon DEF Tracker!Out
  <1> HIDE DEF seen
  <1>5. act'[c] \in IoState
    <2>1. CASE Len(counted) - seen >= PassiveThreshold
      BY <1>2, <1>4, <2>1 DEF IoState
    <2>2. CASE ~(Len(counted) - seen >= PassiveThreshold)
      <3>1. act'[c] = [at |-> "out"]
        BY <1>4, <2>2
      <3> QED BY <3>1, OutState, Zenon
    <2> QED BY <2>1, <2>2, Zenon
  <1>6. CountedOK'
    <2>1. Pending' = Pending
      <3>1. \A d \in Caller : act'[d].at = "count" <=> act[d].at = "count"
        BY <1>4, ThreadFacts
      <3> QED BY <3>1 DEF Pending, Tracker!At
    <2> QED BY <2>1 DEF PassiveInv, CountedOK, window
  <1>7. act'[c].at # "out" => act'[c].gen <= generation /\ (~healthy /\ ~Tripping => act'[c].gen < generation)
    BY <1>4 DEF PassiveInv, GenerationOK, Recording
  <1>8. ReadBy(c)'
    <2>1. act'[c].at = "lock" /\ act'[c].gen = generation =>
             resetAt <= seen /\ Len(counted) - seen >= PassiveThreshold
      <3>1. act[c].gen = generation => resetAt <= seen
        BY DEF PassiveInv, ReadOK, ReadBy, seen
      <3>2. CASE Len(counted) - seen >= PassiveThreshold
        <4>1. act'[c].gen = act[c].gen
          BY <1>4, <3>2
        <4> QED BY <3>1, <3>2, <4>1, Zenon
      <3>3. CASE ~(Len(counted) - seen >= PassiveThreshold)
        <4>1. act'[c] = [at |-> "out"]
          BY <1>4, <3>3
        <4>2. act'[c].at # "lock"
          BY <4>1
        <4> QED BY <4>2, Zenon
      <3> QED BY <3>2, <3>3, Zenon
    <2>2. Len(counted) \in Nat /\ seen \in Nat /\ resetAt \in Nat
      BY <1>2, RecentFinite, Zenon DEF PassiveInv, PassiveTypeOK, seen
    <2> QED BY <1>4, <2>1, <2>2, ThreadFacts, SMTT(30) DEF ReadBy, window
  <1>9. Cardinality(Recent) >= PassiveThreshold /\ Coming(c) => Coming(c)'
    <2> SUFFICES ASSUME Cardinality(Recent) >= PassiveThreshold, Coming(c)
                 PROVE  Coming(c)'
      OBVIOUS
    <2>1. /\ Len(counted) \in Nat /\ seen \in Nat /\ seen <= Len(counted)
          /\ Recent \subseteq 1 .. Len(counted) /\ \A i \in 1 .. seen : i \notin Recent
      BY <1>2, RecentFinite DEF PassiveInv, ReadOK, ReadBy, seen
    <2>2. Recent \in SUBSET (seen + 1 .. Len(counted))
      BY <2>1
    <2>3. IsFiniteSet(seen + 1 .. Len(counted)) /\ Cardinality(seen + 1 .. Len(counted)) = Len(counted) - seen
      <3>1. seen + 1 \in Int /\ Len(counted) \in Int
        BY <2>1
      <3>2. /\ IsFiniteSet(seen + 1 .. Len(counted))
            /\ Cardinality(seen + 1 .. Len(counted))
                  = IF seen + 1 > Len(counted) THEN 0 ELSE Len(counted) - (seen + 1) + 1
        BY <3>1, FS_Interval
      <3> QED BY <2>1, <3>2
    <2>4. Cardinality(Recent) <= Len(counted) - seen
      BY <2>2, <2>3, FS_Subset, ZenonT(60)
    <2>5. Len(counted) - seen >= PassiveThreshold
      BY <2>1, <2>4, RecentFinite, ThreadFacts, SMTT(30) DEF PassiveInv
    <2> QED BY <1>4, <2>5 DEF Coming
  <1>10. act[c].at # "bump" /\ act'[c].at # "bump" /\ \A p \in Threads : p # c => act'[p] = act[p]
    BY <1>4
  <1> QED BY <1>5, <1>6, <1>7, <1>8, <1>9, <1>10, MoveStep, Zenon

\* A call that finds the breaker open, or another generation, does nothing.
LEMMA LockStep ==
    ASSUME BreakerInv, PassiveInv, NEW c \in Caller, UNCHANGED <<healthy, generation, window>>,
           act[c].at = "lock", ~(healthy /\ act[c].gen = generation), act' = [act EXCEPT ![c] = Tracker!Out]
    PROVE  PassiveInv'
  <1>1. c \in Threads /\ DOMAIN act = Threads
    BY ThreadFacts DEF BreakerInv, TrackerOK
  <1>2. act'[c] = [at |-> "out"] /\ \A p \in Threads : p # c => act'[p] = act[p]
    BY <1>1 DEF Tracker!Out
  <1>3. act'[c] \in IoState /\ act'[c].at = "out"
    BY <1>2, OutState
  <1>4. CountedOK'
    <2>1. ASSUME NEW d \in Caller PROVE act'[d].at = "count" <=> act[d].at = "count"
      BY <1>2, ThreadFacts
    <2>2. Pending' = Pending
      BY <2>1, Zenon DEF Pending, Tracker!At
    <2> QED BY <2>2, Zenon DEF PassiveInv, CountedOK, window
  <1>5. ReadBy(c)' /\ (healthy => ~Coming(c))
    BY <1>3, Zenon DEF ReadBy, Coming
  <1> QED BY <1>2, <1>3, <1>4, <1>5, MoveStep, Zenon

\* The first half of ToUnhealthy.
LEMMA TripPassive ==
    ASSUME BreakerInv, PassiveInv, NEW p \in Threads, mutex = NONE,
           act[p].at # "count", UNCHANGED <<generation, window>>, healthy' = FALSE,
           act' = [act EXCEPT ![p] = [at |-> "bump"]]
    PROVE  PassiveInv'
  <1>1. act'[p] = [at |-> "bump"] /\ \A q \in Threads : q # p => act'[q] = act[q]
    BY DEF BreakerInv, TrackerOK
  <1>2. PassiveTypeOK'
    <2>1. \A c \in Caller : act'[c] \in IoState
      BY <1>1, OutState, ThreadFacts, Zenon DEF PassiveInv, PassiveTypeOK
    <2>2. act'[Loop] \in [at : {"out", "bump", "reset", "open"}]
      BY <1>1, ThreadFacts DEF PassiveInv, PassiveTypeOK
    <2> QED BY <2>1, <2>2, Zenon DEF PassiveInv, PassiveTypeOK, window
  <1>3. CountedOK'
    <2>1. ASSUME NEW d \in Caller PROVE act'[d].at = "count" <=> act[d].at = "count"
      BY <1>1, ThreadFacts
    <2>2. Pending' = Pending
      BY <2>1, Zenon DEF Pending, Tracker!At
    <2> QED BY <2>2 DEF PassiveInv, CountedOK, window
  <1>4. Recent' = Recent
    BY Zenon DEF Recent, window
  <1>5. GenerationOK'
    <2>1. Tripping'
      BY <1>1 DEF Tripping
    <2>2. \A c \in Caller : Recording(c)' => Recording(c) /\ act'[c] = act[c]
      BY <1>1, ThreadFacts, SMTT(30) DEF Recording
    <2> QED BY <2>1, <2>2, Zenon DEF PassiveInv, GenerationOK, window
  <1>6. WindowStartOK' /\ TripComing'
    BY <1>4 DEF PassiveInv, WindowStartOK, TripComing, window
  <1>7. ReadOK'
    <2>1. ASSUME NEW c \in Caller PROVE ReadBy(c)'
      <3>1. CASE c = p
        BY <1>1, <3>1, SMTT(30) DEF ReadBy
      <3>2. CASE c # p
        BY <1>1, <1>4, <3>2, ThreadFacts, Zenon DEF PassiveInv, ReadOK, ReadBy, window
      <3> QED BY <3>1, <3>2, Zenon
    <2> QED BY <2>1 DEF ReadOK
  <1> QED BY <1>2, <1>3, <1>5, <1>6, <1>7, Zenon DEF PassiveInv

\* A new generation: no failure counted so far is of it.
LEMMA GenerationStep ==
    ASSUME BreakerInv, PassiveInv, NEW p \in Threads, mutex \in {p, NONE}, UNCHANGED <<healthy, window>>,
           generation' = generation + 1, act[p].at \in {"out", "bump"},
           \/ act' = [act EXCEPT ![p] = [at |-> "out"]]
           \/ p = Loop /\ act' = [act EXCEPT ![p] = [at |-> "reset"]] /\ ~healthy
    PROVE  PassiveInv'
  <1>1. \A q \in Threads : q # p => act'[q] = act[q] /\ ~Critical(q)
    BY ThreadFacts, Zenon DEF BreakerInv, TrackerOK, MutexOK
  <1>2. \/ act'[p] = [at |-> "out"]
        \/ p = Loop /\ act'[p] = [at |-> "reset"] /\ ~healthy
    BY DEF BreakerInv, TrackerOK
  <1>3. PassiveTypeOK'
    <2>1. \A c \in Caller : act'[c] \in IoState
      BY <1>1, <1>2, OutState, ThreadFacts, ZenonT(60) DEF PassiveInv, PassiveTypeOK
    <2>2. act'[Loop] \in [at : {"out", "bump", "reset", "open"}]
      BY <1>1, <1>2, ThreadFacts DEF PassiveInv, PassiveTypeOK
    <2> QED BY <2>1, <2>2 DEF PassiveInv, PassiveTypeOK, window
  <1>4. CountedOK'
    <2>1. ASSUME NEW d \in Caller PROVE act'[d].at = "count" <=> act[d].at = "count"
      BY <1>1, <1>2, ThreadFacts, SMTT(30)
    <2>2. Pending' = Pending
      BY <2>1, Zenon DEF Pending, Tracker!At
    <2> QED BY <2>2 DEF PassiveInv, CountedOK, window
  <1>5. generation \in Nat /\ \A i \in DOMAIN counted : counted[i].gen \in Nat /\ counted[i].gen < generation'
    <2>1. generation \in Nat /\ \A i \in DOMAIN counted : counted[i] \in [gen : Nat, age : Nat]
      BY CountedFacts, Zenon DEF PassiveInv, BreakerInv, TrackerOK
    <2> QED BY <2>1 DEF PassiveInv, GenerationOK
  <1>6. Recent' = {}
    BY <1>5 DEF Recent, window
  <1>7. ASSUME NEW c \in Caller, act'[c].at \notin {"out", "bump"}
        PROVE  /\ act'[c] = act[c] /\ Recording(c)
               /\ act[c].gen \in Nat /\ act[c].gen < generation'
    <2>1. c # p
      BY <1>2, <1>7, ThreadFacts
    <2>2. act'[c] = act[c] /\ act[c] \in IoState
      BY <1>1, <2>1, ThreadFacts, Zenon DEF PassiveInv, PassiveTypeOK
    <2>3. Recording(c) /\ act[c].gen \in Nat
      BY <1>7, <2>2, Zenon DEF Recording, IoState
    <2> QED BY <1>5, <2>2, <2>3, SMTT(30) DEF PassiveInv, GenerationOK
  <1>8. GenerationOK'
    <2>1. \A c \in Caller : Recording(c)' => act'[c].gen < generation' /\ act'[c].gen \in Nat
      BY <1>7, Zenon DEF Recording
    <2>2. \A q \in Threads : Critical(q)' => ~healthy'
      BY <1>1, <1>2, SMTT(30) DEF Critical
    <2> QED BY <1>5, <2>1, <2>2, SMTT(30) DEF GenerationOK, window
  <1>9. WindowStartOK'
    BY <1>6, Zenon DEF PassiveInv, WindowStartOK, window
  <1>10. ReadOK'
    BY <1>5, <1>6, <1>7, SMTT(30) DEF PassiveInv, ReadOK, ReadBy, window
  <1>11. TripComing'
    BY <1>6, ThreadFacts, FS_EmptySet DEF TripComing
  <1> QED BY <1>3, <1>4, <1>8, <1>9, <1>10, <1>11, Zenon DEF PassiveInv

\* The steps of ToHealthy after the generation.
LEMMA HealPassive ==
    ASSUME BreakerInv, PassiveInv, Tracker!Reset(Loop) \/ Tracker!Open(Loop)
    PROVE  PassiveInv'
  <1>1. /\ act[Loop].at \in {"reset", "open"} /\ mutex = Loop /\ ~healthy
        /\ counted' = counted /\ generation' = generation
        /\ act'[Loop] \in {[at |-> "out"], [at |-> "open"]}
        /\ act'[Loop] = [at |-> "open"] => healthy' = healthy
        /\ \A q \in Threads : q # Loop => act'[q] = act[q] /\ ~Critical(q)
    BY ThreadFacts, SMTT(30)
    DEF Tracker!Reset, Tracker!Open, Tracker!At, Tracker!Out, Tracker!flags, Tracker!passive,
        BreakerInv, TrackerOK, MutexOK, Critical, PassiveInv, GenerationOK
  <1>2. /\ ~Tripping /\ generation \in Nat
        /\ \A i \in DOMAIN counted : counted[i].gen < generation /\ counted[i].gen \in Nat
        /\ \A c \in Caller : Recording(c) => act[c].gen < generation /\ act[c].gen \in Nat
    <2>1. ~Tripping /\ generation \in Nat
      BY <1>1, ThreadFacts, Zenon DEF Tripping, Critical, BreakerInv, TrackerOK
    <2>2. \A i \in DOMAIN counted : counted[i] \in [gen : Nat, age : Nat]
      BY CountedFacts DEF PassiveInv
    <2>3. \A c \in Caller : Recording(c) => act[c].gen \in Nat
      BY ZenonT(60) DEF PassiveInv, PassiveTypeOK, IoState, Recording
    <2> QED BY <1>1, <2>1, <2>2, <2>3, Zenon DEF PassiveInv, GenerationOK
  <1>3. Recent = {} /\ Recent' = {}
    BY <1>1, <1>2, SMTT(30) DEF Recent
  <1>4. \A c \in Caller : act'[c] = act[c]
    BY <1>1, ThreadFacts, Zenon
  <1>5. /\ Len(counted) \in Nat /\ base \in Nat /\ resetAt \in Nat
        /\ snapshots \in Seq([age : Nat, failures : Nat])
    BY RecentFinite, Zenon DEF PassiveInv, PassiveTypeOK
  <1>6. /\ base' \in Nat /\ resetAt' \in Nat /\ snapshots' \in Seq([age : Nat, failures : Nat])
        /\ WindowStartOK'
    <2>1. CASE Tracker!Reset(Loop)
      <3>1. base' = Len(counted) /\ resetAt' = Len(counted) /\ snapshots' = <<>>
        BY <2>1, Zenon DEF Tracker!Reset, Tracker!Total
      <3> QED BY <1>1, <1>3, <1>5, <3>1, SMTT(30) DEF WindowStartOK
    <2>2. CASE Tracker!Open(Loop)
      BY <1>1, <1>3, <1>5, <2>2, Zenon DEF Tracker!Open, Tracker!passive, WindowStartOK, PassiveInv
    <2> QED BY <2>1, <2>2, Zenon
  <1>7. PassiveTypeOK'
    <2>1. act'[Loop] \in [at : {"out", "bump", "reset", "open"}]
      BY <1>1
    <2> QED BY <1>1, <1>4, <1>6, <2>1, Zenon DEF PassiveInv, PassiveTypeOK
  <1>8. CountedOK'
    <2>1. Pending' = Pending
      BY <1>4, Zenon DEF Pending, Tracker!At
    <2> QED BY <1>1, <2>1, Zenon DEF PassiveInv, CountedOK
  <1>9. GenerationOK'
    <2>1. \A q \in Threads : Critical(q)' => ~healthy'
      BY <1>1 DEF Critical
    <2> QED BY <1>1, <1>2, <1>4, <2>1, SMTT(30) DEF GenerationOK, Recording
  <1>10. ReadOK'
    <2>1. ASSUME NEW c \in Caller PROVE ReadBy(c)'
      <3>1. act'[c].at \in {"more", "lock"} => act'[c].gen # generation' /\ act'[c] = act[c]
        BY <1>1, <1>2, <1>4 DEF Recording
      <3> QED BY <1>1, <1>3, <1>4, <3>1, Zenon DEF ReadBy, PassiveInv, ReadOK
    <2> QED BY <2>1, Zenon DEF ReadOK
  <1>11. TripComing'
    BY <1>3, ThreadFacts, FS_EmptySet DEF TripComing
  <1> QED BY <1>6, <1>7, <1>8, <1>9, <1>10, <1>11, Zenon DEF PassiveInv

\* A failure is counted.
LEMMA CountStep ==
    ASSUME BreakerInv, PassiveInv, NEW c \in Caller, Tracker!Count(c)
    PROVE  PassiveInv'
  <1>1. /\ UNCHANGED <<healthy, generation, base, snapshots, resetAt>> /\ act[c].at = "count"
        /\ counted' = Append(counted, [gen |-> act[c].gen, age |-> 0])
        /\ act' = [act EXCEPT ![c].at = "stats"]
    BY DEF Tracker!Count, Tracker!flags, Tracker!At
  <1>2. act[c] \in [at : {"count", "stats", "more", "lock"}, gen : Nat, lag : Nat, seen : Nat]
    BY <1>1, Zenon DEF PassiveInv, PassiveTypeOK, IoState
  <1>3. /\ act'[c] = [at |-> "stats", gen |-> act[c].gen, lag |-> act[c].lag, seen |-> act[c].seen]
        /\ \A p \in Threads : p # c => act'[p] = act[p]
    <2>1. c \in Threads /\ DOMAIN act = Threads
      BY ThreadFacts, Zenon DEF BreakerInv, TrackerOK
    <2> QED BY <1>1, <1>2, <2>1, IoRecord, Zenon
  <1> DEFINE n == Len(counted)
             e == [gen |-> act[c].gen, age |-> 0]
  <1>4. /\ counted' \in Seq([gen : Nat, age : Nat]) /\ Len(counted') = n + 1 /\ n \in Nat
        /\ \A i \in 1 .. n : counted'[i] = counted[i]
        /\ counted'[n + 1] = e
        /\ DOMAIN counted = 1 .. n /\ DOMAIN counted' = 1 .. n + 1
    <2>1. e \in [gen : Nat, age : Nat] /\ counted \in Seq([gen : Nat, age : Nat])
      BY <1>2 DEF PassiveInv, PassiveTypeOK
    <2>2. counted' = Append(counted, e)
      BY <1>1, Zenon
    <2> HIDE DEF e
    <2>3. /\ counted' \in Seq([gen : Nat, age : Nat]) /\ Len(counted') = n + 1
          /\ \A i \in 1 .. n : counted'[i] = counted[i]
          /\ counted'[n + 1] = e
      BY <2>1, <2>2
    <2> QED BY <2>1, <2>3, SMTT(30)
  <1>5. PassiveTypeOK'
    <2>1. act'[c] \in IoState
      BY <1>2, <1>3, SMTT(30) DEF IoState
    <2> QED BY <1>1, <1>3, <1>4, <2>1, ThreadFacts, ZenonT(60) DEF PassiveInv, PassiveTypeOK
  <1>6. CountedOK'
    <2>1. Pending' = Pending \ {c} /\ c \in Pending
      <3>1. ASSUME NEW d \in Caller PROVE act'[d].at = "count" <=> act[d].at = "count" /\ d # c
        BY <1>3, ThreadFacts
      <3> QED BY <1>1, <3>1, Zenon DEF Pending, Tracker!At
    <2>2. Cardinality(Pending') = Cardinality(Pending) - 1
      BY <2>1, PendingFinite, FS_RemoveElement, Zenon
    <2> QED BY <1>4, <2>2, PendingFinite, ThreadFacts, SMTT(30) DEF PassiveInv, CountedOK
  <1>7. Recent' = Recent \cup (IF act[c].gen = generation THEN {n + 1} ELSE {})
    BY <1>1, <1>4, ThreadFacts, SMTT(30) DEF Recent
  <1>8. \A i \in 1 .. n : i \in Recent' <=> i \in Recent
    BY <1>4, <1>7
  <1>9. GenerationOK'
    <2>1. Tripping' <=> Tripping
      BY <1>1, <1>3, SMTT(30) DEF Tripping
    <2>2. \A p \in Threads : Critical(p)' => Critical(p)
      BY <1>3 DEF Critical
    <2>3. \A d \in Caller : Recording(d)' => Recording(d) /\ act'[d].gen = act[d].gen
      BY <1>1, <1>3, ThreadFacts, SMTT(30) DEF Recording
    <2>4. Recording(c)
      BY <1>1, Zenon DEF Recording
    <2>5. \A i \in DOMAIN counted' :
             /\ counted'[i].gen <= generation
             /\ ~healthy /\ ~Tripping => counted'[i].gen < generation
      BY <1>4, <2>4, SMTT(30) DEF PassiveInv, GenerationOK
    <2> QED BY <1>1, <2>1, <2>2, <2>3, <2>5, Zenon DEF PassiveInv, GenerationOK
  <1>10. WindowStartOK'
    <2>1. resetAt <= base /\ base <= n /\ base \in Nat /\ resetAt \in Nat
      BY Zenon DEF PassiveInv, WindowStartOK, PassiveTypeOK
    <2>2. \A i \in 1 .. base : i \notin Recent'
      BY <1>4, <1>8, <2>1, SMTT(30) DEF PassiveInv, WindowStartOK
    <2>3. \A k \in DOMAIN snapshots : snapshots[k] \in [age : Nat, failures : Nat]
      BY SnapshotFacts, Zenon DEF PassiveInv
    <2>4. \A k \in DOMAIN snapshots :
          /\ resetAt <= snapshots[k].failures /\ snapshots[k].failures <= n + 1
          /\ \A i \in 1 .. snapshots[k].failures : counted'[i].age >= snapshots[k].age
      BY <1>4, <2>3, SMTT(30) DEF PassiveInv, WindowStartOK
    <2>5. \A j, k \in DOMAIN snapshots : j <= k => snapshots[k].age <= snapshots[j].age
      BY Zenon DEF PassiveInv, WindowStartOK
    <2>6. base <= n + 1
      BY <1>4, <2>1
    <2> QED BY <1>1, <1>4, <2>1, <2>2, <2>4, <2>5, <2>6, Zenon DEF WindowStartOK
  <1>11. ReadOK'
    <2>1. ASSUME NEW d \in Caller PROVE ReadBy(d)'
      <3>1. CASE d = c
        BY <1>3, <3>1 DEF ReadBy
      <3>2. CASE d # c
        <4>1. act'[d] = act[d] /\ ReadBy(d) /\ act[d] \in IoState /\ resetAt \in Nat
          BY <1>3, <3>2, ThreadFacts, Zenon DEF PassiveInv, ReadOK, PassiveTypeOK
        <4>2. act[d].at = "more" => act[d].seen \in Nat
          BY <4>1, Zenon DEF IoState
        <4>3. act[d].at = "more" => act[d].seen <= n + 1 /\ \A i \in 1 .. act[d].seen : i \notin Recent'
          <5>1. act[d].at = "more" => act[d].seen <= n /\ \A i \in 1 .. act[d].seen : i \notin Recent
            BY <4>1, Zenon DEF ReadBy
          <5>2. act[d].at = "more" => \A i \in 1 .. act[d].seen : i \in 1 .. n
            BY <1>4, <4>2, <5>1, SMTT(30)
          <5>3. act[d].at = "more" => act[d].seen <= n + 1
            BY <1>4, <4>2, <5>1, SMTT(30)
          <5> QED BY <1>8, <5>1, <5>2, <5>3, Zenon
        <4>4. act[d].at = "lock" /\ act[d].gen = generation => (n + 1) - resetAt >= PassiveThreshold
          BY <1>4, <4>1, ThreadFacts DEF ReadBy
        <4> QED BY <1>1, <1>4, <4>1, <4>3, <4>4, Zenon DEF ReadBy
      <3> QED BY <3>1, <3>2, Zenon
    <2> QED BY <2>1 DEF ReadOK
  <1>12. TripComing'
    <2>1. CASE act[c].gen = generation
      BY <1>1, <1>3, <2>1 DEF TripComing, Coming
    <2>2. CASE act[c].gen # generation
      <3>1. Recent' = Recent /\ ~Coming(c)
        BY <1>7, <2>2, Zenon DEF Coming
      <3> QED BY <1>1, <1>3, <3>1, ThreadFacts, Zenon DEF PassiveInv, TripComing, Coming
    <2> QED BY <2>1, <2>2, Zenon
  <1> QED BY <1>5, <1>6, <1>9, <1>10, <1>11, <1>12, Zenon DEF PassiveInv

\* The first of an ordered sequence that are old are as many as there are.
LEMMA OldPrefix ==
    ASSUME NEW n \in Nat, NEW old \in SUBSET (1 .. n),
           \A i \in 1 .. n, j \in old : i <= j => i \in old
    PROVE  Cardinality(old) \in 0 .. n /\ old = 1 .. Cardinality(old)
  <1>1. IsFiniteSet(1 .. n) /\ Cardinality(1 .. n) = n
    BY FS_Interval
  <1>2. IsFiniteSet(old) /\ Cardinality(old) \in Nat /\ Cardinality(old) <= n
    BY <1>1, FS_Subset, FS_CardinalityType, Zenon
  <1> DEFINE k == Cardinality(old)
  <1>3. k \in Nat /\ k <= n /\ k = Cardinality(old)
    BY <1>2, Zenon
  <1> HIDE DEF k
  <1>4. \A j \in old : j <= k
    <2> SUFFICES ASSUME NEW j \in old PROVE j <= k
      OBVIOUS
    <2>1. 1 .. j \in SUBSET old /\ j \in Nat
      OBVIOUS
    <2>2. Cardinality(1 .. j) = j
      BY <2>1, FS_Interval
    <2>3. Cardinality(1 .. j) <= Cardinality(old)
      BY <1>2, <2>1, FS_Subset, Zenon
    <2> QED BY <1>3, <2>2, <2>3, Zenon
  <1>5. ASSUME NEW j \in 1 .. k PROVE j \in old
    <2> SUFFICES ASSUME j \notin old PROVE FALSE
      OBVIOUS
    <2>1. j - 1 \in Nat /\ j \in 1 .. n
      BY <1>3
    <2>2. old \in SUBSET (1 .. j - 1)
      BY <1>3, <2>1
    <2>3. IsFiniteSet(1 .. j - 1) /\ Cardinality(1 .. j - 1) = j - 1
      BY <2>1, FS_Interval
    <2>4. Cardinality(old) <= Cardinality(1 .. j - 1)
      BY <2>2, <2>3, FS_Subset, ZenonT(60)
    <2> QED BY <1>3, <2>1, <2>3, <2>4
  <1>6. \A j \in old : j \in 1 .. k
    BY <1>3, <1>4
  <1>7. old = 1 .. k
    BY <1>5, <1>6, Zenon
  <1> QED BY <1>3, <1>7

\* UpdateWindowStart: what leaves the window is older than it.
LEMMA SampleStep ==
    ASSUME BreakerInv, PassiveInv, Tracker!SamplePassiveWindow
    PROVE  PassiveInv'
  <1> DEFINE e == [age |-> 0, failures |-> Len(counted)]
             taken == Append(snapshots, e)
             n == Len(snapshots) + 1
             old == {i \in 1 .. Len(taken) : taken[i].age >= PassiveWindow}
             k == Cardinality(old)
  <1>1. /\ UNCHANGED <<healthy, generation, counted, resetAt, act>>
        /\ base' = IF old = {} THEN base ELSE taken[k].failures
        /\ snapshots' = SubSeq(taken, k + 1, Len(taken))
    BY Zenon DEF Tracker!SamplePassiveWindow, Tracker!UpdateWindowStart, Tracker!Total, Tracker!flags,
           Tracker!Cardinality, Cardinality
  <1>2. Len(counted) \in Nat /\ Len(snapshots) \in Nat
    BY RecentFinite, SnapshotFacts, Zenon DEF PassiveInv
  <1>3. e \in [age : Nat, failures : Nat] /\ e.age = 0 /\ e.failures = Len(counted)
    BY <1>2, Zenon
  <1> HIDE DEF e
  <1>4. /\ taken \in Seq([age : Nat, failures : Nat]) /\ Len(taken) = n
        /\ \A i \in 1 .. Len(snapshots) : taken[i] = snapshots[i]
        /\ taken[n] = e
    BY <1>3 DEF PassiveInv, PassiveTypeOK
  <1>0. old = {i \in 1 .. Len(taken) : taken[i].age >= PassiveWindow}
    OBVIOUS
  <1> HIDE DEF taken, old
  <1>5. \A i \in 1 .. n : taken[i] \in [age : Nat, failures : Nat]
    BY <1>4, ElementOf, ZenonT(60)
  <1>6. \A i, j \in 1 .. n : i <= j => taken[j].age <= taken[i].age
    <2> SUFFICES ASSUME NEW i \in 1 .. n, NEW j \in 1 .. n, i <= j PROVE taken[j].age <= taken[i].age
      BY Zenon
    <2>1. CASE j = n
      <3>1. taken[j].age = 0 /\ taken[i].age \in Nat
        BY <1>3, <1>4, <1>5, <2>1, Zenon
      <3> QED BY <3>1
    <2>2. CASE j # n
      <3>1. i \in 1 .. Len(snapshots) /\ j \in 1 .. Len(snapshots)
        BY <1>2, <2>2, SMTT(30)
      <3> QED BY <1>4, <3>1, SnapshotFacts, ZenonT(60) DEF PassiveInv, WindowStartOK
    <2> QED BY <2>1, <2>2, Zenon
  <1>7. \A i \in 1 .. n : /\ resetAt <= taken[i].failures /\ taken[i].failures <= Len(counted)
                          /\ \A j \in 1 .. taken[i].failures : counted[j].age >= taken[i].age
    <2> SUFFICES ASSUME NEW i \in 1 .. n
                 PROVE  /\ resetAt <= taken[i].failures /\ taken[i].failures <= Len(counted)
                        /\ \A j \in 1 .. taken[i].failures : counted[j].age >= taken[i].age
      BY Zenon
    <2>1. CASE i = n
      <3>1. taken[i].age = 0 /\ taken[i].failures = Len(counted)
        BY <1>3, <1>4, <2>1, Zenon
      <3>2. \A j \in 1 .. Len(counted) : counted[j].age >= 0
        BY CountedFacts, SMTT(30) DEF PassiveInv
      <3>3. resetAt <= Len(counted)
        BY <1>2 DEF PassiveInv, WindowStartOK, PassiveTypeOK
      <3> QED BY <1>2, <3>1, <3>2, <3>3, SMTT(30)
    <2>2. CASE i # n
      <3>1. i \in DOMAIN snapshots /\ taken[i] = snapshots[i]
        BY <1>2, <1>4, <2>2, SnapshotFacts, SMTT(30) DEF PassiveInv
      <3> QED BY <3>1, Zenon DEF PassiveInv, WindowStartOK
    <2> QED BY <2>1, <2>2, Zenon
  <1>8. k \in 0 .. n /\ old = 1 .. k
    <2>1. n \in Nat /\ old \in SUBSET (1 .. n)
      BY <1>2, <1>4, <1>0, SMTT(30)
    <2>2. \A i \in 1 .. n, j \in old : i <= j => i \in old
      <3> SUFFICES ASSUME NEW i \in 1 .. n, NEW j \in old, i <= j PROVE i \in old
        OBVIOUS
      <3>1. j \in 1 .. n /\ taken[j].age >= PassiveWindow
        BY <1>0, <2>1, Zenon
      <3>2. taken[j].age <= taken[i].age /\ taken[i].age \in Nat /\ taken[j].age \in Nat
        BY <1>5, <1>6, <3>1, Zenon
      <3> QED BY <1>4, <1>0, <3>1, <3>2, ThreadFacts, SMTT(30)
    <2> QED BY <2>1, <2>2, OldPrefix, Zenon
  <1>9. \A i \in old : i \in 1 .. n /\ taken[i].age >= PassiveWindow
    BY <1>4, <1>0, Zenon
  <1> HIDE DEF k
  <1>10. /\ snapshots' \in Seq([age : Nat, failures : Nat]) /\ Len(snapshots') = n - k
         /\ DOMAIN snapshots' = 1 .. n - k
         /\ \A i \in 1 .. n - k : snapshots'[i] = taken[k + i] /\ k + i \in 1 .. n
    <2>1. snapshots' = SubSeq(taken, k + 1, n) /\ k + 1 \in Int /\ n \in Int
      BY <1>1, <1>2, <1>4, <1>8, SMTT(30)
    <2>2. \A i \in k + 1 .. n : taken[i] \in [age : Nat, failures : Nat]
      BY <1>2, <1>5, <1>8, SMTT(30)
    <2>3. /\ snapshots' \in Seq([age : Nat, failures : Nat])
          /\ Len(snapshots') = IF k + 1 <= n THEN n - (k + 1) + 1 ELSE 0
          /\ \A i \in 1 .. n - (k + 1) + 1 : snapshots'[i] = taken[k + 1 + i - 1]
      BY <2>1, <2>2
    <2>4. \A i \in 1 .. n - k : k + 1 + i - 1 = k + i /\ k + i \in 1 .. n
      BY <1>2, <1>8
    <2>5. Len(snapshots') = n - k /\ n - (k + 1) + 1 = n - k
      BY <1>2, <1>8, <2>3, SMTT(30)
    <2>6. DOMAIN snapshots' = 1 .. n - k
      BY <2>3, <2>5, SMTT(30)
    <2> QED BY <2>3, <2>4, <2>5, <2>6, Zenon
  <1>11. Recent' = Recent
    BY <1>1 DEF Recent
  <1>12. /\ base' \in Nat /\ resetAt <= base' /\ base' <= Len(counted)
         /\ \A i \in 1 .. base' : i \notin Recent
    <2>1. CASE old = {}
      BY <1>1, <2>1, Zenon DEF PassiveInv, PassiveTypeOK, WindowStartOK
    <2>2. CASE old # {}
      <3>1. k \in old
        BY <1>8, <2>2, SMTT(30)
      <3>2. k \in 1 .. n /\ taken[k].age >= PassiveWindow /\ base' = taken[k].failures
        BY <1>1, <1>9, <2>2, <3>1, ZenonT(60)
      <3>3. taken[k].age \in Nat /\ base' \in Nat
        BY <1>5, <3>2, Zenon
      <3>4. resetAt <= base' /\ base' <= Len(counted) /\ \A j \in 1 .. base' : counted[j].age >= taken[k].age
        BY <1>7, <3>2, Zenon
      <3>5. \A j \in 1 .. base' : j \in 1 .. Len(counted)
        BY <1>2, <3>3, <3>4, SMTT(30)
      <3>6. \A j \in 1 .. Len(counted) : counted[j].age \in Nat
        BY CountedFacts, Zenon DEF PassiveInv
      <3>7. \A j \in 1 .. base' : ~(counted[j].age < PassiveWindow)
        BY <3>2, <3>3, <3>4, <3>5, <3>6, ThreadFacts, SMTT(30)
      <3> QED BY <3>3, <3>4, <3>7, Zenon DEF Recent
    <2> QED BY <2>1, <2>2, Zenon
  <1>13. WindowStartOK'
    <2>1. \A i, j \in 1 .. n - k : i <= j => snapshots'[j].age <= snapshots'[i].age
      <3> SUFFICES ASSUME NEW i \in 1 .. n - k, NEW j \in 1 .. n - k, i <= j
                   PROVE  snapshots'[j].age <= snapshots'[i].age
        OBVIOUS
      <3>1. k + i <= k + j
        BY <1>8
      <3> QED BY <1>6, <1>10, <3>1, ZenonT(60)
    <2>2. \A i \in 1 .. n - k :
             /\ resetAt <= snapshots'[i].failures /\ snapshots'[i].failures <= Len(counted)
             /\ \A j \in 1 .. snapshots'[i].failures : counted[j].age >= snapshots'[i].age
      BY <1>7, <1>10, ZenonT(60)
    <2> QED BY <1>1, <1>10, <1>11, <1>12, <2>1, <2>2, ZenonT(60) DEF WindowStartOK
  <1>14. PassiveTypeOK'
    BY <1>1, <1>10, <1>12, Zenon DEF PassiveInv, PassiveTypeOK
  <1>15. CountedOK' /\ GenerationOK' /\ TripComing'
    BY <1>1, <1>11, Zenon
    DEF PassiveInv, CountedOK, GenerationOK, TripComing, Pending, Tracker!At, Recording, Tripping, Critical, Coming
  <1>16. ReadOK'
    BY <1>1, <1>11, Zenon DEF PassiveInv, ReadOK, ReadBy
  <1> QED BY <1>13, <1>14, <1>15, <1>16, Zenon DEF PassiveInv

\* A function on 1 .. n is a sequence.
LEMMA FunctionIsSeq ==
    ASSUME NEW S, NEW n \in Nat, NEW f \in [1 .. n -> S]
    PROVE  f \in Seq(S)
  <1>1. [1 .. n -> S] \in {[1 .. k -> S] : k \in Nat}
    OBVIOUS
  <1>2. f \in UNION {[1 .. k -> S] : k \in Nat}
    BY <1>1, Zenon
  <1> QED BY <1>2

\* Time passes: a failure leaves the window, none enters it.
LEMMA TickStep ==
    ASSUME BreakerInv, PassiveInv, Tracker!Tick
    PROVE  PassiveInv'
  <1>1. /\ UNCHANGED <<healthy, generation, base, resetAt>> /\ mutex = NONE
        /\ act' = [p \in Threads |-> IF act[p].at # "out" THEN [act[p] EXCEPT !.lag = @ + 1] ELSE act[p]]
        /\ snapshots' = [i \in DOMAIN snapshots |->
              [snapshots[i] EXCEPT !.age = Tracker!Older(@, PassiveWindow)]]
        /\ counted' = [i \in DOMAIN counted |-> [counted[i] EXCEPT !.age = Tracker!Older(@, PassiveWindow)]]
    BY DEF Tracker!Tick, Tracker!flags, Tracker!Lagging, Tracker!At, Tracker!Thread, Threads
  <1>2. \A p \in Threads : ~Critical(p)
    BY <1>1, ThreadFacts DEF BreakerInv, MutexOK
  <1>3. act'[Loop] = act[Loop] /\ act[Loop].at = "out"
    <2>1. act[Loop].at = "out"
      BY <1>2, ThreadFacts, Zenon DEF Critical, PassiveInv, PassiveTypeOK
    <2> QED BY <1>1, <2>1, ThreadFacts, Zenon
  <1>4. ASSUME NEW c \in Caller
        PROVE  /\ act'[c].at = act[c].at /\ act'[c] \in IoState
               /\ act'[c].at # "out" => act'[c].gen = act[c].gen /\ act'[c].seen = act[c].seen
    <2>1. CASE act[c].at = "out"
      BY <1>1, <2>1, ThreadFacts, ZenonT(60) DEF PassiveInv, PassiveTypeOK
    <2>2. CASE act[c].at # "out"
      <3>1. act[c] \in [at : {"count", "stats", "more", "lock"}, gen : Nat, lag : Nat, seen : Nat]
        BY <1>2, <2>2, ThreadFacts, Zenon DEF Critical, PassiveInv, PassiveTypeOK, IoState
      <3>2. act'[c] = [at |-> act[c].at, gen |-> act[c].gen, lag |-> act[c].lag + 1, seen |-> act[c].seen]
        BY <1>1, <2>2, <3>1, IoRecord, ThreadFacts, Zenon
      <3> QED BY <3>1, <3>2 DEF IoState
    <2> QED BY <2>1, <2>2, Zenon
  <1> DEFINE n == Len(counted)
             m == Len(snapshots)
  <1>5. n \in Nat /\ DOMAIN counted = 1 .. n /\ m \in Nat /\ DOMAIN snapshots = 1 .. m
    BY RecentFinite, SnapshotFacts, Zenon DEF PassiveInv
  <1>6. \A i \in 1 .. n : /\ counted'[i] \in [gen : Nat, age : Nat] /\ counted'[i].gen = counted[i].gen
                          /\ counted'[i].age = Tracker!Older(counted[i].age, PassiveWindow)
    <2> SUFFICES ASSUME NEW i \in 1 .. n
                 PROVE  /\ counted'[i] \in [gen : Nat, age : Nat] /\ counted'[i].gen = counted[i].gen
                        /\ counted'[i].age = Tracker!Older(counted[i].age, PassiveWindow)
      BY Zenon
    <2>1. counted[i] \in [gen : Nat, age : Nat] /\ Tracker!Older(counted[i].age, PassiveWindow) \in Nat
      BY CountedFacts, ThreadFacts DEF PassiveInv, Tracker!Older, Tracker!Least
    <2>2. counted'[i] = [counted[i] EXCEPT !.age = Tracker!Older(@, PassiveWindow)]
      BY <1>1, <1>5, Zenon
    <2> QED BY <2>1, <2>2, Zenon
  <1>7. \A i \in 1 .. m : /\ snapshots'[i] \in [age : Nat, failures : Nat]
                          /\ snapshots'[i].failures = snapshots[i].failures
                          /\ snapshots'[i].age = Tracker!Older(snapshots[i].age, PassiveWindow)
    <2> SUFFICES ASSUME NEW i \in 1 .. m
                 PROVE  /\ snapshots'[i] \in [age : Nat, failures : Nat]
                        /\ snapshots'[i].failures = snapshots[i].failures
                        /\ snapshots'[i].age = Tracker!Older(snapshots[i].age, PassiveWindow)
      BY Zenon
    <2>1. /\ snapshots[i] \in [age : Nat, failures : Nat]
          /\ Tracker!Older(snapshots[i].age, PassiveWindow) \in Nat
      BY SnapshotFacts, ThreadFacts DEF PassiveInv, Tracker!Older, Tracker!Least
    <2>2. snapshots'[i] = [snapshots[i] EXCEPT !.age = Tracker!Older(@, PassiveWindow)]
      BY <1>1, <1>5, Zenon
    <2> QED BY <2>1, <2>2, Zenon
  <1>8. /\ counted' \in Seq([gen : Nat, age : Nat]) /\ Len(counted') = n /\ DOMAIN counted' = 1 .. n
        /\ snapshots' \in Seq([age : Nat, failures : Nat]) /\ DOMAIN snapshots' = 1 .. m
    <2>1. counted' \in [1 .. n -> [gen : Nat, age : Nat]] /\ snapshots' \in [1 .. m -> [age : Nat, failures : Nat]]
      BY <1>1, <1>5, <1>6, <1>7, Zenon
    <2>2. counted' \in Seq([gen : Nat, age : Nat]) /\ snapshots' \in Seq([age : Nat, failures : Nat])
      <3>1. \A f \in [1 .. n -> [gen : Nat, age : Nat]] : f \in Seq([gen : Nat, age : Nat])
        BY <1>5, FunctionIsSeq, Zenon
      <3>2. \A f \in [1 .. m -> [age : Nat, failures : Nat]] : f \in Seq([age : Nat, failures : Nat])
        BY <1>5, FunctionIsSeq, Zenon
      <3> QED BY <2>1, <3>1, <3>2, Zenon
    <2>3. Len(counted') \in Nat /\ 1 .. Len(counted') = 1 .. n
      BY <2>1, <2>2
    <2>4. Len(counted') = n
      BY <1>5, <2>3
    <2> QED BY <2>1, <2>2, <2>4, Zenon
  <1>9. \A a, b \in Nat : a <= b => Tracker!Older(a, PassiveWindow) <= Tracker!Older(b, PassiveWindow)
    BY ThreadFacts DEF Tracker!Older, Tracker!Least
  <1>10. Recent' \subseteq Recent
    <2>1. \A a \in Nat : Tracker!Older(a, PassiveWindow) < PassiveWindow => a < PassiveWindow
      BY ThreadFacts DEF Tracker!Older, Tracker!Least
    <2>2. \A i \in 1 .. n : counted[i].age \in Nat
      BY CountedFacts DEF PassiveInv
    <2> QED BY <1>1, <1>5, <1>6, <1>8, <2>1, <2>2, ZenonT(60) DEF Recent
  <1>11. PassiveTypeOK'
    BY <1>1, <1>3, <1>4, <1>8, ZenonT(60) DEF PassiveInv, PassiveTypeOK
  <1>12. CountedOK'
    <2>1. Pending' = Pending
      BY <1>4, Zenon DEF Pending, Tracker!At
    <2> QED BY <1>8, <2>1, Zenon DEF PassiveInv, CountedOK
  <1>13. GenerationOK'
    <2>1. \A p \in Threads : act'[p].at = act[p].at
      BY <1>3, <1>4, ThreadFacts, Zenon
    <2>2. Tripping' <=> Tripping
      BY <2>1, Zenon DEF Tripping
    <2>3. \A p \in Threads : Critical(p)' => Critical(p)
      BY <2>1, Zenon DEF Critical
    <2>4. \A c \in Caller : Recording(c)' => Recording(c) /\ act'[c].gen = act[c].gen
      BY <1>4, Zenon DEF Recording
    <2>5. \A i \in DOMAIN counted' : i \in DOMAIN counted /\ counted'[i].gen = counted[i].gen
      BY <1>5, <1>6, <1>8, ZenonT(60)
    <2> QED BY <1>1, <2>2, <2>3, <2>4, <2>5, ZenonT(60) DEF PassiveInv, GenerationOK
  <1>14. WindowStartOK'
    <2>1. \A i, j \in 1 .. m : i <= j => snapshots'[j].age <= snapshots'[i].age
      <3>1. \A i, j \in 1 .. m : i <= j => /\ snapshots[j].age <= snapshots[i].age
                                           /\ snapshots[j].age \in Nat /\ snapshots[i].age \in Nat
        BY <1>5, SnapshotFacts, Zenon DEF PassiveInv, WindowStartOK
      <3> QED BY <1>7, <1>9, <3>1, ZenonT(60)
    <2>2. \A i \in 1 .. m : /\ resetAt <= snapshots[i].failures /\ snapshots[i].failures <= n
                            /\ snapshots[i].failures \in Nat /\ snapshots[i].age \in Nat
                            /\ \A j \in 1 .. snapshots[i].failures :
                                  counted[j].age >= snapshots[i].age /\ j \in 1 .. n
      BY <1>5, SnapshotFacts, SMTT(30) DEF PassiveInv, WindowStartOK
    <2>3. \A i \in 1 .. m : \A j \in 1 .. snapshots'[i].failures : counted'[j].age >= snapshots'[i].age
      <3> SUFFICES ASSUME NEW i \in 1 .. m, NEW j \in 1 .. snapshots'[i].failures
                   PROVE  counted'[j].age >= snapshots'[i].age
        BY Zenon
      <3>1. j \in 1 .. n /\ snapshots[i].age <= counted[j].age /\ snapshots[i].age \in Nat
        BY <1>7, <2>2, Zenon
      <3>2. counted[j].age \in Nat
        BY <3>1, CountedFacts, Zenon DEF PassiveInv
      <3> QED BY <1>6, <1>7, <1>9, <3>1, <3>2, Zenon
    <2>4. resetAt <= base /\ base <= n /\ \A i \in 1 .. base : i \notin Recent'
      BY <1>10, Zenon DEF PassiveInv, WindowStartOK
    <2>5. \A i \in 1 .. m : resetAt <= snapshots'[i].failures /\ snapshots'[i].failures <= n
      BY <1>7, <2>2, Zenon
    <2> QED BY <1>1, <1>8, <2>1, <2>3, <2>4, <2>5, ZenonT(60) DEF WindowStartOK
  <1>15. ReadOK'
    BY <1>1, <1>4, <1>8, <1>10, ZenonT(60) DEF PassiveInv, ReadOK, ReadBy
  <1>16. TripComing'
    <2>1. Cardinality(Recent') <= Cardinality(Recent) /\ Cardinality(Recent') \in Nat /\ Cardinality(Recent) \in Nat
      BY <1>10, RecentFinite, FS_CardinalityType, Zenon DEF PassiveInv
    <2>2. Cardinality(Recent') >= PassiveThreshold => Cardinality(Recent) >= PassiveThreshold
      BY <2>1, ThreadFacts
    <2> QED BY <1>1, <1>4, <2>2, ZenonT(60) DEF PassiveInv, TripComing, Coming
  <1> QED BY <1>11, <1>12, <1>13, <1>14, <1>15, <1>16, ZenonT(60) DEF PassiveInv

\* PassiveInv is inductive relative to BreakerInv.
LEMMA PassiveNext ==
    ASSUME BreakerInv, PassiveInv, [Next]_vars
    PROVE  PassiveInv'
  <1>1. ASSUME UNCHANGED <<healthy, generation, act, window>> PROVE PassiveInv'
    BY <1>1, PassiveSame, Zenon
  <1>2. ASSUME NEW c \in Caller, Return(c) PROVE PassiveInv'
    <2>1. CASE UNCHANGED tracker
      BY <1>1, <2>1, Zenon DEF tracker, window
    <2>2. CASE /\ up \/ Len(counted) + Cardinality(Pending) < MaxFailures
               /\ Tracker!RecordIo(c, io[c].gen, up)
      <3>1. up \in BOOLEAN
        BY DEF BreakerInv, CheckOK
      <3> QED BY <2>2, <3>1, RecordIoStep, Zenon
    <2> QED BY <1>2, <2>1, <2>2, Zenon DEF Return
  <1>3. ASSUME NEW p \in Threads, Tracker!Bump(p) PROVE PassiveInv'
    <2>1. /\ act[p].at = "bump" /\ act' = [act EXCEPT ![p] = [at |-> "out"]]
          /\ UNCHANGED <<healthy, window>> /\ generation' = generation + 1
      BY <1>3, Zenon DEF Tracker!Bump, Tracker!At, Tracker!Out, Tracker!passive, window
    <2>2. mutex \in {p, NONE}
      BY <2>1, Zenon DEF BreakerInv, MutexOK, Critical
    <2> QED BY <2>1, <2>2, GenerationStep, Zenon
  <1>4. ASSUME NEW c \in Caller, RecordPassiveResult(c) PROVE PassiveInv'
    <2>1. c \in Threads
      BY ThreadFacts
    <2>2. CASE Tracker!Count(c)
      BY <2>2, CountStep, Zenon
    <2>3. CASE Tracker!GetStats(c)
      <3>1. UNCHANGED <<healthy, generation, window>>
        BY <2>3 DEF Tracker!GetStats, Tracker!flags, Tracker!passive, window
      <3> QED BY <2>3, <3>1, StatsStep, TotalStep, ZenonT(60) DEF Tracker!GetStats, Tracker!At
    <2>4. CASE Tracker!LockAndTrip(c)
      <3>1. act[c].at = "lock" /\ mutex = NONE /\ UNCHANGED window
        BY <2>4 DEF Tracker!LockAndTrip, Tracker!At, Tracker!passive, window
      <3>2. CASE healthy /\ act[c].gen = generation
        <4>1. Tracker!Trip(c, act[c].lag)
          BY <2>4, <3>2, Zenon DEF Tracker!LockAndTrip, Tracker!Stale
        <4>2. /\ UNCHANGED generation /\ healthy' = FALSE /\ act' = [act EXCEPT ![c] = [at |-> "bump"]]
          BY <4>1 DEF Tracker!Trip
        <4> QED BY <2>1, <3>1, <4>2, TripPassive, Zenon
      <3>3. CASE ~(healthy /\ act[c].gen = generation)
        <4>1. act' = [act EXCEPT ![c] = Tracker!Out] /\ UNCHANGED <<healthy, generation>>
          BY <2>4, <3>3, Zenon DEF Tracker!LockAndTrip, Tracker!Stale, Tracker!flags
        <4> QED BY <3>1, <3>3, <4>1, LockStep, Zenon
      <3> QED BY <3>2, <3>3, Zenon
    <2> QED BY <1>3, <1>4, <2>1, <2>2, <2>3, <2>4, ZenonT(60) DEF RecordPassiveResult, Tracker!IoStep
  <1>5. CASE ProbeLoop
    BY <1>5, SampleStep, Zenon DEF ProbeLoop
  <1>6. CASE RecordProbe
    <2>1. /\ mutex = NONE /\ act[Loop].at = "out" /\ UNCHANGED window /\ Loop \in Threads
      BY <1>6, ThreadFacts DEF RecordProbe, Tracker!RecordProbe, Tracker!At, Tracker!passive, window
    <2>2. CASE Tracker!Trip(Loop, 0)
      <3>1. UNCHANGED generation /\ healthy' = FALSE /\ act' = [act EXCEPT ![Loop] = [at |-> "bump"]]
        BY <2>2 DEF Tracker!Trip
      <3> QED BY <2>1, <3>1, TripPassive, Zenon
    <2>3. CASE ~healthy /\ Tracker!Heal(Loop)
      <3>1. /\ generation' = generation + 1 /\ act' = [act EXCEPT ![Loop] = [at |-> "reset"]]
            /\ UNCHANGED <<healthy, window>>
        BY <2>1, <2>3, Zenon DEF Tracker!Heal
      <3> QED BY <2>1, <2>3, <3>1, GenerationStep, ZenonT(60)
    <2>4. CASE UNCHANGED <<healthy, generation, act>>
      BY <1>1, <2>1, <2>4, Zenon
    <2> QED BY <1>6, <2>2, <2>3, <2>4, ZenonT(60) DEF RecordProbe, Tracker!RecordProbe, Tracker!flags
  <1>7. CASE Transition
    BY <1>3, <1>7, HealPassive, ThreadFacts, Zenon DEF Transition, Tracker!ProbeStep
  <1>8. CASE Tick
    BY <1>8, TickStep, Zenon DEF Tick
  <1>9. CASE CheckHealth
    BY <1>1, <1>9, Zenon DEF CheckHealth, Tracker!Capture, Tracker!flags, Tracker!passive, window
  <1>10. CASE \/ \E c \in Caller : Call(c)
              \/ Run \/ AwaitCheck
              \/ \E w \in Worker : Check(w)
              \/ Stop \/ JoinLoop \/ Start \/ Destroy \/ Flip \/ UNCHANGED vars
    <2>1. UNCHANGED tracker
      BY <1>10, Zenon DEF Call, Run, AwaitCheck, Check, Stop, JoinLoop, Start, Destroy, Flip, vars
    <2> QED BY <1>1, <2>1, Zenon DEF tracker, window
  <1> QED BY <1>2, <1>4, <1>5, <1>6, <1>7, <1>8, <1>9, <1>10, Zenon DEF Next, ProbeStep

\* In every reachable state nothing that the start of the passive window skips
\* is within the window, and a RecordIo that must trip the breaker is on its way.
THEOREM PassiveInvariant == Spec => []PassiveInv
  <1>1. Init => BreakerInv /\ PassiveInv
    BY BreakerInit, PassiveInit, Zenon
  <1>2. BreakerInv /\ PassiveInv /\ [Next]_vars => (BreakerInv /\ PassiveInv)'
    BY BreakerNext, PassiveNext, Zenon
  <1> QED BY <1>1, <1>2, PTL DEF Spec

\* Once the calls that counted them are over, as many failures as the
\* threshold within the passive window have tripped the breaker (RecordIo).
THEOREM PassiveTripIsNotMissed == Spec => []PassiveTripNotMissed
  <1>1. PassiveInv => PassiveTripNotMissed
    <2> SUFFICES ASSUME PassiveInv, healthy, \A c \in Caller : Free(c)
                 PROVE  Cardinality(Recent) < PassiveThreshold
      BY Zenon DEF PassiveTripNotMissed
    <2>1. \A c \in Caller : ~Coming(c)
      BY DEF Free, Tracker!At, Coming
    <2>2. ~(Cardinality(Recent) >= PassiveThreshold) /\ Cardinality(Recent) \in Nat
      BY <2>1, RecentFinite, Zenon DEF PassiveInv, TripComing
    <2> QED BY <2>2, ThreadFacts
  <1> QED BY <1>1, PassiveInvariant, PTL

\* An I/O trips the breaker only on as many failures as the threshold, counted
\* since the breaker closed (RecordIo and Reset).
THEOREM PassiveTripIsJustified == Spec => PassiveTripJustified
  <1> DEFINE Justified == healthy /\ ~healthy' /\ mutex' \in Caller =>
                             Len(counted) - resetAt >= PassiveThreshold
  <1>1. PassiveInv /\ [Next]_vars => [Justified]_vars
    <2> SUFFICES ASSUME PassiveInv, [Next]_vars, healthy, ~healthy', mutex' \in Caller
                 PROVE  Len(counted) - resetAt >= PassiveThreshold
      OBVIOUS
    <2>1. ~UNCHANGED healthy
      BY ZenonT(60)
    <2>2. ~Tracker!Trip(Loop, 0)
      BY ThreadFacts, Zenon DEF Tracker!Trip
    <2>3. PICK c \in Caller : RecordPassiveResult(c)
      BY <2>1, <2>2, ZenonT(60)
      DEF Next, ProbeStep, Call, Return, ProbeLoop, CheckHealth, Run, AwaitCheck,
          RecordProbe, Transition, Check, Stop, JoinLoop, Start, Destroy, Flip, Tick, vars, tracker,
          Tracker!RecordIo, Tracker!SamplePassiveWindow, Tracker!Capture, Tracker!RecordProbe, Tracker!Heal,
          Tracker!ProbeStep, Tracker!Bump, Tracker!Open, Tracker!Reset, Tracker!Tick, Tracker!flags
    <2>4. act[c].at = "lock" /\ act[c].gen = generation
      BY <2>1, <2>3, Zenon
      DEF RecordPassiveResult, Tracker!IoStep, Tracker!Count, Tracker!GetStats, Tracker!LockAndTrip,
          Tracker!Bump, Tracker!At, Tracker!Stale, Tracker!flags
    <2> QED BY <2>4, Zenon DEF PassiveInv, ReadOK, ReadBy
  <1> QED BY <1>1, PassiveInvariant, PTL DEF Spec, PassiveTripJustified
====

------------------------- MODULE HealthBreakerProofs -------------------------
(***************************************************************************)
(* The breaker closes only when it has earned it (RecoveryEarned of        *)
(* HealthBreaker), for every number of callers, workers and probes in a    *)
(* window and every configuration StoreHealthConfig::Validate accepts.     *)
(***************************************************************************)
EXTENDS HealthBreaker, FiniteSetTheorems, TLAPS

Probe == [ok : BOOLEAN, fresh : BOOLEAN]

----------------------------------------------------------------------------
(* The counter of HealthWindow                                             *)

\* The failed checks of a window are finitely many.
LEMMA BadFinite ==
    ASSUME NEW s \in Seq(Probe)
    PROVE  /\ Bad(s) \subseteq 1 .. Len(s) /\ IsFiniteSet(Bad(s))
           /\ Cardinality(Bad(s)) \in Nat
           /\ Cardinality(Bad(s)) = 0 <=> \A i \in DOMAIN s : s[i].ok
  <1>1. Len(s) \in Nat /\ DOMAIN s = 1 .. Len(s)
    OBVIOUS
  <1>2. Bad(s) \in SUBSET (1 .. Len(s))
    BY <1>1 DEF Bad
  <1>3. IsFiniteSet(1 .. Len(s))
    BY <1>1, FS_Interval
  <1>4. IsFiniteSet(Bad(s))
    BY <1>2, <1>3, FS_Subset
  <1>5. Cardinality(Bad(s)) \in Nat /\ (Cardinality(Bad(s)) = 0 <=> Bad(s) = {})
    BY <1>4, FS_CardinalityType, FS_EmptySet
  <1>6. Bad(s) = {} <=> \A i \in DOMAIN s : s[i].ok
    BY DEF Bad
  <1> QED BY <1>2, <1>4, <1>5, <1>6

\* A result that enters the window.
LEMMA BadAppend ==
    ASSUME NEW s \in Seq(Probe), NEW e \in Probe
    PROVE  /\ Append(s, e) \in Seq(Probe)
           /\ Cardinality(Bad(Append(s, e))) = Cardinality(Bad(s)) + (IF e.ok THEN 0 ELSE 1)
  <1> DEFINE t == Append(s, e)
  <1>1. /\ t \in Seq(Probe) /\ Len(t) = Len(s) + 1 /\ Len(s) \in Nat
        /\ \A i \in 1 .. Len(s) : t[i] = s[i]
        /\ t[Len(s) + 1] = e
    OBVIOUS
  <1>2. DOMAIN s = 1 .. Len(s) /\ DOMAIN t = 1 .. Len(s) + 1
    BY <1>1
  <1> HIDE DEF t
  <1>3. Bad(t) = IF e.ok THEN Bad(s) ELSE Bad(s) \cup {Len(s) + 1}
    BY <1>1, <1>2 DEF Bad
  <1>4. Len(s) + 1 \notin Bad(s)
    BY <1>1, BadFinite
  <1>5. Cardinality(Bad(s) \cup {Len(s) + 1}) = Cardinality(Bad(s)) + 1
    BY <1>4, BadFinite, FS_AddElement, Zenon
  <1>6. Cardinality(Bad(s)) \in Nat
    BY BadFinite
  <1>7. Cardinality(Bad(t)) = Cardinality(Bad(s)) + (IF e.ok THEN 0 ELSE 1)
    BY <1>3, <1>5, <1>6
  <1> QED BY <1>1, <1>7 DEF t

\* A result that leaves it.
LEMMA BadTail ==
    ASSUME NEW s \in Seq(Probe), s # <<>>
    PROVE  /\ Tail(s) \in Seq(Probe) /\ Head(s) \in Probe
           /\ Cardinality(Bad(Tail(s))) = Cardinality(Bad(s)) - (IF Head(s).ok THEN 0 ELSE 1)
  <1> DEFINE t == Tail(s)
             old == Bad(s) \ {1}
             f == [i \in old |-> i - 1]
  <1>1. /\ t \in Seq(Probe) /\ Len(t) = Len(s) - 1 /\ Head(s) \in Probe
        /\ \A i \in 1 .. Len(s) - 1 : t[i] = s[i + 1]
    OBVIOUS
  <1>2. /\ Len(s) \in Nat \ {0} /\ Head(s) = s[1]
        /\ DOMAIN s = 1 .. Len(s) /\ DOMAIN t = 1 .. Len(s) - 1
    BY <1>1
  <1> HIDE DEF t
  <1>3. /\ \A i \in old : i - 1 \in Bad(t)
        /\ \A j \in Bad(t) : j + 1 \in old /\ (j + 1) - 1 = j
        /\ old \subseteq Int
    BY <1>1, <1>2 DEF Bad
  <1>4. f \in Bijection(old, Bad(t))
    <2>1. f \in [old -> Bad(t)]
      BY <1>3
    <2>2. \A i, j \in old : f[i] = f[j] => i = j
      BY <1>3
    <2>3. \A j \in Bad(t) : \E i \in old : f[i] = j
      BY <1>3
    <2> QED BY <2>1, <2>2, <2>3 DEF Bijection, Injection, Surjection, IsInjective
  <1>5. IsFiniteSet(old) /\ Cardinality(old) = Cardinality(Bad(s)) - (IF Head(s).ok THEN 0 ELSE 1)
    <2>1. 1 \in Bad(s) <=> ~Head(s).ok
      BY <1>2 DEF Bad
    <2>2. IsFiniteSet(Bad(s)) /\ Cardinality(Bad(s)) \in Nat
      BY BadFinite
    <2>3. /\ IsFiniteSet(old)
          /\ Cardinality(old) = IF 1 \in Bad(s) THEN Cardinality(Bad(s)) - 1 ELSE Cardinality(Bad(s))
      BY <2>2, FS_RemoveElement
    <2> QED BY <2>1, <2>2, <2>3
  <1>6. Cardinality(Bad(t)) = Cardinality(old)
    BY <1>4, <1>5, FS_Bijection DEF ExistsBijection
  <1> QED BY <1>1, <1>5, <1>6 DEF t

\* What enters and leaves a window of fresh results leaves one.
LEMMA FreshAppend ==
    ASSUME NEW s \in Seq(Probe), NEW e \in Probe, e.fresh, \A i \in DOMAIN s : s[i].fresh
    PROVE  \A i \in DOMAIN Append(s, e) : Append(s, e)[i].fresh
  <1> DEFINE t == Append(s, e)
  <1>1. /\ t \in Seq(Probe) /\ Len(t) = Len(s) + 1 /\ Len(s) \in Nat
        /\ \A i \in 1 .. Len(s) : t[i] = s[i]
        /\ t[Len(s) + 1] = e
    OBVIOUS
  <1>2. DOMAIN s = 1 .. Len(s) /\ DOMAIN t = 1 .. Len(s) + 1
    BY <1>1
  <1> HIDE DEF t
  <1>3. \A i \in DOMAIN t : t[i].fresh
    BY <1>1, <1>2
  <1> QED BY <1>3 DEF t

\* The same without the oldest.
LEMMA FreshTail ==
    ASSUME NEW s \in Seq(Probe), s # <<>>, \A i \in DOMAIN s : s[i].fresh
    PROVE  \A i \in DOMAIN Tail(s) : Tail(s)[i].fresh
  <1> DEFINE t == Tail(s)
  <1>1. /\ t \in Seq(Probe) /\ Len(t) = Len(s) - 1 /\ Len(s) \in Nat
        /\ \A i \in 1 .. Len(s) - 1 : t[i] = s[i + 1]
    OBVIOUS
  <1>2. DOMAIN s = 1 .. Len(s) /\ DOMAIN t = 1 .. Len(s) - 1
    BY <1>1
  <1> HIDE DEF t
  <1>3. \A i \in DOMAIN t : t[i].fresh
    BY <1>1, <1>2
  <1> QED BY <1>3 DEF t

\* The counter stays exact (HealthWindow::Record).
LEMMA WindowStep ==
    ASSUME WindowOK, NEW ok \in BOOLEAN, NEW new \in BOOLEAN, Tracker!WindowRecord(ok, new)
    PROVE  /\ WindowOK'
           /\ failures' = 0 => \A i \in DOMAIN probes' : probes'[i].ok
           /\ new /\ (\A i \in DOMAIN probes : probes[i].fresh)
                  => \A i \in DOMAIN probes' : probes'[i].fresh
  <1> DEFINE full == Len(probes) = WindowSize
             left == IF full THEN Tail(probes) ELSE probes
             e == [ok |-> ok, fresh |-> new]
  <1>1. /\ probes' = Append(left, e)
        /\ failures' = failures - (IF full /\ ~Head(probes).ok THEN 1 ELSE 0) + (IF ok THEN 0 ELSE 1)
    BY DEF Tracker!WindowRecord
  <1>2. probes \in Seq(Probe) /\ failures = Cardinality(Bad(probes)) /\ e \in Probe
        /\ e.ok = ok /\ e.fresh = new
    BY DEF WindowOK, Probe
  <1>3. full => probes # <<>>
    BY ConfigAssumption DEF ValidConfig
  <1> HIDE DEF e
  <1>4. /\ left \in Seq(Probe)
        /\ Cardinality(Bad(left)) = failures - (IF full /\ ~Head(probes).ok THEN 1 ELSE 0)
        /\ failures \in Nat
    <2>1. failures \in Nat
      BY <1>2, BadFinite
    <2>2. CASE full
      BY <1>2, <1>3, <2>1, <2>2, BadTail, Zenon
    <2>3. CASE ~full
      BY <1>2, <2>1, <2>3
    <2> QED BY <2>1, <2>2, <2>3
  <1>5. (\A i \in DOMAIN probes : probes[i].fresh) => \A i \in DOMAIN left : left[i].fresh
    BY <1>2, <1>3, FreshTail
  <1> HIDE DEF left
  <1>6. probes' \in Seq(Probe) /\ Cardinality(Bad(probes')) = Cardinality(Bad(left)) + (IF ok THEN 0 ELSE 1)
    BY <1>1, <1>2, <1>4, BadAppend, Zenon
  <1>7. WindowOK'
    BY <1>1, <1>4, <1>6 DEF WindowOK, Probe
  <1>8. failures' = 0 => \A i \in DOMAIN probes' : probes'[i].ok
    BY <1>6, <1>7, BadFinite DEF WindowOK
  <1>9. new /\ (\A i \in DOMAIN left : left[i].fresh) => \A i \in DOMAIN probes' : probes'[i].fresh
    BY <1>1, <1>2, <1>4, FreshAppend, Zenon
  <1> QED BY <1>5, <1>7, <1>8, <1>9

----------------------------------------------------------------------------
(* The steps                                                               *)

\* What is done to a worker leaves a worker.
LEMMA WorkerFields ==
    /\ Executor!New \in WorkerState
    /\ \A r \in WorkerState :
          /\ [r EXCEPT !.check = TRUE, !.done = FALSE] \in WorkerState
          /\ [r EXCEPT !.stop = TRUE] \in WorkerState
          /\ [r EXCEPT !.exited = TRUE] \in WorkerState
          /\ [r EXCEPT !.check = FALSE, !.busy = TRUE] \in WorkerState
          /\ \A status \in BOOLEAN :
                [r EXCEPT !.busy = FALSE, !.done = TRUE, !.status = status] \in WorkerState
  BY Zenon DEF WorkerState, Executor!New

\* The breaker starts closed, with an empty window.
LEMMA BreakerInit == Init => BreakerInv
  <1> SUFFICES ASSUME Init PROVE BreakerInv
    OBVIOUS
  <1> USE DEF Init, Tracker!Init, Tracker!Out, Tracker!Thread
  <1>1. TrackerOK BY DEF TrackerOK, Threads
  <1>2. WindowOK
    <2>1. probes \in Seq([ok : BOOLEAN, fresh : BOOLEAN]) /\ Bad(probes) = {}
      BY DEF Bad
    <2> QED BY <2>1, FS_EmptySet, Zenon DEF WindowOK
  <1>3. CheckOK BY WorkerFields, Zenon DEF CheckOK, Executor!Init, Idle
  <1>4. MutexOK BY DEF MutexOK, Critical, Threads
  <1>5. FreshOK /\ HealOK
    BY DEF FreshOK, HealOK, Asking, Idle, Threads
  <1> QED BY <1>1, <1>2, <1>3, <1>4, <1>5, Zenon DEF BreakerInv

\* Steps that leave the tracker and the probe thread's result alone.
LEMMA TrackerSame ==
    ASSUME BreakerInv, UNCHANGED tracker, CheckOK',
           Asking' => Asking /\ probe'.gen = probe.gen
    PROVE  BreakerInv'
  <1>1. TrackerOK' /\ WindowOK' /\ MutexOK' /\ HealOK'
    BY Zenon DEF BreakerInv, tracker, TrackerOK, WindowOK, MutexOK, HealOK, Critical, Bad
  <1>2. FreshOK'
    BY DEF BreakerInv, tracker, FreshOK, Tripping
  <1> QED BY <1>1, <1>2, Zenon DEF BreakerInv

\* No thread enters or leaves mutex_.
MovesOutside ==
    \A p \in Threads : \/ act'[p].at = act[p].at
                       \/ ~Critical(p) /\ act'[p].at \notin {"bump", "reset", "open"}

\* Steps of RecordIo, and all others that change only where a thread is,
\* outside mutex_.
LEMMA ActStep ==
    ASSUME BreakerInv, UNCHANGED <<healthy, generation, mutex, probes, failures, fresh, probe, up, worker, current>>,
           TrackerOK',
           MovesOutside,
           UNCHANGED <<sinceTrip, cooldown>> \/ mutex = NONE
    PROVE  BreakerInv'
  <1>1. WindowOK' /\ CheckOK'
    BY DEF BreakerInv, WindowOK, CheckOK, Bad
  <1>2. MutexOK'
    BY DEF BreakerInv, MutexOK, Critical, MovesOutside
  <1>3. FreshOK'
    BY DEF BreakerInv, FreshOK, Tripping, Asking, Critical, MovesOutside
  <1>4. HealOK'
    <2>1. Loop \in Threads /\ Loop # NONE
      BY ConfigAssumption DEF Threads, ValidConfig
    <2> QED BY <2>1 DEF BreakerInv, HealOK, MutexOK, Critical, MovesOutside
  <1> QED BY <1>1, <1>2, <1>3, <1>4, Zenon DEF BreakerInv

\* The first half of ToUnhealthy.
LEMMA TripStep ==
    ASSUME BreakerInv, NEW p \in Threads, NEW lag, mutex = NONE, Tracker!Trip(p, lag),
           WindowOK', CheckOK', Asking' => Asking /\ probe'.gen = probe.gen
    PROVE  BreakerInv'
  <1>0. Loop \in Threads /\ \A q \in Threads : q # NONE
    BY ConfigAssumption DEF Threads, ValidConfig
  <1>1. /\ DOMAIN act' = Threads /\ act'[p] = [at |-> "bump"] /\ mutex' = p
        /\ \A q \in Threads : q # p => act'[q] = act[q] /\ ~Critical(q)
        /\ generation' = generation
    BY <1>0 DEF Tracker!Trip, BreakerInv, TrackerOK, MutexOK
  <1>2. TrackerOK'
    BY <1>1, Zenon DEF Tracker!Trip, BreakerInv, TrackerOK
  <1>3. MutexOK'
    BY <1>1 DEF MutexOK, Critical
  <1>4. FreshOK'
    BY <1>1 DEF FreshOK, Tripping, BreakerInv
  <1>5. HealOK'
    BY <1>0, <1>1 DEF HealOK, Critical
  <1> QED BY <1>2, <1>3, <1>4, <1>5, Zenon DEF BreakerInv

\* The second half.
LEMMA BumpStep ==
    ASSUME BreakerInv, NEW p \in Threads, Tracker!Bump(p),
           UNCHANGED <<probe, worker, current, up>>
    PROVE  BreakerInv'
  <1>0. Loop \in Threads
    BY DEF Threads
  <1>1. /\ DOMAIN act' = Threads /\ act'[p] = [at |-> "out"] /\ mutex' = NONE
        /\ \A q \in Threads : q # p => act'[q] = act[q] /\ ~Critical(q)
        /\ generation' = generation + 1 /\ probes' = <<>> /\ failures' = 0
        /\ healthy' = healthy /\ fresh' = fresh
    BY DEF Tracker!Bump, Tracker!At, Tracker!Out, BreakerInv, TrackerOK, MutexOK, Critical
  <1>2. TrackerOK'
    BY <1>1 DEF BreakerInv, TrackerOK
  <1>3. WindowOK'
    <2>1. probes' \in Seq([ok : BOOLEAN, fresh : BOOLEAN]) /\ Bad(probes') = {}
      BY <1>1 DEF Bad
    <2> QED BY <1>1, <2>1, FS_EmptySet, Zenon DEF WindowOK
  <1>4. CheckOK' /\ MutexOK'
    BY <1>1 DEF BreakerInv, CheckOK, MutexOK, Critical
  <1>5. FreshOK'
    <2>1. DOMAIN probes' = {}
      BY <1>1
    <2>2. Asking' => probe'.gen < generation' /\ probe'.gen \in Nat
      BY <1>1 DEF BreakerInv, FreshOK, Asking, CheckOK, TrackerOK
    <2> QED BY <1>2, <2>1, <2>2 DEF FreshOK, TrackerOK
  <1>6. HealOK'
    BY <1>0, <1>1 DEF HealOK, Critical
  <1> QED BY <1>2, <1>3, <1>4, <1>5, <1>6, ZenonT(60) DEF BreakerInv

\* The steps of ToHealthy after the generation.
LEMMA HealStep ==
    ASSUME BreakerInv, Tracker!Reset(Loop) \/ Tracker!Open(Loop),
           UNCHANGED <<probe, worker, current, up>>
    PROVE  BreakerInv'
  <1>0. Loop \in Threads /\ Loop # NONE
    BY ConfigAssumption, Zenon DEF Threads, ValidConfig
  <1>1. /\ DOMAIN act' = Threads /\ act'[Loop] \in {[at |-> "open"], [at |-> "out"]}
        /\ act[Loop].at \in {"reset", "open"}
        /\ act'[Loop] = [at |-> "open"] => mutex' = mutex /\ healthy' = healthy
        /\ act'[Loop] = [at |-> "out"] => healthy'
        /\ \A q \in Threads : q # Loop => act'[q] = act[q] /\ ~Critical(q)
    BY <1>0 DEF Tracker!Reset, Tracker!Open, Tracker!At, Tracker!Out, Tracker!flags,
            BreakerInv, TrackerOK, MutexOK, Critical
  <1>2. UNCHANGED <<generation, probes, failures, fresh, cooldown, sinceTrip>> /\ healthy' \in BOOLEAN
    BY Zenon DEF Tracker!Reset, Tracker!Open, Tracker!flags, Tracker!active, Tracker!timing, BreakerInv, TrackerOK
  <1>3. TrackerOK' /\ WindowOK' /\ CheckOK'
    BY <1>1, <1>2, SMTT(30) DEF BreakerInv, TrackerOK, WindowOK, CheckOK, Bad
  <1>4. MutexOK'
    BY <1>0, <1>1 DEF BreakerInv, MutexOK, Critical
  <1>5. FreshOK'
    BY <1>0, <1>1, <1>2, SMTT(30) DEF BreakerInv, FreshOK, Asking, Tripping, Critical
  <1>6. HealOK'
    BY <1>1, <1>2 DEF BreakerInv, HealOK
  <1> QED BY <1>3, <1>4, <1>5, <1>6, Zenon DEF BreakerInv

\* The result of a check (RecordProbe).
LEMMA RecordProbeStep ==
    ASSUME BreakerInv, RecordProbe
    PROVE  BreakerInv'
  <1>0. Loop \in Threads /\ Loop # NONE /\ fresh[Loop] \in BOOLEAN
    BY ConfigAssumption, Zenon DEF Threads, ValidConfig, BreakerInv, TrackerOK
  <1>1. /\ probe.at = "record" /\ probe.ok \in BOOLEAN /\ mutex = NONE
        /\ \A q \in Threads : ~Critical(q)
        /\ probe' = Idle /\ UNCHANGED <<worker, current, up>>
    BY ConfigAssumption, Zenon
    DEF RecordProbe, Tracker!RecordProbe, BreakerInv, CheckOK, MutexOK, Threads, ValidConfig,
        executor, store
  <1>2. CheckOK' /\ ~Asking'
    BY <1>1, Zenon DEF BreakerInv, CheckOK, Idle, Asking
  <1>3. CASE Tracker!Stale(probe.gen)
    BY <1>2, <1>3, TrackerSame, Zenon
    DEF RecordProbe, Tracker!RecordProbe, Tracker!flags, Tracker!active, Tracker!timing,
        Tracker!passive, tracker
  <1>4. CASE ~Tracker!Stale(probe.gen)
    <2>1. Tracker!WindowRecord(probe.ok, fresh[Loop]) /\ probe.gen = generation
      BY <1>4 DEF RecordProbe, Tracker!RecordProbe, Tracker!Stale
    <2>2. /\ WindowOK'
          /\ failures' = 0 => \A i \in DOMAIN probes' : probes'[i].ok
          /\ fresh[Loop] /\ (\A i \in DOMAIN probes : probes[i].fresh)
                  => \A i \in DOMAIN probes' : probes'[i].fresh
      BY <1>0, <1>1, <2>1, WindowStep, Zenon DEF BreakerInv
    <2>3. ~healthy => \A i \in DOMAIN probes' : probes'[i].fresh
      BY <1>1, <2>1, <2>2, Zenon DEF BreakerInv, FreshOK, Asking, Tripping, Critical
    <2>4. CASE Tracker!Trip(Loop, 0)
      BY <1>0, <1>1, <1>2, <2>2, <2>4, TripStep, Zenon
    <2>5. CASE /\ ~healthy /\ Len(probes') = WindowSize /\ failures' = 0
               /\ sinceTrip >= cooldown /\ Tracker!Heal(Loop)
      <3>1. /\ DOMAIN act' = Threads /\ act'[Loop] = [at |-> "reset"] /\ mutex' = Loop
            /\ \A q \in Threads : q # Loop => act'[q] = act[q]
            /\ generation' = generation + 1
            /\ UNCHANGED <<healthy, fresh, cooldown, sinceTrip>>
        BY <1>0, <2>5, Zenon DEF Tracker!Heal, Tracker!timing, BreakerInv, TrackerOK
      <3>2. TrackerOK'
        BY <3>1 DEF BreakerInv, TrackerOK
      <3>3. MutexOK'
        BY <1>1, <3>1, Zenon DEF MutexOK, Critical
      <3>4. FreshOK'
        BY <1>2, <2>3, <2>5, Zenon DEF FreshOK
      <3>5. HealOK'
        BY <2>2, <2>3, <2>5, <3>1, Zenon DEF HealOK
      <3> QED BY <1>2, <2>2, <3>2, <3>3, <3>4, <3>5, ZenonT(60) DEF BreakerInv
    <2>6. CASE UNCHANGED <<healthy, generation, mutex, fresh, cooldown, sinceTrip, act>>
      <3>1. TrackerOK' /\ MutexOK' /\ HealOK'
        BY <1>0, <1>1, <2>6, Zenon DEF BreakerInv, TrackerOK, MutexOK, HealOK, Critical
      <3>2. FreshOK'
        BY <1>2, <2>3, <2>6, Zenon DEF FreshOK
      <3> QED BY <1>2, <2>2, <3>1, <3>2, Zenon DEF BreakerInv
    <2> QED BY <1>4, <2>4, <2>5, <2>6, Zenon
        DEF RecordProbe, Tracker!RecordProbe, Tracker!flags, Tracker!timing
  <1> QED BY <1>3, <1>4, Zenon

\* The callers (RecordPassiveResult).
LEMMA CallerStep ==
    ASSUME BreakerInv, NEW c \in Caller, Call(c) \/ Return(c) \/ RecordPassiveResult(c)
    PROVE  BreakerInv'
  <1>0. /\ c \in Threads /\ DOMAIN act = Threads /\ \A p \in Threads : "at" \in DOMAIN act[p]
        /\ healthy \in BOOLEAN /\ generation \in Nat /\ fresh \in [{Loop} -> BOOLEAN]
    BY Zenon DEF Threads, BreakerInv, TrackerOK
  <1>1. UNCHANGED <<probe, worker, current, up>>
    BY Zenon DEF Call, Return, RecordPassiveResult, executor, store
  <1>2. CASE UNCHANGED tracker
    <2>1. CheckOK' /\ (Asking' => Asking /\ probe'.gen = probe.gen)
      BY <1>1 DEF BreakerInv, CheckOK, Asking
    <2> QED BY <1>2, <2>1, TrackerSame, Zenon
  <1>3. ASSUME NEW gen, NEW ok, Tracker!RecordIo(c, gen, ok) PROVE BreakerInv'
    <2>1. UNCHANGED <<healthy, generation, mutex, probes, failures, fresh, sinceTrip, cooldown>>
      BY <1>3, Zenon DEF Tracker!RecordIo, Tracker!flags, Tracker!active, Tracker!timing
    <2>2. /\ act[c].at = "out" /\ DOMAIN act' = Threads
          /\ "at" \in DOMAIN act'[c] /\ act'[c].at \in {"count", "out"}
          /\ \A p \in Threads : p # c => act'[p] = act[p]
      BY <1>0, <1>3, Zenon DEF Tracker!RecordIo, Tracker!At, Tracker!Out
    <2>3. TrackerOK'
      BY <1>0, <2>1, <2>2, Zenon DEF TrackerOK
    <2>4. ASSUME NEW p \in Threads
         PROVE  \/ act'[p].at = act[p].at
                \/ ~Critical(p) /\ act'[p].at \notin {"bump", "reset", "open"}
      <3>1. CASE p = c
        BY <2>2, <3>1, Zenon DEF Critical
      <3>2. CASE p # c
        BY <2>2, <3>2, Zenon
      <3> QED BY <3>1, <3>2, Zenon
    <2>5. UNCHANGED <<healthy, generation, mutex, probes, failures, fresh, probe, up, worker, current>>
      BY <1>1, <2>1, Zenon
    <2>6. UNCHANGED <<sinceTrip, cooldown>> \/ mutex = NONE
      BY <2>1, Zenon
    <2>7. MovesOutside
      BY <2>4, Zenon DEF MovesOutside
    <2> QED BY <2>3, <2>5, <2>6, <2>7, ActStep, Zenon
  <1>4. CASE Tracker!Count(c) \/ Tracker!GetStats(c)
    <2>1. UNCHANGED <<healthy, generation, mutex, probes, failures, fresh, sinceTrip, cooldown>>
      BY <1>4 DEF Tracker!Count, Tracker!GetStats, Tracker!flags, Tracker!active, Tracker!timing
    <2>2. /\ act[c].at \in {"count", "stats", "more"} /\ DOMAIN act' = Threads
          /\ "at" \in DOMAIN act'[c] /\ act'[c].at \in {"stats", "more", "lock", "out"}
          /\ \A p \in Threads : p # c => act'[p] = act[p]
      <3>1. CASE Tracker!Count(c)
        BY <1>0, <3>1 DEF Tracker!Count, Tracker!At
      <3>2. CASE Tracker!At(c, "stats") /\ act' = [act EXCEPT ![c].at = "more", ![c].seen = base]
        BY <1>0, <3>2, Zenon DEF Tracker!At
      <3>3. CASE /\ Tracker!At(c, "more")
                 /\ act' = [act EXCEPT ![c] = IF Tracker!Exceeded(Tracker!Total, act[c].seen)
                                              THEN [at |-> "lock", gen |-> act[c].gen,
                                                    lag |-> act[c].lag, seen |-> 0]
                                              ELSE Tracker!Out]
        BY <1>0, <3>3, Zenon DEF Tracker!At, Tracker!Out
      <3> QED BY <1>4, <3>1, <3>2, <3>3, Zenon DEF Tracker!GetStats
    <2>3. TrackerOK'
      BY <1>0, <2>1, <2>2, Zenon DEF TrackerOK
    <2>4. ASSUME NEW p \in Threads
         PROVE  \/ act'[p].at = act[p].at
                \/ ~Critical(p) /\ act'[p].at \notin {"bump", "reset", "open"}
      <3>1. CASE p = c
        BY <2>2, <3>1, Zenon DEF Critical
      <3>2. CASE p # c
        BY <2>2, <3>2, Zenon
      <3> QED BY <3>1, <3>2
    <2>5. UNCHANGED <<healthy, generation, mutex, probes, failures, fresh, probe, up, worker, current>>
      BY <1>1, <2>1
    <2>6. UNCHANGED <<sinceTrip, cooldown>> \/ mutex = NONE
      BY <2>1
    <2>7. MovesOutside
      BY <2>4 DEF MovesOutside
    <2> QED BY <2>3, <2>5, <2>6, <2>7, ActStep
  <1>5. CASE Tracker!LockAndTrip(c)
    <2>1. CASE Tracker!Trip(c, act[c].lag)
      <3>1. WindowOK' /\ CheckOK' /\ (Asking' => Asking /\ probe'.gen = probe.gen) /\ mutex = NONE
        BY <1>1, <1>5, ZenonT(60) DEF Tracker!LockAndTrip, BreakerInv, WindowOK, CheckOK, Asking, Bad
      <3> QED BY <1>0, <2>1, <3>1, TripStep, Zenon
    <2>2. CASE ~Tracker!Trip(c, act[c].lag)
      <3>1. UNCHANGED <<healthy, generation, mutex, probes, failures, fresh, sinceTrip, cooldown>>
        BY <1>5, <2>2, Zenon DEF Tracker!LockAndTrip, Tracker!flags, Tracker!timing
      <3>2. /\ act[c].at = "lock" /\ DOMAIN act' = Threads
            /\ "at" \in DOMAIN act'[c] /\ act'[c].at = "out"
            /\ \A p \in Threads : p # c => act'[p] = act[p]
        <4>1. act[c].at = "lock" /\ act' = [act EXCEPT ![c] = Tracker!Out]
          BY <1>5, <2>2, Zenon DEF Tracker!LockAndTrip, Tracker!At
        <4>2. act' = [act EXCEPT ![c] = Tracker!Out] /\ c \in DOMAIN act
          BY <1>0, <4>1
        <4>3. DOMAIN act' = Threads /\ act'[c] = Tracker!Out /\ \A p \in Threads : p # c => act'[p] = act[p]
          BY <1>0, <4>2, SMTT(30)
        <4> QED BY <4>1, <4>3 DEF Tracker!Out
      <3>3. TrackerOK'
        BY <1>0, <3>1, <3>2, Zenon DEF TrackerOK
      <3>4. ASSUME NEW p \in Threads
           PROVE  \/ act'[p].at = act[p].at
                  \/ ~Critical(p) /\ act'[p].at \notin {"bump", "reset", "open"}
        <4>1. CASE p = c
          BY <3>2, <4>1, Zenon DEF Critical
        <4>2. CASE p # c
          BY <3>2, <4>2, Zenon
        <4> QED BY <4>1, <4>2
      <3>5. UNCHANGED <<healthy, generation, mutex, probes, failures, fresh, probe, up, worker, current>>
        BY <1>1, <3>1
      <3>6. UNCHANGED <<sinceTrip, cooldown>> \/ mutex = NONE
        BY <3>1
      <3>7. MovesOutside
        BY <3>4 DEF MovesOutside
      <3> QED BY <3>3, <3>5, <3>6, <3>7, ActStep
    <2> QED BY <2>1, <2>2, Zenon
  <1>6. CASE Tracker!Bump(c)
    BY <1>0, <1>1, <1>6, BumpStep, ZenonT(60)
  <1> QED BY <1>2, <1>3, <1>4, <1>5, <1>6, Zenon
      DEF Call, Return, RecordPassiveResult, Tracker!IoStep

\* The probe thread up to the result, and the worker threads (ProbeLoop,
\* CheckHealth and Run).
LEMMA ProbeThreadStep ==
    ASSUME BreakerInv, ProbeLoop \/ CheckHealth \/ Run \/ AwaitCheck
    PROVE  BreakerInv'
  <1>1. CASE ProbeLoop
    <2>1. /\ UNCHANGED <<healthy, generation, mutex, probes, failures, fresh, act, sinceTrip, cooldown,
                         worker, current, up>>
          /\ probe'.at = "check" /\ probe' \in [at : {"check"}]
      BY <1>1, Zenon DEF ProbeLoop, Goto, Idle, Tracker!SamplePassiveWindow, Tracker!flags, Tracker!active,
                  Tracker!timing, executor, store
    <2>2. TrackerOK' /\ WindowOK' /\ CheckOK' /\ MutexOK' /\ HealOK'
      BY <2>1, Zenon DEF BreakerInv, TrackerOK, WindowOK, CheckOK, MutexOK, HealOK, Critical, Bad
    <2>3. FreshOK'
      BY <2>1, Zenon DEF BreakerInv, FreshOK, Asking, Tripping
    <2> QED BY <2>2, <2>3 DEF BreakerInv
  <1>2. CASE CheckHealth
    <2>1. /\ UNCHANGED <<healthy, generation, mutex, probes, failures, act, sinceTrip, cooldown,
                         worker, current, up>>
          /\ probe' = [at |-> "run", gen |-> generation] /\ fresh' = [fresh EXCEPT ![Loop] = TRUE]
      BY <1>2, Zenon DEF CheckHealth, Tracker!Capture, Tracker!flags, Tracker!timing, executor, store
    <2>2. TrackerOK' /\ WindowOK' /\ CheckOK' /\ MutexOK' /\ HealOK'
      BY <2>1, Zenon DEF BreakerInv, TrackerOK, WindowOK, CheckOK, MutexOK, HealOK, Critical, Bad
    <2>3. FreshOK'
      BY <2>1 DEF BreakerInv, TrackerOK, FreshOK, Asking, Tripping
    <2> QED BY <2>2, <2>3 DEF BreakerInv
  <1>3. CASE Run
    <2>1. UNCHANGED tracker /\ Asking /\ Asking' /\ probe'.gen = probe.gen
      BY <1>3 DEF Run, Goto, Result, Asking, BreakerInv, CheckOK
    <2>2. CheckOK'
      <3>1. CASE Executor!RunBegin(Loop) /\ Goto("wait")
        <4>1. current' \in Worker /\ up' = up /\ probe' \in [at : {"wait"}, gen : Nat]
          BY <1>3, <3>1, ZenonT(60) DEF Run, Goto, Executor!RunBegin, BreakerInv, CheckOK
        <4>2. worker' \in [Worker -> WorkerState]
          <5>1. PICK v \in Worker :
                   worker' = [u \in Worker |->
                       IF u = v THEN [(IF u = current THEN worker[u] ELSE Executor!New)
                                      EXCEPT !.check = TRUE, !.done = FALSE]
                       ELSE IF u \in Executor!Reaped THEN Executor!New ELSE worker[u]]
            BY <3>1, Zenon DEF Executor!RunBegin, BreakerInv, CheckOK
          <5>2. \A u \in Worker : worker[u] \in WorkerState
            BY DEF BreakerInv, CheckOK
          <5> QED BY <5>1, <5>2, WorkerFields, ZenonT(60)
        <4>3. current' \in Worker \cup {NONE} /\ up' \in BOOLEAN /\ probe'.at = "wait"
          BY <4>1, Zenon DEF BreakerInv, CheckOK
        <4> QED BY <4>1, <4>2, <4>3 DEF CheckOK
      <3>2. CASE Executor!RunReject /\ Result(FALSE)
        <4>1. worker' \in [Worker -> WorkerState]
          BY <3>2, WorkerFields, ZenonT(60) DEF Executor!RunReject, BreakerInv, CheckOK
        <4> QED BY <1>3, <3>2, <4>1 DEF Run, Result, Executor!RunReject, BreakerInv, CheckOK
      <3> QED BY <1>3, <3>1, <3>2, ZenonT(60) DEF Run
    <2> QED BY <2>1, <2>2, TrackerSame, Zenon
  <1>4. CASE AwaitCheck
    <2>1. UNCHANGED tracker /\ Asking /\ Asking' /\ probe'.gen = probe.gen
      BY <1>4 DEF AwaitCheck, Result, Asking, BreakerInv, CheckOK
    <2>2. CheckOK'
      <3>0. /\ current \in Worker /\ worker \in [Worker -> WorkerState] /\ up' = up /\ up \in BOOLEAN
            /\ probe.gen \in Nat /\ worker[current].status \in BOOLEAN
        BY <1>4, Zenon DEF AwaitCheck, BreakerInv, CheckOK, WorkerState, store
      <3>1. CASE Executor!RunReturns(Loop) /\ Result(worker[current].status)
        BY <3>0, <3>1, Zenon DEF Executor!RunReturns, Result, CheckOK
      <3>2. CASE Executor!RunTimeout(Loop) /\ Result(FALSE)
        <4>1. worker' \in [Worker -> WorkerState] /\ current' = NONE
          BY <3>0, <3>2, WorkerFields, Zenon DEF Executor!RunTimeout
        <4> QED BY <3>0, <3>2, <4>1, Zenon DEF Result, CheckOK
      <3> QED BY <1>4, <3>1, <3>2, ZenonT(60) DEF AwaitCheck
    <2> QED BY <2>1, <2>2, TrackerSame
  <1> QED BY <1>1, <1>2, <1>3, <1>4, Zenon

\* The workers, Stop, Start, the destructor, the store and the clock.
LEMMA OtherStep ==
    ASSUME BreakerInv,
           (\E w \in Worker : Check(w)) \/ Stop \/ JoinLoop \/ Start \/ Destroy \/ Flip \/ Tick
    PROVE  BreakerInv'
  <1>1. ASSUME NEW w \in Worker, Check(w) PROVE BreakerInv'
    <2>1. UNCHANGED <<tracker, probe, current, up>>
      BY <1>1, Zenon DEF Check, Executor!Take, Executor!Exit, Executor!Finish, store
    <2>2. CheckOK'
      <3>1. \A status \in IF w \in slow /\ up THEN BOOLEAN ELSE {up} : status \in BOOLEAN
        BY DEF BreakerInv, CheckOK
      <3>2. worker' \in [Worker -> WorkerState]
        <4>1. CASE Executor!Take(w)
          BY <4>1, WorkerFields, ZenonT(60) DEF Executor!Take, BreakerInv, CheckOK
        <4>2. CASE Executor!Exit(w)
          BY <4>2, WorkerFields, ZenonT(60) DEF Executor!Exit, BreakerInv, CheckOK
        <4>3. ASSUME NEW status \in BOOLEAN, Executor!Finish(w, status)
              PROVE  worker' \in [Worker -> WorkerState]
          BY <4>3, WorkerFields, Zenon DEF Executor!Finish, BreakerInv, CheckOK
        <4> QED BY <1>1, <3>1, <4>1, <4>2, <4>3, ZenonT(60) DEF Check
      <3> QED BY <2>1, <3>2, Zenon DEF BreakerInv, CheckOK
    <2> QED BY <2>1, <2>2, TrackerSame DEF Asking
  <1>2. CASE Stop \/ JoinLoop \/ Start
    <2>1. UNCHANGED <<tracker, worker, current, up>>
          /\ probe' \in {probe, [at |-> "gone"], [at |-> "idle"]}
      BY <1>2, Zenon DEF Stop, JoinLoop, Start, Goto, Idle, executor, store
    <2>2. CheckOK' /\ (Asking' => Asking /\ probe'.gen = probe.gen)
      BY <2>1 DEF BreakerInv, CheckOK, Asking
    <2> QED BY <2>1, <2>2, TrackerSame, Zenon
  <1>3. CASE Destroy
    <2>1. UNCHANGED <<tracker, up>> /\ probe' \in [at : {"closing", "closed"}] /\ current' = NONE
      BY <1>3, Zenon DEF Destroy, Goto, Executor!StopBegin, Executor!StopReturns, BreakerInv, CheckOK, store
    <2>2. worker' \in [Worker -> WorkerState]
      <3>1. CASE Executor!StopBegin(Loop)
        BY <3>1, WorkerFields, ZenonT(60) DEF Executor!StopBegin, BreakerInv, CheckOK
      <3>2. CASE Executor!StopReturns(Loop)
        BY <3>2, WorkerFields, ZenonT(60) DEF Executor!StopReturns
      <3> QED BY <1>3, <3>1, <3>2 DEF Destroy
    <2>3. CheckOK' /\ ~Asking'
      BY <2>1, <2>2 DEF BreakerInv, CheckOK, Asking
    <2> QED BY <2>1, <2>3, TrackerSame, Zenon
  <1>4. CASE Flip
    <2>1. UNCHANGED <<tracker, probe, worker, current>> /\ up' \in BOOLEAN
      BY <1>4, Zenon DEF Flip, executor
    <2>2. CheckOK'
      BY <2>1 DEF BreakerInv, CheckOK
    <2> QED BY <2>1, <2>2, TrackerSame, Zenon DEF Asking
  <1>5. CASE Tick
    <2>1. /\ UNCHANGED <<healthy, generation, mutex, probes, failures, fresh, probe, up, worker, current>>
          /\ mutex = NONE
      BY <1>5 DEF Tick, Tracker!Tick, Tracker!flags, Tracker!active, executor, store
    <2>2. DOMAIN act' = Threads /\ \A p \in Threads : "at" \in DOMAIN act'[p] /\ act'[p].at = act[p].at
      BY <1>5, Zenon DEF Tick, Tracker!Tick, Tracker!Thread, Threads, BreakerInv, TrackerOK
    <2>3. TrackerOK'
      BY <2>1, <2>2, Zenon DEF BreakerInv, TrackerOK
    <2>4. \A p \in Threads : \/ act'[p].at = act[p].at
                             \/ ~Critical(p) /\ act'[p].at \notin {"bump", "reset", "open"}
      BY <2>2
    <2>5. UNCHANGED <<healthy, generation, mutex, probes, failures, fresh, probe, up, worker, current>>
      BY <2>1
    <2>6. UNCHANGED <<sinceTrip, cooldown>> \/ mutex = NONE
      BY <2>1, Zenon
    <2>7. MovesOutside
      BY <2>4, Zenon DEF MovesOutside
    <2> QED BY <2>3, <2>5, <2>6, <2>7, ActStep, Zenon
  <1> QED BY <1>1, <1>2, <1>3, <1>4, <1>5, Zenon

----------------------------------------------------------------------------
(* The theorems                                                            *)

\* BreakerInv is inductive.
LEMMA BreakerNext ==
    ASSUME BreakerInv, [Next]_vars
    PROVE  BreakerInv'
  <1>1. CASE UNCHANGED vars
    <2>1. CheckOK' /\ (Asking' => Asking /\ probe'.gen = probe.gen)
      BY <1>1, ZenonT(60) DEF vars, executor, store, BreakerInv, CheckOK, Asking
    <2> QED BY <1>1, <2>1, TrackerSame, Zenon DEF vars
  <1>2. ASSUME NEW c \in Caller, Call(c) \/ Return(c) \/ RecordPassiveResult(c)
        PROVE  BreakerInv'
    BY <1>2, CallerStep, Zenon
  <1>3. CASE ProbeLoop \/ CheckHealth \/ Run \/ AwaitCheck
    BY <1>3, ProbeThreadStep, Zenon
  <1>4. CASE RecordProbe
    BY <1>4, RecordProbeStep, Zenon
  <1>5. CASE Transition
    <2>1. UNCHANGED <<probe, worker, current, up>> /\ Loop \in Threads
      BY <1>5 DEF Transition, executor, store, Threads
    <2> QED BY <1>5, <2>1, BumpStep, HealStep, Zenon DEF Transition, Tracker!ProbeStep
  <1>6. ASSUME NEW w \in Worker, Check(w) PROVE BreakerInv'
    BY <1>6, OtherStep
  <1>7. CASE Stop \/ JoinLoop \/ Start \/ Destroy \/ Flip \/ Tick
    BY <1>7, OtherStep
  <1> QED BY <1>1, <1>2, <1>3, <1>4, <1>5, <1>6, <1>7, Zenon DEF Next, ProbeStep

\* In every reachable state the counter of the window is exact, one thread at
\* most is inside mutex_, and a full window that closes the breaker holds no
\* result older than the last trip.
THEOREM BreakerInvariant == Spec => []BreakerInv
  <1>1. Init => BreakerInv
    BY BreakerInit
  <1>2. BreakerInv /\ [Next]_vars => BreakerInv'
    BY BreakerNext
  <1> QED BY <1>1, <1>2, PTL DEF Spec

\* The breaker closes again only on a full window of successful checks begun
\* after the last trip, and not before the cooldown is over (RecordProbe).
THEOREM RecoveryIsEarned == Spec => RecoveryEarned
  <1> DEFINE Earned == ~healthy /\ healthy' =>
                          /\ Len(probes) = WindowSize
                          /\ \A i \in DOMAIN probes : probes[i].ok /\ probes[i].fresh
                          /\ sinceTrip >= cooldown
  <1>1. BreakerInv /\ [Next]_vars => [Earned]_vars
    <2> SUFFICES ASSUME BreakerInv, [Next]_vars, ~healthy, healthy' PROVE HealOK /\ act[Loop].at = "open"
      BY DEF BreakerInv, HealOK
    <2>1. \A p \in Threads : ~(Tracker!Bump(p))
      BY Zenon DEF Tracker!Bump
    <2>2. \A p \in Threads : \A lag : ~Tracker!Trip(p, lag)
      BY DEF Tracker!Trip
    <2>3. ~UNCHANGED healthy
      BY Zenon
    <2>4. Tracker!Open(Loop)
      BY <2>1, <2>2, <2>3, ZenonT(60)
      DEF Next, ProbeStep, Call, Return, RecordPassiveResult, ProbeLoop, CheckHealth, Run, AwaitCheck,
          RecordProbe, Transition, Check, Stop, JoinLoop, Start, Destroy, Flip, Tick, vars, tracker, Threads,
          Tracker!RecordIo, Tracker!IoStep, Tracker!Count, Tracker!GetStats, Tracker!LockAndTrip,
          Tracker!SamplePassiveWindow, Tracker!Capture, Tracker!RecordProbe, Tracker!Heal,
          Tracker!ProbeStep, Tracker!Reset, Tracker!Tick, Tracker!flags
    <2> QED BY <2>4, Zenon DEF Tracker!Open, Tracker!At, BreakerInv
  <1> QED BY <1>1, BreakerInvariant, PTL DEF Spec, RecoveryEarned
=============================================================================

---------------------------- MODULE HealthTracker ----------------------------
(***************************************************************************)
(* The circuit breaker of a store or a backend (health_tracker.h).  Probes *)
(* and I/O results trip it, probes alone heal it.  Changes are made under  *)
(* mutex_; the result of an I/O is counted, and healthy_ and generation_   *)
(* are read, without it, so a change is one step per word that others can  *)
(* see.                                                                    *)
(*                                                                         *)
(* Times are kept as ticks since the event, up to the point where nothing  *)
(* depends on more.                                                        *)
(***************************************************************************)
EXTENDS Integers, Sequences, FiniteSets

CONSTANTS
    Caller,             \* threads that do I/O
    Prober,             \* threads that probe
    WindowSize,         \* healthWindowSize
    FailureThreshold, PassiveThreshold, PassiveWindow,
    InitialCooldown, MaxCooldown, BackoffFactor, StableReset,
    CounterRange,       \* 2^64: the counters wrap
    MaxLag,             \* bound: ticks between the clock reading of RecordIo and its end
    NONE

VARIABLES
    healthy, generation,
    mutex,          \* the thread inside mutex_
    counted,        \* the failures counted by totalFailure_, oldest first
    base,           \* windowFailure_
    snapshots,
    probes, failures,       \* HealthWindow: results_ and failures_
    cooldown, sinceTrip,    \* recoverAfter_ is sinceTrip = cooldown
    sinceRecovery,          \* recoveredAt_
    act,            \* the call a thread is in
    resetAt,        \* history: totalFailure_ at the last recovery
    fresh           \* history: no trip since a prober captured the generation

flags == <<healthy, generation, mutex>>
passive == <<counted, base, snapshots, resetAt>>
active == <<probes, failures, fresh>>
timing == <<cooldown, sinceTrip, sinceRecovery>>
vars == <<flags, passive, active, timing, act>>

Thread == Caller \cup Prober
Out == [at |-> "out"]
At(p, step) == act[p].at = step
Total == Len(counted)
Least(a, b) == IF a <= b THEN a ELSE b

Init ==
    /\ healthy = TRUE /\ generation = 0 /\ mutex = NONE
    /\ counted = <<>> /\ base = 0 /\ snapshots = <<>> /\ resetAt = 0
    /\ probes = <<>> /\ failures = 0 /\ fresh = [p \in Prober |-> FALSE]
    /\ cooldown = 0 /\ sinceTrip = 0 /\ sinceRecovery = NONE
    /\ act = [p \in Thread |-> Out]

----------------------------------------------------------------------------
(* The transitions, by a thread that holds mutex_                          *)

\* The back-off of ToUnhealthy.
NextCooldown(sinceThen) ==
    IF sinceRecovery # NONE /\ sinceThen < StableReset
    THEN Least(cooldown * BackoffFactor, MaxCooldown)
    ELSE InitialCooldown

\* ToUnhealthy up to healthy_.store(false), by a call that read the clock lag
\* ticks ago.
Trip(p, lag) ==
    /\ cooldown' = NextCooldown(IF sinceRecovery = NONE THEN NONE ELSE sinceRecovery - lag)
    /\ sinceTrip' = lag
    /\ healthy' = FALSE
    /\ mutex' = p
    /\ act' = [act EXCEPT ![p] = [at |-> "bump"]]
    /\ fresh' = [q \in Prober |-> FALSE]
    /\ UNCHANGED <<generation, sinceRecovery>>

\* The rest of it.
Bump(p) ==
    /\ At(p, "bump")
    /\ generation' = generation + 1
    /\ probes' = <<>> /\ failures' = 0
    /\ mutex' = NONE
    /\ act' = [act EXCEPT ![p] = Out]
    /\ UNCHANGED <<healthy, passive, fresh, timing>>

\* ToHealthy: the generation, the passive window, healthy_.
Heal(p) ==
    /\ generation' = generation + 1
    /\ mutex' = p
    /\ act' = [act EXCEPT ![p] = [at |-> "reset"]]
    /\ UNCHANGED <<healthy, timing, fresh>>

\* Variation of Reset: the passive window keeps what it counted.
ResetNot(p) ==
    /\ At(p, "reset")
    /\ snapshots' = <<>> /\ resetAt' = Total
    /\ sinceRecovery' = 0
    /\ act' = [act EXCEPT ![p] = [at |-> "open"]]
    /\ UNCHANGED <<flags, counted, base, active, cooldown, sinceTrip>>

Reset(p) ==
    /\ At(p, "reset")
    /\ base' = Total /\ snapshots' = <<>> /\ resetAt' = Total
    /\ sinceRecovery' = 0
    /\ act' = [act EXCEPT ![p] = [at |-> "open"]]
    /\ UNCHANGED <<flags, counted, active, cooldown, sinceTrip>>

Open(p) ==
    /\ At(p, "open")
    /\ healthy' = TRUE /\ mutex' = NONE
    /\ act' = [act EXCEPT ![p] = Out]
    /\ UNCHANGED <<generation, passive, active, timing>>

----------------------------------------------------------------------------
(* RecordProbe                                                             *)

\* Generation() before a probe.
Capture(p) ==
    /\ fresh' = [fresh EXCEPT ![p] = TRUE]
    /\ UNCHANGED <<flags, passive, probes, failures, timing, act>>

\* HealthWindow::Record.
WindowRecord(ok, new) ==
    LET full == Len(probes) = WindowSize
        left == IF full THEN Tail(probes) ELSE probes
    IN
    /\ probes' = Append(left, [ok |-> ok, fresh |-> new])
    /\ failures' = failures - (IF full /\ ~Head(probes).ok THEN 1 ELSE 0)
                            + (IF ok THEN 0 ELSE 1)

\* Variation of Stale: a result is taken whenever it comes.
StaleNot(gen) == FALSE

Stale(gen) == gen # generation

RecordProbe(p, gen, ok) ==
    /\ mutex = NONE /\ At(p, "out")
    /\ IF Stale(gen) THEN UNCHANGED <<flags, active, timing, act>>
       ELSE /\ WindowRecord(ok, fresh[p])
            /\ IF healthy /\ failures' >= FailureThreshold THEN Trip(p, 0)
               ELSE IF ~healthy /\ Len(probes') = WindowSize /\ failures' = 0
                       /\ sinceTrip >= cooldown
                    THEN Heal(p)
                    ELSE UNCHANGED <<flags, fresh, timing, act>>
    /\ UNCHANGED passive

----------------------------------------------------------------------------
(* RecordIo                                                                *)

\* A result is counted when the breaker is closed and was not tripped since
\* the I/O began.  Successes are only reported.  The clock is read here.
RecordIo(c, gen, ok) ==
    /\ At(c, "out")
    /\ act' = [act EXCEPT ![c] =
          IF healthy /\ ~Stale(gen) /\ ~ok THEN [at |-> "count", gen |-> gen, lag |-> 0, seen |-> 0] ELSE Out]
    /\ UNCHANGED <<flags, passive, active, timing>>

Count(c) ==
    /\ At(c, "count")
    /\ counted' = Append(counted, [gen |-> act[c].gen, age |-> 0])
    /\ act' = [act EXCEPT ![c].at = "stats"]
    /\ UNCHANGED <<flags, base, snapshots, resetAt, active, timing>>

\* The failures in the window, as an unsigned difference.
Exceeded(total, start) == (total - start) % CounterRange >= PassiveThreshold

\* The start of the window is read before the total.
GetStats(c) ==
    /\ \/ /\ At(c, "stats")
          /\ act' = [act EXCEPT ![c].at = "more", ![c].seen = base]
       \/ /\ At(c, "more")
          /\ act' = [act EXCEPT ![c] =
                IF Exceeded(Total, act[c].seen)
                THEN [at |-> "lock", gen |-> act[c].gen, lag |-> act[c].lag, seen |-> 0] ELSE Out]
    /\ UNCHANGED <<flags, passive, active, timing>>

LockAndTrip(c) ==
    /\ At(c, "lock") /\ mutex = NONE
    /\ IF healthy /\ ~Stale(act[c].gen) THEN Trip(c, act[c].lag)
       ELSE act' = [act EXCEPT ![c] = Out] /\ UNCHANGED <<flags, timing, fresh>>
    /\ UNCHANGED <<passive, probes, failures>>

----------------------------------------------------------------------------
\* Variation of UpdateWindowStart: the window starts anew with every sample.
UpdateWindowStartNow ==
    /\ base' = Total /\ snapshots' = <<>>

\* The newest snapshot that is a whole window old is the start of the window.
UpdateWindowStart ==
    LET taken == Append(snapshots, [age |-> 0, failures |-> Total])
        old == {i \in 1 .. Len(taken) : taken[i].age >= PassiveWindow}
    IN
    /\ base' = IF old = {} THEN base ELSE taken[Cardinality(old)].failures
    /\ snapshots' = SubSeq(taken, Cardinality(old) + 1, Len(taken))

SamplePassiveWindow ==
    /\ mutex = NONE
    /\ UpdateWindowStart
    /\ UNCHANGED <<flags, counted, resetAt, active, timing, act>>

\* Time passes, while nobody holds mutex_: the clock readings under it are not
\* ticks apart.  A RecordIo may take longer.
Older(age, limit) == Least(age + 1, limit)
Lagging == {p \in Thread : ~At(p, "out")}

Tick ==
    /\ mutex = NONE
    /\ \A p \in Lagging : act[p].lag < MaxLag
    /\ act' = [p \in Thread |-> IF p \in Lagging THEN [act[p] EXCEPT !.lag = @ + 1] ELSE act[p]]
    /\ sinceTrip' = Older(sinceTrip, MaxCooldown)
    /\ sinceRecovery' = IF sinceRecovery = NONE THEN NONE
                        ELSE Older(sinceRecovery, StableReset + MaxLag)
    /\ snapshots' = [i \in DOMAIN snapshots |->
          [snapshots[i] EXCEPT !.age = Older(@, PassiveWindow)]]
    /\ counted' = [i \in DOMAIN counted |-> [counted[i] EXCEPT !.age = Older(@, PassiveWindow)]]
    /\ UNCHANGED <<flags, base, resetAt, active, cooldown>>

IoStep(c) == Count(c) \/ GetStats(c) \/ LockAndTrip(c) \/ Bump(c)
ProbeStep(p) == Bump(p) \/ Reset(p) \/ Open(p)
=============================================================================

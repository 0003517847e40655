---------------------------- MODULE HealthBreaker ----------------------------
(***************************************************************************)
(* The health breaker in front of a store (health_breaker_store.cc): the   *)
(* probe loop, the one caller of CheckHealth, runs checks through the      *)
(* executor and gives the results to the tracker, the I/O of the callers   *)
(* goes to the store while the breaker is closed and its result to the     *)
(* tracker.  The store is up or down; a check that meets an outage may     *)
(* hang, any other answers in time.                                        *)
(***************************************************************************)
EXTENDS Integers, Sequences, FiniteSets

CONSTANTS
    Caller,
    Loop,               \* probeThread_
    WindowSize, FailureThreshold, PassiveThreshold, PassiveWindow,
    InitialCooldown, MaxCooldown, BackoffFactor, StableReset, CounterRange,
    Worker, MaxInFlight,
    MaxFlips,           \* bound: how often the store goes down or up
    MaxFailures,        \* bound: failures counted
    MaxStops,           \* bound: calls of Stop
    MaxLag,             \* bound: ticks a RecordIo may take
    NONE

ValidConfig ==                  \* StoreHealthConfig::Validate
    /\ WindowSize \in Nat /\ FailureThreshold \in 1 .. WindowSize
    /\ PassiveThreshold \in Nat \ {0} /\ PassiveWindow \in Nat \ {0}
    /\ InitialCooldown \in Nat /\ MaxCooldown \in Nat /\ InitialCooldown <= MaxCooldown
    /\ BackoffFactor \in Nat \ {0} /\ StableReset \in Nat \ {0}
    /\ CounterRange \in Nat \ {0}
    /\ IsFiniteSet(Caller) /\ MaxFailures \in Nat /\ MaxFailures < CounterRange
    /\ MaxInFlight \in Nat \ {0} /\ Cardinality(Worker) >= MaxInFlight
    /\ NONE \notin Caller \cup {Loop} \cup Worker /\ Loop \notin Caller

ASSUME ConfigAssumption == ValidConfig

VARIABLES
    healthy, generation, mutex, counted, base, snapshots, probes, failures,
    cooldown, sinceTrip, sinceRecovery, act, resetAt, fresh,    \* the tracker
    worker, current, cleanup, runner,                           \* the executor
    io,             \* the I/O of a caller and the generation it began in
    probe,          \* where the probe thread is, in CheckHealth or outside
    stops,          \* stop_ is set when odd
    slept,          \* the probe thread has waited its interval
    up, flips,      \* the store
    slow            \* the checks that met an outage

tracker == <<healthy, generation, mutex, counted, base, snapshots, probes, failures,
             cooldown, sinceTrip, sinceRecovery, act, resetAt, fresh>>
executor == <<worker, current, cleanup, runner>>
store == <<up, flips, slow>>
vars == <<tracker, executor, io, probe, stops, slept, store>>

Tracker == INSTANCE HealthTracker WITH Prober <- {Loop}
Executor == INSTANCE HealthCheckExecutor

Idle == [at |-> "idle"]
stop == stops % 2 = 1

Init ==
    /\ Tracker!Init
    /\ Executor!Init
    /\ io = [c \in Caller |-> Idle]
    /\ probe = Idle
    /\ stops = 0
    /\ slept = FALSE
    /\ up = TRUE /\ flips = 0 /\ slow = {}

Free(p) == Tracker!At(p, "out")
Closing == probe.at \in {"closing", "closed"}

----------------------------------------------------------------------------
(* The callers                                                             *)

\* Wait, or a Lookup that Enabled lets through, up to the call of the store.
Call(c) ==
    /\ io[c] = Idle /\ Free(c) /\ ~Closing
    /\ io' = [io EXCEPT ![c] = [at |-> "store", gen |-> generation]]
    /\ UNCHANGED <<tracker, executor, probe, stops, slept, store>>

Pending == {c \in Caller : Tracker!At(c, "count")}

\* The store answers; a status about the request alone is not recorded.
Return(c) ==
    /\ io[c].at = "store"
    /\ \/ /\ up \/ Len(counted) + Cardinality(Pending) < MaxFailures
          /\ Tracker!RecordIo(c, io[c].gen, up)
       \/ UNCHANGED tracker
    /\ io' = [io EXCEPT ![c] = Idle]
    /\ UNCHANGED <<executor, probe, stops, slept, store>>

RecordPassiveResult(c) ==
    /\ Tracker!IoStep(c)
    /\ UNCHANGED <<executor, io, probe, stops, slept, store>>

----------------------------------------------------------------------------
(* CheckHealth and the probe loop                                          *)

Goto(step) == probe' = [probe EXCEPT !.at = step]
Result(ok) == probe' = [at |-> "record", gen |-> probe.gen, ok |-> ok]

ProbeLoop ==
    /\ probe = Idle /\ Free(Loop) /\ slept /\ ~stop
    /\ slept' = FALSE
    /\ Tracker!SamplePassiveWindow
    /\ Goto("check")
    /\ UNCHANGED <<executor, io, stops, store>>

CheckHealth ==
    /\ probe.at = "check"
    /\ Tracker!Capture(Loop)
    /\ probe' = [at |-> "run", gen |-> generation]
    /\ UNCHANGED <<executor, io, stops, slept, store>>

Run ==
    /\ probe.at = "run"
    /\ \/ /\ Executor!RunBegin(Loop)
          /\ Goto("wait")
          /\ slow' = IF up THEN slow \ {current'} ELSE slow \cup {current'}
       \/ Executor!RunReject /\ Result(FALSE) /\ UNCHANGED slow
    /\ UNCHANGED <<tracker, io, stops, slept, up, flips>>

AwaitCheck ==
    /\ probe.at = "wait"
    /\ \/ Executor!RunReturns(Loop) /\ Result(worker[current].status)
       \/ Executor!RunTimeout(Loop) /\ current \in slow /\ Result(FALSE)
    /\ UNCHANGED <<tracker, io, stops, slept, store>>

RecordProbe ==
    /\ probe.at = "record"
    /\ Tracker!RecordProbe(Loop, probe.gen, probe.ok)
    /\ probe' = Idle
    /\ UNCHANGED <<executor, io, stops, slept, store>>

Transition ==
    /\ Tracker!ProbeStep(Loop)
    /\ UNCHANGED <<executor, io, probe, stops, slept, store>>

\* The worker threads.  A check that met no outage finds the store up.
Check(w) ==
    /\ \/ Executor!Take(w) \/ Executor!Exit(w)
       \/ \E status \in IF w \in slow /\ up THEN BOOLEAN ELSE {up} : Executor!Finish(w, status)
    /\ UNCHANGED <<tracker, io, probe, stops, slept, store>>

----------------------------------------------------------------------------
(* Stop, Start and the destructor                                          *)

Stop ==
    /\ ~stop /\ stops < 2 * MaxStops
    /\ stops' = stops + 1
    /\ UNCHANGED <<tracker, executor, io, probe, slept, store>>

JoinLoop ==
    /\ stop /\ probe = Idle /\ Free(Loop)
    /\ Goto("gone")
    /\ UNCHANGED <<tracker, executor, io, stops, slept, store>>

Start ==
    /\ probe.at = "gone"
    /\ stops' = stops + 1
    /\ slept' = FALSE
    /\ probe' = Idle
    /\ UNCHANGED <<tracker, executor, io, store>>

\* The destructor, when nobody calls any more.
Destroy ==
    /\ \/ /\ probe.at = "gone"
          /\ \A c \in Caller : io[c] = Idle /\ Free(c)
          /\ Executor!StopBegin(Loop)
          /\ Goto("closing")
       \/ /\ probe.at = "closing"
          /\ Executor!StopReturns(Loop)
          /\ Goto("closed")
    /\ UNCHANGED <<tracker, io, stops, slept, store>>

----------------------------------------------------------------------------
(* The store and the clock                                                 *)

Flip ==
    /\ flips < MaxFlips
    /\ flips' = flips + 1
    /\ up' = ~up
    /\ slow' = IF up THEN {w \in Worker : worker[w].check \/ worker[w].busy} ELSE slow
    /\ UNCHANGED <<tracker, executor, io, probe, stops, slept>>

Tick ==
    /\ Tracker!Tick
    /\ slept' = TRUE
    /\ UNCHANGED <<executor, io, probe, stops, store>>

ProbeStep == CheckHealth \/ Run \/ AwaitCheck \/ RecordProbe \/ Transition

Next ==
    \/ \E c \in Caller : Call(c) \/ Return(c) \/ RecordPassiveResult(c)
    \/ ProbeLoop
    \/ ProbeStep
    \/ \E w \in Worker : Check(w)
    \/ Stop \/ JoinLoop \/ Start \/ Destroy \/ Flip \/ Tick

Spec == Init /\ [][Next]_vars

\* Threads that can run do, time passes, and a store that is up answers.  One
\* that is down need not.
FairSpec ==
    /\ Spec
    /\ \A c \in Caller : WF_vars(RecordPassiveResult(c))
    /\ WF_vars(ProbeLoop) /\ WF_vars(JoinLoop) /\ WF_vars(Tick)
    /\ WF_vars(ProbeStep)
    /\ \A w \in Worker : WF_vars(up /\ Check(w))

----------------------------------------------------------------------------
(* The inductive invariant behind RecoveryEarned                           *)

Threads == Caller \cup {Loop}
Critical(p) == act[p].at \in {"bump", "reset", "open"}
Tripping == \E p \in Threads : act[p].at = "bump"
Asking == probe.at \in {"run", "wait", "record"}
Bad(s) == {i \in DOMAIN s : ~s[i].ok}

TrackerOK ==
    /\ healthy \in BOOLEAN /\ generation \in Nat
    /\ DOMAIN act = Threads /\ \A p \in Threads : "at" \in DOMAIN act[p]
    /\ fresh \in [{Loop} -> BOOLEAN]

\* The counter of HealthWindow is the number of failed checks in the window.
WindowOK ==
    /\ probes \in Seq([ok : BOOLEAN, fresh : BOOLEAN])
    /\ failures = Cardinality(Bad(probes))

WorkerState == [check : BOOLEAN, busy : BOOLEAN, done : BOOLEAN, status : BOOLEAN,
                stop : BOOLEAN, exited : BOOLEAN]

CheckOK ==
    /\ worker \in [Worker -> WorkerState]
    /\ current \in Worker \cup {NONE} /\ up \in BOOLEAN
    /\ probe \in      [at : {"idle", "check", "gone", "closing", "closed"}]
                 \cup [at : {"run", "wait"}, gen : Nat]
                 \cup [at : {"record"}, gen : Nat, ok : BOOLEAN]
    /\ probe.at = "wait" => current \in Worker

MutexOK == \A p \in Threads : Critical(p) => mutex = p

\* A check begun before the last trip has an older generation, as soon as the
\* trip is complete, and so has left no result.
FreshOK ==
    /\ Asking => probe.gen <= generation
    /\ Asking /\ probe.gen = generation /\ ~healthy /\ ~Tripping => fresh[Loop]
    /\ ~healthy /\ ~Tripping => \A i \in DOMAIN probes : probes[i].fresh

\* What ToHealthy was called for still holds when it closes the breaker.
HealOK ==
    act[Loop].at \in {"reset", "open"} =>
        /\ Len(probes) = WindowSize
        /\ \A i \in DOMAIN probes : probes[i].ok /\ probes[i].fresh
        /\ sinceTrip >= cooldown

BreakerInv == TrackerOK /\ WindowOK /\ CheckOK /\ MutexOK /\ FreshOK /\ HealOK

----------------------------------------------------------------------------
(* The inductive invariant behind the two properties of the passive window *)

Recording(c) == act[c].at \in {"count", "stats", "more", "lock"}
Recent == {i \in DOMAIN counted : counted[i].gen = generation /\ counted[i].age < PassiveWindow}

IoState == [at : {"out", "bump"}]
           \cup [at : {"count", "stats", "more", "lock"}, gen : Nat, lag : Nat, seen : Nat]

PassiveTypeOK ==
    /\ \A c \in Caller : act[c] \in IoState
    /\ act[Loop] \in [at : {"out", "bump", "reset", "open"}]
    /\ counted \in Seq([gen : Nat, age : Nat])
    /\ snapshots \in Seq([age : Nat, failures : Nat])
    /\ base \in Nat /\ resetAt \in Nat

\* The counters do not wrap within the bound.
CountedOK == Len(counted) + Cardinality(Pending) <= MaxFailures

\* Results are of this generation or an older one, of an older one as long as
\* the breaker is open.
GenerationOK ==
    /\ \A i \in DOMAIN counted : counted[i].gen <= generation
    /\ \A c \in Caller : Recording(c) => act[c].gen <= generation
    /\ ~healthy /\ ~Tripping =>
          /\ \A i \in DOMAIN counted : counted[i].gen < generation
          /\ \A c \in Caller : Recording(c) => act[c].gen < generation
    /\ \A p \in Threads : Critical(p) => ~healthy

\* What is before the start of the window is older than the window.
WindowStartOK ==
    /\ resetAt <= base /\ base <= Len(counted)
    /\ \A i \in 1 .. base : i \notin Recent
    /\ \A j, k \in DOMAIN snapshots : j <= k => snapshots[k].age <= snapshots[j].age
    /\ \A k \in DOMAIN snapshots :
          /\ resetAt <= snapshots[k].failures /\ snapshots[k].failures <= Len(counted)
          /\ \A i \in 1 .. snapshots[k].failures : counted[i].age >= snapshots[k].age

\* What a RecordIo has read.
ReadBy(c) ==
    /\ act[c].at = "more" =>
          /\ act[c].seen <= Len(counted)
          /\ \A i \in 1 .. act[c].seen : i \notin Recent
    /\ act[c].at = "more" /\ act[c].gen = generation => resetAt <= act[c].seen
    /\ act[c].at = "lock" /\ act[c].gen = generation =>
          Len(counted) - resetAt >= PassiveThreshold

ReadOK == \A c \in Caller : ReadBy(c)

\* Somebody is on the way to trip the breaker.
Coming(c) == act[c].at \in {"stats", "more", "lock"} /\ act[c].gen = generation

TripComing ==
    healthy /\ Cardinality(Recent) >= PassiveThreshold => \E c \in Caller : Coming(c)

PassiveInv ==
    PassiveTypeOK /\ CountedOK /\ GenerationOK /\ WindowStartOK /\ ReadOK /\ TripComing

----------------------------------------------------------------------------
(* Properties                                                              *)

\* The breaker closes again only on a full window of successful checks, each
\* begun after the last trip, and not before the cooldown is over
\* (RecordProbe and the generation captured in CheckHealth).
RecoveryEarned ==
    [][~healthy /\ healthy' =>
          /\ Len(probes) = WindowSize
          /\ \A i \in DOMAIN probes : probes[i].ok /\ probes[i].fresh
          /\ sinceTrip >= cooldown]_vars

\* An I/O trips the breaker only when as many failures as the threshold were
\* counted since the breaker closed, whatever the order in which the counters
\* are read, sampled and reset (RecordIo, GetStats and Reset).
PassiveTripJustified ==
    [][healthy /\ ~healthy' /\ mutex' \in Caller =>
          Len(counted) - resetAt >= PassiveThreshold]_vars

\* Once the calls that counted them are over, as many failures as the
\* threshold within the passive window have tripped the breaker
\* (UpdateWindowStart and the unlocked PassiveThresholdExceeded).
PassiveTripNotMissed ==
    healthy /\ (\A c \in Caller : Free(c)) =>
        Cardinality(Recent) < PassiveThreshold

\* A store that is up for good is used again: the checks that hang while it is
\* down do not keep later ones from running (ProbeLoop and Run).
UpForGood == <>[](up /\ ~stop) => <>[]healthy

\* A store that is down for good is no longer used, even when every check
\* hangs (ProbeLoop and the rejection in Run).
DownForGood == <>[](~up /\ ~stop) => <>[](~healthy)

\* Stop returns, whatever the check in progress does (the join of Stop).
StopReturns == stop ~> (~stop \/ probe.at \in {"gone", "closing", "closed"})
=============================================================================

------------------------------ MODULE GcLease ------------------------------
(* The garbage collection lock of instances that share a posix backend       *)
(* (src/ucm/store/posix/cc/gc_lease.cc, with the heartbeat of                *)
(* gc_liveness.cc and the calls with a time limit of gc_executor.h).         *)
(*                                                                           *)
(* The lock is a directory with the holder's heartbeat file in it.  Every    *)
(* access is a sequence of file system calls run by the executor; the caller *)
(* waits for it or gives it up, and then it goes on by itself.  mtimes are   *)
(* kept as ages that Tick advances, up to Stale, the stale threshold.        *)
EXTENDS Naturals, FiniteSets, Functions

CONSTANTS
  Instance,
  Nonce,       \* for heartbeat names; one is drawn again once unused
  Stale,       \* posixGcStaleThresholdSec, in ticks
  MaxFaults,   \* bound: crashes, calls given up, unreachable backends
  Faulty,      \* bound: the instances that meet them
  NONE, NoDir, EmptyDir

Heartbeat == Instance \X Nonce

ASSUME LeaseAssumption ==
  /\ IsFiniteSet(Instance) /\ Stale \in Nat \ {0}
  /\ NONE \notin Instance /\ {NONE, NoDir, EmptyDir} \cap Heartbeat = {}
  /\ EmptyDir \notin {NONE, NoDir} /\ NoDir # NONE

VARIABLES
  lock,        \* the lock directory: NoDir, EmptyDir, or the heartbeat in it
  age,         \* how long ago that heartbeat was touched
  claims,      \* private claim directories: name -> "full" or "bare"
  at,          \* where each instance's check loop is
  op,          \* the call each instance waits for
  late,        \* calls given up that still run
  own,         \* heartbeatName_ of an instance that has held_ set
  beat,        \* its heartbeat thread runs
  suspect,     \* suspectHeartbeat_: a name, EmptyDir (kNoHolderMarker) or NONE; see below
  faults

leaseVars == <<lock, age, claims, at, op, late, own, beat, suspect, faults>>

NoOp == [kind |-> "none", name |-> NONE, step |-> "done", res |-> "OK",
         lag |-> 0, same |-> FALSE, moved |-> FALSE, by |-> NONE]
Call(kind, name, step) == [NoOp EXCEPT !.kind = kind, !.name = name, !.step = step]

LeaseInit ==
  /\ lock = NoDir /\ age = 0 /\ claims = << >>
  /\ at = [i \in Instance |-> "new"]
  /\ op = [i \in Instance |-> NoOp]
  /\ late = {}
  /\ own = [i \in Instance |-> NONE]
  /\ beat = [i \in Instance |-> FALSE]
  /\ suspect = [i \in Instance |-> NONE]
  /\ faults = 0

-----------------------------------------------------------------------------
(* The instance: what TryAcquire, RunGcCycle and Release do with the answer  *)
(* o of the call they waited for.  GoOn is the next call, or NoOp.           *)

Used == {lock} \cup DOMAIN claims \cup {o.name : o \in late}
          \cup UNION {{own[i], op[i].name, suspect[i]} : i \in Instance}
Fresh(i) == CHOOSE h \in {i} \X Nonce : h \notin Used

GoOn(i, place, o) == at' = [at EXCEPT ![i] = place] /\ op' = [op EXCEPT ![i] = o]
HoldSame == UNCHANGED <<own, beat, suspect>>
Fails(i) == i \in Faulty /\ faults < MaxFaults /\ faults' = faults + 1
DiskSame == UNCHANGED <<lock, age, claims, late, faults>>

Claim(i, place) == GoOn(i, place, Call("claim", Fresh(i), "make"))

TryAcquire(i) == at[i] = "idle" /\ Claim(i, "claim") /\ HoldSame /\ DiskSame

(* RunGcCycle asks HoldsLock before each round; a cycle that has nothing     *)
(* (more) to recycle ends.                                                   *)
Cycle(i, name) ==
  \/ GoOn(i, "check", Call("find", name, "list"))
  \/ GoOn(i, "leave", NoOp)

(* Claim's answer: the first of TryAcquire, or the one after a take-over.    *)
Claimed(i, o) ==
  /\ at[i] \in {"claim", "reclaim"}
  /\ IF o.res = "OK"
     THEN /\ Cycle(i, o.name)
          /\ own' = [own EXCEPT ![i] = o.name]
          /\ beat' = [beat EXCEPT ![i] = TRUE]
          /\ suspect' = [suspect EXCEPT ![i] = NONE]
     ELSE /\ IF o.res = "DuplicateKey" /\ at[i] = "claim"
             THEN GoOn(i, "probe", Call("probe", NONE, "list"))
             ELSE GoOn(i, "idle", NoOp)
          /\ HoldSame

(* The answer for what a probe found, and the suspect afterwards.  One whose *)
(* file was touched since its stat, so that suspectMtime_ can never be equal *)
(* again, is not kept.                                                       *)
\* Variation of IsStale: no second check
IsStaleOnce(o, s) == o.name # NONE /\ o.lag >= Stale

IsStale(o, s) ==
  IF o.name = NONE THEN s = EmptyDir ELSE o.lag >= Stale /\ o.same

\* Variation of NextSuspect: haveSuspect_ is never set
NextSuspectUnset(o) == NONE

NextSuspect(o) ==
  IF o.name = NONE THEN EmptyDir
  ELSE IF o.lag < Stale \/ o.moved THEN NONE
  ELSE o.name

Probed(i, o) ==
  /\ at[i] = "probe"
  /\ IF o.res # "OK" THEN GoOn(i, "idle", NoOp) /\ suspect' = suspect
     ELSE IF IsStale(o, suspect[i])
          THEN GoOn(i, "take", Call("take", o.name, "remove")) /\ suspect' = suspect
          ELSE /\ GoOn(i, "idle", NoOp)
               /\ suspect' = [suspect EXCEPT ![i] = NextSuspect(o)]
  /\ UNCHANGED <<own, beat>>

TakenOver(i, o) ==
  /\ at[i] = "take"
  /\ IF o.res = "OK" THEN Claim(i, "reclaim") ELSE GoOn(i, "idle", NoOp)
  /\ HoldSame

HoldsLock(i, o) ==
  /\ at[i] = "check"
  /\ GoOn(i, IF o.res = "OK" THEN "round" ELSE "leave", NoOp)
  /\ HoldSame

RoundEnds(i) == at[i] = "round" /\ Cycle(i, own[i]) /\ HoldSame /\ DiskSame

Release(i) ==
  /\ at[i] = "leave"
  /\ beat' = [beat EXCEPT ![i] = FALSE]
  /\ GoOn(i, "leaving", Call("find", own[i], "list"))
  /\ DiskSame /\ UNCHANGED <<own, suspect>>

(* No healthy backend: the lock stays behind.                                *)
ReleaseUnreachable(i) ==
  /\ at[i] = "leave"
  /\ Fails(i)
  /\ beat' = [beat EXCEPT ![i] = FALSE]
  /\ own' = [own EXCEPT ![i] = NONE]
  /\ GoOn(i, "idle", NoOp)
  /\ UNCHANGED <<lock, age, claims, late, suspect>>

Released(i, o) ==
  /\ \/ /\ at[i] = "leaving" /\ o.res = "OK"
        /\ GoOn(i, "released", Call("release", own[i], "remove")) /\ own' = own
     \/ /\ at[i] = "released" \/ (at[i] = "leaving" /\ o.res # "OK")
        /\ GoOn(i, "idle", NoOp) /\ own' = [own EXCEPT ![i] = NONE]
  /\ UNCHANGED <<beat, suspect>>

Answer(i, o) ==
  \/ Claimed(i, o) \/ Probed(i, o) \/ TakenOver(i, o) \/ HoldsLock(i, o) \/ Released(i, o)

-----------------------------------------------------------------------------
(* The file system calls: the next step of call o of instance i.  It becomes *)
(* x; one whose step is "done" has its result in res, which the instance     *)
(* takes unless it has given the call up.                                    *)

Done(o, res) == [o EXCEPT !.step = "done", !.res = res]

Becomes(i, o, x) ==
  IF o.by = NONE
  THEN /\ IF x.step = "done" THEN Answer(i, x)
          ELSE op' = [op EXCEPT ![i] = x] /\ at' = at /\ HoldSame
       /\ late' = late
  ELSE /\ late' = (late \ {o}) \cup {y \in {x} : y.step # "done"}
       /\ UNCHANGED <<at, op>> /\ HoldSame

Free == lock \in {NoDir, EmptyDir}
Without(n) == Restrict(claims, DOMAIN claims \ {n})

(* The directory and the heartbeat in it are private until the rename.       *)
ClaimMake(i, o) ==
  /\ o.kind = "claim" /\ o.step = "make"
  /\ claims' = [n \in DOMAIN claims \cup {o.name} |->
                  IF n = o.name THEN "full" ELSE claims[n]]
  /\ Becomes(i, o, [o EXCEPT !.step = "rename"])
  /\ UNCHANGED <<lock, age>>

(* rename replaces a directory only if that is empty.  The heartbeat was     *)
(* touched when it was made: that may be any time ago for a late call, less  *)
(* than the threshold for one that is waited for.                            *)
ClaimRename(i, o) ==
  /\ o.kind = "claim" /\ o.step = "rename"
  /\ IF o.name \notin DOMAIN claims
     THEN Becomes(i, o, Done(o, "Error")) /\ UNCHANGED <<lock, age, claims>>
     ELSE /\ claims' = Without(o.name)
          /\ IF Free
             THEN /\ lock' = IF claims[o.name] = "full" THEN o.name ELSE EmptyDir
                  /\ age' \in 0..(IF o.by = NONE THEN Stale - 1 ELSE Stale)
                  /\ Becomes(i, o, Done(o, "OK"))
             ELSE Becomes(i, o, Done(o, "DuplicateKey")) /\ UNCHANGED <<lock, age>>

ProbeList(i, o) ==
  /\ o.kind = "probe" /\ o.step = "list"
  /\ Becomes(i, o, CASE lock = NoDir  -> Done(o, "Unlocked")
                     [] lock = EmptyDir -> Done(o, "OK")
                     [] OTHER          -> [o EXCEPT !.name = lock, !.step = "stat"])
  /\ UNCHANGED <<lock, age, claims>>

(* suspect: for the comparison of the two mtimes.                            *)
ProbeStat(i, o) ==
  /\ o.kind = "probe" /\ o.step = "stat"
  /\ Becomes(i, o, IF lock = o.name
                   THEN [o EXCEPT !.step = "touch", !.lag = age,
                                  !.same = (suspect[i] = lock)]
                   ELSE Done(o, "OK"))
  /\ UNCHANGED <<lock, age, claims>>

ProbeTouch(i, o) ==
  /\ o.kind = "probe" /\ o.step = "touch"
  /\ Becomes(i, o, Done(o, "OK"))
  /\ UNCHANGED <<lock, age, claims>>

(* TakeOverLock and ReleaseLock remove the heartbeat they know by name; one  *)
(* that is gone already is as good as removed.  Then they remove the         *)
(* directory, which fails if the heartbeat of somebody else is in it by now. *)
RemoveHeartbeat(i, o) ==
  /\ o.kind \in {"take", "release"} /\ o.step = "remove"
  /\ lock' = IF lock = o.name THEN EmptyDir ELSE lock
  /\ Becomes(i, o, [o EXCEPT !.step = "rmdir"])
  /\ UNCHANGED <<age, claims>>

RemoveDir(i, o) ==
  /\ o.kind \in {"take", "release"} /\ o.step = "rmdir"
  /\ lock' = IF Free THEN NoDir ELSE lock
  /\ Becomes(i, o, Done(o, IF lock = EmptyDir \/ (lock = NoDir /\ o.kind = "take") THEN "OK"
                           ELSE IF o.kind = "take" THEN "DuplicateKey" ELSE "Error"))
  /\ UNCHANGED <<age, claims>>

FindEntry(i, o) ==
  /\ o.kind = "find" /\ o.step = "list"
  /\ Becomes(i, o, Done(o, IF lock = o.name THEN "OK" ELSE "NotFound"))
  /\ UNCHANGED <<lock, age, claims>>

Effect(i, o) ==
  \/ ClaimMake(i, o) \/ ClaimRename(i, o)
  \/ ProbeList(i, o) \/ ProbeStat(i, o) \/ ProbeTouch(i, o)
  \/ RemoveHeartbeat(i, o) \/ RemoveDir(i, o) \/ FindEntry(i, o)

-----------------------------------------------------------------------------
(* GcExecutor: a call runs for its caller, which may give it up.  One that   *)
(* was not started yet is then dropped, any other goes on as a late call; a  *)
(* late probe or search tells nobody anything and is left out.               *)

RunOp(i) == Effect(i, op[i]) /\ faults' = faults

LateOp(o) == o \in late /\ Effect(o.by, o) /\ faults' = faults

GiveUp(i) ==
  /\ op[i].step # "done"
  /\ Fails(i)
  /\ Answer(i, Done(op[i], "Timeout"))
  /\ \/ op[i].step \in {"make", "list", "remove", "stat", "touch"} /\ late' = late
     \/ /\ op[i].step = "rename" \/ op[i].kind \in {"take", "release"}
        /\ late' = late \cup {[op[i] EXCEPT !.by = i]}
  /\ UNCHANGED <<lock, age, claims>>
=============================================================================

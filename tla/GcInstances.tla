---------------------------- MODULE GcInstances ----------------------------
(* The instances of the posix store that share a backend: each joins         *)
(* (GcConfigGuard), then competes for the garbage collection lock (GcLease)  *)
(* until it leaves or dies.  Time passes here, and heartbeats are sent.      *)
(*                                                                           *)
(* Timing.  A live holder refreshes its heartbeat, and a live instance       *)
(* passes the gate, before the stale threshold: Tick waits for them.         *)
(* Anybody may pause between looking at an mtime and at the clock.           *)
EXTENDS GcLease

CONSTANTS Configs   \* the configs the instances may have: functions on Instance

VARIABLES gate, gateAge, gateHeld, seen, published, members, memberAge, config, stage

Guard == INSTANCE GcConfigGuard
guardVars == <<gate, gateAge, gateHeld, seen, published, members, memberAge, config, stage>>
vars == <<leaseVars, guardVars>>

Init == LeaseInit /\ Guard!GuardInit

Alive(i) == stage[i] \notin {"failed", "left", "dead"}

-----------------------------------------------------------------------------
(* SweepClaims, before the check loop starts: of each claim directory that   *)
(* is old, first the heartbeat is removed, then the directory.  Only one     *)
(* whose call was given up or whose instance died can be old.                *)

Leaked == {n \in DOMAIN claims : \A i \in Instance : Alive(i) => op[i].name # n}

SweepHeartbeat(i) ==
  /\ at[i] = "new" /\ stage[i] = "joined"
  /\ \E n \in Leaked : /\ claims' = [claims EXCEPT ![n] = "bare"]
                       /\ GoOn(i, "sweep", [NoOp EXCEPT !.name = n])
  /\ UNCHANGED <<lock, age, late, own, beat, suspect, faults>>

SweepDir(i) ==
  /\ at[i] = "sweep"
  /\ claims' = Without(op[i].name)
  /\ GoOn(i, "new", NoOp)
  /\ UNCHANGED <<lock, age, late, own, beat, suspect, faults>>

StartLoop(i) ==
  /\ at[i] = "new" /\ stage[i] = "joined"
  /\ GoOn(i, "idle", NoOp)
  /\ DiskSame /\ HoldSame

-----------------------------------------------------------------------------
(* GcHeartbeat::Loop for the lock: touch the file, or end when it is gone.   *)
Refresh(i) ==
  /\ beat[i]
  /\ IF lock = own[i]
     THEN /\ age' = 0 /\ beat' = beat
          /\ suspect' = [j \in Instance |->
               IF suspect[j] = lock THEN NONE ELSE suspect[j]]
          /\ op' = [j \in Instance |->
               IF op[j].kind = "probe" /\ op[j].name = lock /\ op[j].step = "touch"
               THEN [op[j] EXCEPT !.moved = TRUE] ELSE op[j]]
     ELSE beat' = [beat EXCEPT ![i] = FALSE] /\ UNCHANGED <<age, suspect, op>>
  /\ UNCHANGED <<lock, claims, at, late, own, faults>>

(* The heartbeat in the lock has a live holder to refresh it.                *)
Kept == \E i \in Instance : beat[i] /\ own[i] = lock

Aged(n) == IF n < Stale THEN n + 1 ELSE n

Tick ==
  /\ Kept => age + 1 < Stale
  /\ (\E i \in Instance : Alive(i) /\ gateHeld[i]) => gateAge + 1 < Stale
  /\ age' = IF Free THEN 0 ELSE Aged(age)
  /\ op' = [i \in Instance |->
       IF op[i].kind = "probe" /\ op[i].step = "touch" THEN [op[i] EXCEPT !.lag = Aged(@)]
       ELSE op[i]]
  /\ gateAge' = IF gate THEN Aged(gateAge) ELSE 0
  /\ seen' = [i \in Instance |-> IF stage[i] = "touch" THEN Aged(seen[i]) ELSE seen[i]]
  /\ memberAge' = [i \in Instance |->
       IF stage[i] = "dead" THEN Aged(memberAge[i]) ELSE memberAge[i]]
  /\ UNCHANGED <<lock, claims, at, late, own, beat, suspect, faults>>
  /\ UNCHANGED <<gate, gateHeld, published, members, config, stage>>

(* The process dies; its calls, late ones included, die with it.             *)
Crash(i) ==
  /\ Alive(i)
  /\ Fails(i)
  /\ Guard!Stages(i, "dead")
  /\ at' = [at EXCEPT ![i] = "out"]
  /\ op' = [op EXCEPT ![i] = NoOp]
  /\ own' = [own EXCEPT ![i] = NONE]
  /\ beat' = [beat EXCEPT ![i] = FALSE]
  /\ suspect' = [suspect EXCEPT ![i] = NONE]
  /\ late' = {o \in late : o.by # i}
  /\ UNCHANGED <<lock, age, claims, gate, gateAge, gateHeld, seen, published,
                 members, memberAge, config>>

(* The store is torn down between two cycles.                                *)
Leave(i) ==
  /\ at[i] = "idle"
  /\ Guard!Unregister(i)
  /\ at' = [at EXCEPT ![i] = "out"]
  /\ suspect' = [suspect EXCEPT ![i] = NONE]
  /\ UNCHANGED <<lock, age, claims, op, late, own, beat, faults>>

-----------------------------------------------------------------------------
LeaseSame == UNCHANGED leaseVars
GuardSame == UNCHANGED guardVars

JoinStep(i) ==
  \/ Guard!GateMkDir(i) /\ LeaseSame
  \/ Guard!GateStat(i) /\ LeaseSame
  \/ Guard!GateTouch(i) /\ LeaseSame
  \/ Guard!GateRmDir(i) /\ LeaseSame
  \/ Guard!CountLiveMembers(i) /\ LeaseSame
  \/ Guard!Publish(i) /\ LeaseSame
  \/ Guard!Verify(i) /\ LeaseSame
  \/ Guard!RegisterMember(i) /\ LeaseSame
  \/ Guard!ReleaseGate(i) /\ LeaseSame
GaveUpGate(i) == Guard!GateTimeout(i) /\ LeaseSame

CycleStep(i) ==
  \/ SweepHeartbeat(i) /\ GuardSame
  \/ SweepDir(i) /\ GuardSame
  \/ StartLoop(i) /\ GuardSame
  \/ RunOp(i) /\ GuardSame
  \/ TryAcquire(i) /\ GuardSame
  \/ RoundEnds(i) /\ GuardSame
  \/ Release(i) /\ GuardSame
Fault(i) ==
  \/ GiveUp(i) /\ GuardSame
  \/ ReleaseUnreachable(i) /\ GuardSame
  \/ Crash(i)
Beat(i) == Refresh(i) /\ GuardSame
LateStep == \E o \in late : LateOp(o) /\ GuardSame

Next ==
  \/ \E i \in Instance : JoinStep(i) \/ GaveUpGate(i) \/ CycleStep(i) \/ Beat(i)
                           \/ Fault(i) \/ Leave(i)
  \/ LateStep
  \/ Tick

Spec == Init /\ [][Next]_vars

(* Every call ends or is given up, the check loop goes on, and time passes.  *)
FairSpec ==
  /\ Spec /\ WF_vars(Tick)
  /\ \A i \in Instance : WF_vars(JoinStep(i) \/ CycleStep(i)) /\ WF_vars(Beat(i))

-----------------------------------------------------------------------------
(* An instance that believes it may collect really has its heartbeat in the  *)
(* lock directory: no take-over, late claim, late release or sweep of others *)
(* removes the heartbeat of a live holder (gc_lease.cc, RunGcCycle).  Names  *)
(* are unique, so there is at most one such instance.                        *)
HolderKeepsLock ==
  \A i \in Instance : at[i] \in {"check", "round"} => lock = own[i]

(* The instances that got through Setup and run have the config that is      *)
(* published, whatever order two instances join, leave or die in (Join of    *)
(* GcConfigGuard, behind the gate).  Of three, two may pass it at once.      *)
ConfigsAgree ==
  \A i \in Instance : stage[i] = "joined" => config[i] = published

(* A lock left behind by a crash, by a claim that succeeded after its caller *)
(* gave it up, or by a release that did not get through is taken over: as    *)
(* long as an instance runs, the lock is held again and again.               *)
LockRecovered ==
  []<>((\E i \in Instance : beat[i]) \/ (\A i \in Instance : ~Alive(i)))

-----------------------------------------------------------------------------
(* The inductive invariant behind HolderKeepsLock                            *)

Results == {"OK", "Error", "DuplicateKey", "Unlocked", "NotFound", "Timeout"}
Calls == [kind : {"none", "claim", "probe", "take", "find", "release"},
          name : Heartbeat \cup {NONE},
          step : {"make", "rename", "list", "stat", "touch", "remove", "rmdir", "done"},
          res : Results,
          lag : Nat, same : BOOLEAN, moved : BOOLEAN, by : Instance \cup {NONE}]

Places == {"new", "sweep", "idle", "claim", "probe", "take", "reclaim", "check", "round",
           "leave", "leaving", "released", "out"}

(* The disk, the calls and the instances' state stay in range; claims        *)
(* about to be renamed, take-overs and releases outlive their caller.        *)
FilesOk ==
  /\ lock \in Heartbeat \cup {NoDir, EmptyDir} /\ age \in Nat
  /\ claims \in [DOMAIN claims -> {"full", "bare"}]
  /\ DOMAIN claims \subseteq Heartbeat /\ IsFiniteSet(DOMAIN claims)
LateOk ==
  /\ late \in SUBSET Calls /\ IsFiniteSet(late)
  /\ \A o \in late : o.by \in Instance /\ (o.step = "rename" \/ o.kind \in {"take", "release"})
DiskOk == FilesOk /\ LateOk
TypeOK ==
  /\ DiskOk /\ at \in [Instance -> Places] /\ op \in [Instance -> Calls]
  /\ own \in [Instance -> Heartbeat \cup {NONE}] /\ beat \in [Instance -> BOOLEAN]
  /\ suspect \in [Instance -> Heartbeat \cup {NONE, EmptyDir}]
  /\ DOMAIN stage = Instance

(* Which call an instance waits for, and whose names it has.                 *)
Mine(i) == ({i} \X Nonce) \cup {NONE}
Fits(i, place, o) ==
  /\ o.by = NONE
  /\ o.kind = "claim" <=> place \in {"claim", "reclaim"}
  /\ o.kind = "probe" <=> place = "probe"
  /\ o.kind = "take" <=> place = "take"
  /\ o.kind = "find" <=> place \in {"check", "leaving"}
  /\ o.kind = "release" <=> place = "released"
  /\ o.kind \in {"claim", "find", "release"} => o.name \in Mine(i)
  /\ o.step = "rename" => o.kind = "claim"
CallOk(i) ==
  /\ Fits(i, at[i], op[i]) /\ own[i] \in Mine(i)
  /\ at[i] \notin {"new", "out"} => stage[i] = "joined"

(* Nobody but its owner i can do harm with name n: no call that was given up *)
(* has it, nobody suspects it.                                               *)
Secret(i, n) ==
  /\ n \in {i} \X Nonce
  /\ \A o \in late : o.name # n
  /\ \A j \in Instance : suspect[j] # n

(* The name of a claim that is waited for is known to its instance alone,    *)
(* and its directory is whole.                                               *)
ClaimOk(i) ==
  op[i].kind = "claim" =>
    LET n == op[i].name
    IN /\ Secret(i, n) /\ lock # n
       /\ \A j \in Instance \ {i} : op[j].name # n
       /\ n \in DOMAIN claims => claims[n] = "full"

(* A holder's heartbeat is in the lock and fresh, and whoever probes it will *)
(* find that: what they remember is newer than the threshold, or the         *)
(* heartbeat has been touched since.                                         *)
Fooled(o, a) ==
  o.kind = "probe" /\ o.step = "touch" /\ (o.same \/ ~(o.moved \/ o.lag <= a))
Holding(i) == at[i] \in {"check", "round", "leave"}
HoldOk(i) ==
  Holding(i) =>
    /\ lock = own[i] /\ beat[i] /\ age < Stale /\ Secret(i, lock)
    /\ \A j \in Instance \ {i} : op[j].name = lock =>
         op[j].kind \in {"none", "probe"} /\ ~Fooled(op[j], age)

LeaseInv ==
  TypeOK /\ \A i \in Instance : CallOk(i) /\ ClaimOk(i) /\ HoldOk(i)
=============================================================================

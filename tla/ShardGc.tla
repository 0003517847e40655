------------------------------ MODULE ShardGc ------------------------------
(* The shard garbage collector of one posix store instance                   *)
(* (src/ucm/store/posix/cc/shard_gc.cc): a check loop that samples shards,   *)
(* decides whether to recycle, and runs rounds of one task per shard on a    *)
(* ThreadPool, waiting for each round on a latch.  A task that runs too long *)
(* is finished by the pool's monitor in its worker's stead; the worker may   *)
(* come back to it at any later time.                                        *)
(*                                                                           *)
(* A file is its age: files are numbers, a smaller one is colder, and        *)
(* ShardOf places it.  Percentages count in units of 1/Unit.                 *)
EXTENDS ThreadPool, Functions, FiniteSetsExt

CONSTANTS
  Shard,
  File,            \* finite set of naturals; the order is the order of mtimes
  Contents,        \* what the backend may hold at first: sets of files
  ShardOf,         \* File -> Shard
  Id,              \* task objects of RunShardTasks
  Precise,         \* the modes to look at: subset of BOOLEAN
  SampleCount,     \* shards a sample looks at
  Threshold,       \* files per shard from which on to recycle
  Unit, RecyclePercent, ExtraPercent,
  MaxRecycle       \* posixGcMaxRecycleCountPerShard

(* What Setup demands of the configuration: posix_store.cc and               *)
(* ValidateAndInitCapacity.                                                  *)
ValidSetup ==
  /\ RecyclePercent > 0 /\ ExtraPercent > 0 /\ RecyclePercent + ExtraPercent <= Unit
  /\ (Threshold * RecyclePercent) \div Unit > 0
  /\ MaxRecycle > 0 /\ NWorker > 0
  /\ SampleCount \in 1 .. Cardinality(Shard)

ASSUME SetupAssumption == ValidSetup

(* The sets are finite, and there is always a task object that nobody uses:  *)
(* RunShardTasks allocates its tasks, while workers and the monitor may      *)
(* still hold those of earlier rounds.                                       *)
Names ==
  /\ IsFiniteSet(Worker) /\ IsFiniteSet(Shard) /\ IsFiniteSet(File) /\ IsFiniteSet(Id)
  /\ Contents \subseteq SUBSET File /\ ShardOf \in [File -> Shard]
  /\ NONE \notin Worker \cup Id
  /\ Cardinality(Id) >= Cardinality(Shard) + Cardinality(Worker) + 1

ASSUME NamesAssumption == Names

VARIABLES
  precise,   \* posixGcPreciseMode
  files,     \* the archived files on the backend
  gc,        \* where the check loop is
  trigger,   \* ShouldTrigger's answer
  limited,   \* gcLimited
  stop,      \* stop_
  held,      \* this instance's heartbeat is in the lock directory (GcLease)
  round,     \* the tasks of the current RunShardTasks
  pushes,    \* those it has still to push
  latch,     \* its waiter's counter
  task,      \* what each task object holds
  todo,      \* per worker: files its RemoveFiles has still to visit
  found,     \* per worker: what it will write into its task's result
  strays     \* history, per worker: files removed for a task already finished

gcVars == <<precise, files, gc, trigger, limited, stop, held, round, pushes, latch,
            task, todo, found, strays>>
vars == <<poolVars, gcVars>>

Nothing == [scanned |-> FALSE, files |-> 0, limited |-> FALSE, candidates |-> {}]
NoTask == [type |-> "NONE", shard |-> NONE, victims |-> {}, finished |-> TRUE,
           result |-> Nothing]

Init ==
  /\ PoolInit
  /\ precise \in Precise
  /\ files \in Contents
  /\ gc = "idle" /\ trigger = FALSE /\ limited = FALSE /\ stop = FALSE /\ held = FALSE
  /\ round = {} /\ pushes = <<>> /\ latch = 0
  /\ task = [t \in Id |-> NoTask]
  /\ todo = [w \in Worker |-> {}]
  /\ found = [w \in Worker |-> Nothing]
  /\ strays = [w \in Worker |-> 0]

-----------------------------------------------------------------------------
(* SpaceLayout *)

InShard(s) == {f \in files : ShardOf[f] = s}
Coldest(S, n) == {f \in S : Cardinality({g \in S : g < f}) < n}
Share(n, percent) == (n * percent) \div Unit

GetOldestFiles(s) ==
  Coldest(InShard(s), Min({Share(Cardinality(InShard(s)), RecyclePercent), MaxRecycle}))
GetColdestCandidates(s) ==
  Coldest(InShard(s), Min({Share(Cardinality(InShard(s)), RecyclePercent + ExtraPercent),
                           MaxRecycle}))

-----------------------------------------------------------------------------
(* FinishTask: the first of the worker and the monitor to set finished       *)
(* writes the result, if it has one, and counts the latch down.  Nobody      *)
(* reads the result or leaves Wait before Done, so a write and the Done that *)
(* follows it are one step, and so is the monitor's call, which writes       *)
(* nothing.                                                                  *)

Done(t) == latch' = IF t \in round /\ latch > 0 THEN latch - 1 ELSE latch

FinishTask(t, first, otherwise) ==
  /\ task' = [task EXCEPT ![t].finished = TRUE]
  /\ IF task[t].finished THEN otherwise ELSE first

-----------------------------------------------------------------------------
(* ProcessTask, run by worker w. *)

At(w, place) == phase[w] = place
PoolSame == UNCHANGED <<taskQ, workers, halt, current, monitor, faults, lateStop>>
Goes(w, place) == phase' = [phase EXCEPT ![w] = place] /\ PoolSame
LoopSame == UNCHANGED <<precise, gc, trigger, limited, stop, held, round, pushes>>

(* SelectNextBackend found no healthy backend.                               *)
NoBackend(w) ==
  /\ At(w, "run")
  /\ faults < MaxFaults /\ faults' = faults + 1
  /\ found' = [found EXCEPT ![w] = Nothing]
  /\ strays' = [strays EXCEPT ![w] = 0]
  /\ phase' = [phase EXCEPT ![w] = "finish"] /\ LoopSame
  /\ UNCHANGED <<taskQ, workers, halt, current, monitor, lateStop>>
  /\ UNCHANGED <<files, latch, task, todo>>

Scan(w) ==
  LET t == task[current[w]]
      oldest == IF t.type = "GC" THEN GetOldestFiles(t.shard) ELSE {}
      candidates == IF t.type = "COLLECT" THEN GetColdestCandidates(t.shard) ELSE {}
  IN /\ At(w, "run")
     /\ todo' = [todo EXCEPT ![w] = oldest \cup t.victims]
     /\ found' = [found EXCEPT ![w] =
          [scanned |-> TRUE,
           files |-> IF t.type = "SAMPLE" THEN Cardinality(InShard(t.shard)) ELSE 0,
           limited |-> \/ Cardinality(candidates) >= MaxRecycle
                       \/ Cardinality(oldest) >= MaxRecycle,
           candidates |-> candidates]]
     /\ strays' = [strays EXCEPT ![w] = 0]
     /\ Goes(w, IF todo'[w] = {} THEN "finish" ELSE "remove") /\ LoopSame
     /\ UNCHANGED <<files, latch, task>>

(* Variation of RemoveFiles: a task that was given up goes on removing       *)
(* files.                                                                    *)
RemoveFilesOn(w) ==
  /\ At(w, "remove")
  /\ IF todo[w] = {} THEN todo' = todo /\ Goes(w, "finish")
                     ELSE todo' = todo /\ Goes(w, "unlink")
  /\ LoopSame
  /\ UNCHANGED <<files, latch, task, found, strays>>

RemoveFiles(w) ==
  /\ At(w, "remove")
  /\ IF todo[w] = {} \/ task[current[w]].finished
     THEN todo' = [todo EXCEPT ![w] = {}] /\ Goes(w, "finish")
     ELSE todo' = todo /\ Goes(w, "unlink")
  /\ LoopSame
  /\ UNCHANGED <<files, latch, task, found, strays>>

RemoveFile(w) ==
  LET f == Min(todo[w])
  IN /\ At(w, "unlink")
     /\ files' = files \ {f}
     /\ todo' = [todo EXCEPT ![w] = @ \ {f}]
     /\ strays' = [strays EXCEPT ![w] = @ + IF task[current[w]].finished THEN 1 ELSE 0]
     /\ Goes(w, "remove") /\ LoopSame
     /\ UNCHANGED <<latch, task, found>>

(* Variation of Finish: the result is written whoever finished the task.     *)
FinishAlwaysWrites(w) ==
  LET t == current[w]
  IN /\ At(w, "finish")
     /\ task' = [task EXCEPT ![t].finished = TRUE,
                             ![t].result = IF task[t].finished THEN found[w] ELSE @]
     /\ IF task[t].finished THEN Back(w) ELSE Goes(w, "write")
     /\ LoopSame
     /\ UNCHANGED <<files, latch, todo, found, strays>>

Finish(w) ==
  /\ At(w, "finish")
  /\ FinishTask(current[w], Goes(w, "write"), Back(w))
  /\ LoopSame
  /\ UNCHANGED <<files, latch, todo, found, strays>>

Write(w) ==
  /\ At(w, "write")
  /\ task' = [task EXCEPT ![current[w]].result = found[w]]
  /\ Done(current[w])
  /\ found' = [found EXCEPT ![w] = Nothing]
  /\ Back(w) /\ LoopSame
  /\ UNCHANGED <<files, todo, strays>>

-----------------------------------------------------------------------------
(* OnTaskTimeout, run by the monitor. *)

(* Variation of OnTaskTimeout: the monitor counts the latch down and leaves  *)
(* finished alone.                                                           *)
OnTaskTimeoutUnset ==
  /\ monitor.at = "fire"
  /\ task' = task /\ Done(monitor.task)
  /\ monitor' = [monitor EXCEPT !.at = "detach"]
  /\ UNCHANGED <<taskQ, workers, phase, halt, current, faults, lateStop>>
  /\ LoopSame /\ UNCHANGED <<files, todo, found, strays>>

(* Variation of OnTaskTimeout: the monitor finishes the task and forgets the *)
(* latch.                                                                    *)
OnTaskTimeoutNoDone ==
  /\ monitor.at = "fire"
  /\ FinishTask(monitor.task, latch' = latch, latch' = latch)
  /\ monitor' = [monitor EXCEPT !.at = "detach"]
  /\ UNCHANGED <<taskQ, workers, phase, halt, current, faults, lateStop>>
  /\ LoopSame /\ UNCHANGED <<files, todo, found, strays>>

OnTaskTimeout ==
  LET t == monitor.task
  IN /\ monitor.at = "fire"
     /\ FinishTask(t, Done(t), latch' = latch)
     /\ monitor' = [monitor EXCEPT !.at = "detach"]
     /\ UNCHANGED <<taskQ, workers, phase, halt, current, faults, lateStop>>
     /\ LoopSame /\ UNCHANGED <<files, todo, found, strays>>

-----------------------------------------------------------------------------
(* The check loop.  RunShardTasks creates a latch and the tasks, pushes them *)
(* one by one, and waits; the action that ends a wait is the caller's next   *)
(* stretch of code.                                                          *)

InUse == Range(taskQ) \cup {current[w] : w \in Worker} \cup {monitor.task}

(* type: the tasks' type; victims: for each shard of the round, the files to *)
(* delete there; next: where the caller waits.                               *)
RunShardTasks(type, victims, next) ==
  LET n == Cardinality(DOMAIN victims)
      shards == CHOOSE f \in Injection(1 .. n, DOMAIN victims) : TRUE
      new == CHOOSE f \in Injection(1 .. n, Id \ InUse) : TRUE
      Of(i) == [type |-> type, shard |-> shards[i], victims |-> victims[shards[i]],
                finished |-> FALSE, result |-> Nothing]
  IN /\ round' = Range(new)
     /\ pushes' = new
     /\ latch' = n
     /\ task' = [t \in Id |-> IF t \in InUse THEN task[t]
                              ELSE IF t \in Range(new)
                                   THEN Of(CHOOSE i \in 1 .. n : new[i] = t)
                                   ELSE NoTask]
     /\ gc' = next

Same == UNCHANGED <<precise, files, stop, todo, found, strays>> /\ UNCHANGED poolVars

PushNext ==
  /\ pushes # <<>>
  /\ Push(Head(pushes))
  /\ pushes' = Tail(pushes)
  /\ UNCHANGED <<precise, files, gc, trigger, limited, stop, held, round, latch,
                 task, todo, found, strays>>

(* Wait has returned in the caller's stretch that ends at place.             *)
Waited(place) == gc = place /\ pushes = <<>> /\ latch = 0

Results == {task[t] : t \in round}
NoVictims(S) == [s \in S |-> {}]

ShouldTrigger ==
  \E S \in kSubset(SampleCount, Shard) : RunShardTasks("SAMPLE", NoVictims(S), "sampling")

(* TryAcquire succeeded, or there is no lease.                               *)
StartCycle ==
  /\ gc = "idle" /\ ~stop
  /\ ShouldTrigger
  /\ held' = TRUE
  /\ UNCHANGED <<trigger, limited>> /\ Same

Sampled ==
  LET seen == {t \in round : task[t].result.scanned}
      total == MapThenSumSet(LAMBDA t : task[t].result.files, seen)
  IN /\ Waited("sampling")
     /\ trigger' = (seen # {} /\ total \div Cardinality(seen) >= Threshold)
     /\ gc' = "test"
     /\ UNCHANGED <<limited, held, round, pushes, latch, task>> /\ Same

(* The while condition of RunGcCycle and HoldsLock.                          *)
RoundTest ==
  /\ gc = "test"
  /\ gc' = IF ~stop /\ trigger /\ held THEN "execute" ELSE "release"
  /\ UNCHANGED <<trigger, limited, held, round, pushes, latch, task>> /\ Same

Execute ==
  /\ gc = "execute"
  /\ IF precise THEN RunShardTasks("COLLECT", NoVictims(Shard), "collecting")
                ELSE RunShardTasks("GC", NoVictims(Shard), "recycling")
  /\ limited' = FALSE
  /\ UNCHANGED <<trigger, held>> /\ Same

(* Execute returned: a limited round goes straight to the loop condition.    *)
After(gcLimited) ==
  IF gcLimited THEN gc' = "test" /\ UNCHANGED <<round, pushes, latch, task>>
               ELSE ShouldTrigger

Recycled ==
  /\ Waited("recycling")
  /\ After(\E r \in Results : r.result.limited)
  /\ UNCHANGED <<trigger, limited, held>> /\ Same

Collected ==
  LET candidates == UNION {r.result.candidates : r \in Results}
      count == (Cardinality(candidates) * RecyclePercent)
                 \div (RecyclePercent + ExtraPercent)
      victims == Coldest(candidates, count)
  IN /\ Waited("collecting")
     /\ limited' = \E r \in Results : r.result.limited
     /\ IF victims = {} THEN After(FALSE)
        ELSE RunShardTasks("DELETE", [s \in {ShardOf[f] : f \in victims} |->
                                        {f \in victims : ShardOf[f] = s}], "deleting")
     /\ UNCHANGED <<trigger, held>> /\ Same

Deleted ==
  /\ Waited("deleting")
  /\ After(limited)
  /\ UNCHANGED <<trigger, limited, held>> /\ Same

(* lease_.Release and the wait for the next interval.                        *)
EndCycle ==
  /\ gc = "release"
  /\ gc' = "idle" /\ held' = FALSE /\ round' = {}
  /\ trigger' = FALSE /\ limited' = FALSE
  /\ UNCHANGED <<pushes, latch, task>> /\ Same

LoopEnds ==
  /\ gc = "idle" /\ stop
  /\ gc' = "ended"
  /\ UNCHANGED <<trigger, limited, held, round, pushes, latch, task>> /\ Same

StopBackgroundCheck ==
  /\ ~stop /\ stop' = TRUE
  /\ faults < MaxFaults /\ faults' = faults + 1
  /\ UNCHANGED <<taskQ, workers, phase, halt, current, monitor, lateStop>>
  /\ UNCHANGED <<precise, files, gc, trigger, limited, held, round, pushes, latch,
                 task, todo, found, strays>>

(* A peer took the lock over.                                                *)
LoseLock ==
  /\ held /\ held' = FALSE
  /\ faults < MaxFaults /\ faults' = faults + 1
  /\ UNCHANGED <<taskQ, workers, phase, halt, current, monitor, lateStop>>
  /\ UNCHANGED <<precise, files, gc, trigger, limited, stop, round, pushes, latch,
                 task, todo, found, strays>>

-----------------------------------------------------------------------------
WorkerStep(w) == NoBackend(w) \/ Scan(w) \/ RemoveFiles(w) \/ RemoveFile(w)
                   \/ Finish(w) \/ Write(w)
GcSame == UNCHANGED gcVars
PoolStep(w) == \/ Leave(w) /\ GcSame
               \/ Sleep(w) /\ GcSame
               \/ Take(w) /\ GcSame
MonitorLate(w) == MonitorRead(w) /\ GcSame
MonitorStep == \/ MonitorLock /\ GcSame
               \/ MonitorDetach /\ GcSame
               \/ MonitorSleep /\ GcSame
               \/ \E w \in Worker : AddOneWorker(w) /\ GcSame
               \/ OnTaskTimeout
LoopStep == PushNext \/ StartCycle \/ Sampled \/ RoundTest \/ Execute \/ Recycled
              \/ Collected \/ Deleted \/ EndCycle \/ LoopEnds

Next ==
  \/ \E w \in Worker : WorkerStep(w) \/ PoolStep(w) \/ MonitorLate(w)
  \/ MonitorStep
  \/ LoopStep \/ StopBackgroundCheck \/ LoseLock

Spec == Init /\ [][Next]_vars

(* A thread the pool counts goes on or is found late by the monitor; one the *)
(* monitor has given up may hang for good in a storage call (Scan,           *)
(* RemoveFile), but not in FinishTask.  The check loop and the monitor keep  *)
(* running.                                                                  *)
FairSpec ==
  /\ Spec
  /\ \A w \in Worker :
       /\ WF_vars(w \in workers /\ (WorkerStep(w) \/ PoolStep(w) \/ MonitorLate(w)))
       /\ WF_vars(Write(w))
  /\ WF_vars(MonitorStep)
  /\ WF_vars(LoopStep)
-----------------------------------------------------------------------------
(* RunShardTasks returns only when every task of its round has been finished *)
(* by its worker or by the monitor: no Done is counted twice, whichever of   *)
(* ProcessTask and OnTaskTimeout comes first (FinishTask).                   *)
RoundSettled == pushes = <<>> /\ latch = 0 => \A t \in round : task[t].finished

(* A result is written only while its own round is being waited for: what    *)
(* Execute and ShouldTrigger read after Wait no longer changes, even when a  *)
(* worker comes back to a task that was given up (FinishTask).               *)
ResultsFinal ==
  [][\A t \in Id : task'[t].result # task[t].result /\ task'[t].result # Nothing
                     => t \in round /\ latch > 0]_vars

(* A worker whose task was given up removes at most the one file it is       *)
(* removing: RemoveFiles looks at finished before each file.                 *)
GivenUpStops == \A w \in Worker : strays[w] <= 1

(* A check that has begun ends, and so does the loop after a stop: no round  *)
(* is waited for in vain, and the drain's rounds come to an end.  The one    *)
(* exception is a worker that ends its task while Monitor gives it up, and   *)
(* is stopped when it sleeps or has another task: it may take the wake-up of *)
(* a Push with it, or its task is watched by nobody.                         *)
CycleEnds == [](gc # "idle" => <>(gc \in {"idle", "ended"} \/ lateStop))

(* The same without the exception, which does not hold (README.md).          *)
EveryCycleEnds == [](gc # "idle" => <>(gc \in {"idle", "ended"}))

-----------------------------------------------------------------------------
(* The inductive invariant behind RoundSettled, ResultsFinal and             *)
(* GivenUpStops                                                              *)

Result == [scanned : BOOLEAN, files : Nat, limited : BOOLEAN, candidates : SUBSET File]
Task == [type : {"NONE", "SAMPLE", "GC", "COLLECT", "DELETE"}, shard : Shard \cup {NONE},
         victims : SUBSET File, finished : BOOLEAN, result : Result]
Busy == {"run", "remove", "unlink", "finish", "write"}
Waits == {"sampling", "recycling", "collecting", "deleting"}
Between == {"idle", "test", "execute", "release", "ended"}

(* The pool's, the loop's and the workers' state stays in range.             *)
TypeOK ==
  /\ taskQ \in Seq(Id) /\ pushes \in Seq(Id) /\ round \in SUBSET Id /\ latch \in Nat
  /\ phase \in [Worker -> Busy \cup {"loop", "asleep", "gone"}]
  /\ current \in [Worker -> Id \cup {NONE}]
  /\ monitor \in [at : {"sleep", "scan", "lock", "fire", "detach"},
                  worker : Worker \cup {NONE}, task : Id \cup {NONE}]
  /\ monitor.at = "lock" => monitor.worker \in Worker
  /\ monitor.at = "fire" => monitor.task \in Id
  /\ files \in SUBSET File /\ gc \in Waits \cup Between
  /\ task \in [Id -> Task] /\ found \in [Worker -> Result] /\ strays \in [Worker -> Nat]

(* A task is open until Done is called for it: nobody has finished it, or    *)
(* its worker is about to write its result.                                  *)
Writes(w, t) == phase[w] = "write" /\ current[w] = t
Open == {t \in round : ~task[t].finished \/ \E w \in Worker : Writes(w, t)}

(* The tasks in the hands of a worker or of the monitor.                     *)
Running == {current[w] : w \in Worker} \cup {monitor.task}

WorkersOk ==
  \A w \in Worker :
    /\ phase[w] \in Busy <=> current[w] # NONE
    /\ phase[w] = "write" => current[w] \in round /\ task[current[w]].finished
    /\ phase[w] = "unlink" => strays[w] = 0
    /\ phase[w] = "remove" /\ strays[w] # 0 => task[current[w]].finished
    /\ strays[w] <= 1

OneWriter == \A v, w \in Worker : Writes(v, current[w]) /\ Writes(w, current[w]) => v = w

(* A task that waits is in the queue, or still to be pushed, once, and       *)
(* nobody else knows it.                                                     *)
QueueOk ==
  /\ IsInjective(taskQ) /\ IsInjective(pushes)
  /\ \A t \in Range(taskQ) \cup Range(pushes) : ~task[t].finished /\ t \notin Running
  /\ Range(taskQ) \cap Range(pushes) = {}

(* Tasks of earlier rounds are finished, Done has been called for all but    *)
(* the open ones, and between two rounds nothing is waited for.              *)
OthersFinished == \A t \in Id \ round : task[t].finished
LatchExact == latch = Cardinality(Open)
QuietBetween == gc \in Between => pushes = <<>> /\ latch = 0

RoundInv ==
  TypeOK /\ WorkersOk /\ OneWriter /\ QueueOk /\ OthersFinished /\ LatchExact /\ QuietBetween
=============================================================================

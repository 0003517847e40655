----------------------------- MODULE ThreadPool -----------------------------
(* The worker pool of src/ucm/shared/infra/thread/thread_pool.h, as far as   *)
(* a user without drain calls sees it: a queue, workers that take from it,   *)
(* and a monitor that gives up a worker whose task runs too long, detaches   *)
(* its thread and starts another one.                                        *)
(*                                                                           *)
(* A worker's two stores current and tp are one variable here: the monitor   *)
(* reads tp first and current second, so a state between the two stores      *)
(* shows it nothing that the states around them do not.  What it can see is  *)
(* a tp of one task and a current of the next, and that is kept.  How long a *)
(* task has run is left open: any task may have run past the limit.          *)
EXTENDS Naturals, FiniteSets, Sequences

CONSTANTS
  Worker,        \* thread objects; an object is used again once its thread ended
  NWorker,       \* nWorker_
  MaxFaults,     \* bound: faults (and stops) in one behaviour
  NONE

VARIABLES
  taskQ,         \* taskQ_
  workers,       \* workers_: the threads the pool still counts
  phase,         \* where each thread is
  halt,          \* the thread's StopToken
  current,       \* the task the thread runs, NONE when its tp is zero
  monitor,       \* the monitor: its place, the worker and task it looks at
  faults,        \* faults so far: workers found late, and those of the user
  lateStop       \* history: a worker was stopped after it had ended its late task

poolVars == <<taskQ, workers, phase, halt, current, monitor, faults, lateStop>>

Idle == [at |-> "sleep", worker |-> NONE, task |-> NONE]
Spare == {w \in Worker : phase[w] = "gone"}
Asleep == {w \in Worker : phase[w] = "asleep"}

PoolInit ==
  /\ taskQ = <<>>
  /\ workers = CHOOSE S \in SUBSET Worker : Cardinality(S) = NWorker
  /\ phase = [w \in Worker |-> IF w \in workers THEN "loop" ELSE "gone"]
  /\ halt = [w \in Worker |-> FALSE]
  /\ current = [w \in Worker |-> NONE]
  /\ monitor = Idle
  /\ faults = 0
  /\ lateStop = FALSE

(* cv_.notify_one wakes one of the threads that wait, stopped or not.        *)
Push(t) ==
  /\ taskQ' = Append(taskQ, t)
  /\ \/ Asleep = {} /\ phase' = phase
     \/ \E w \in Asleep : phase' = [phase EXCEPT ![w] = "loop"]
  /\ UNCHANGED <<workers, halt, current, monitor, faults, lateStop>>

-----------------------------------------------------------------------------
(* The worker: the test of line 222, the wait, the take, and what follows    *)
(* the worker function.  The function itself belongs to the pool's user.     *)

Ready(w) == phase[w] = "loop"

Leave(w) ==
  /\ Ready(w) /\ halt[w]
  /\ phase' = [phase EXCEPT ![w] = "gone"]
  /\ UNCHANGED <<taskQ, workers, halt, current, monitor, faults, lateStop>>

Sleep(w) ==
  /\ Ready(w) /\ ~halt[w] /\ taskQ = <<>>
  /\ phase' = [phase EXCEPT ![w] = "asleep"]
  /\ UNCHANGED <<taskQ, workers, halt, current, monitor, faults, lateStop>>

Take(w) ==
  /\ Ready(w) /\ ~halt[w] /\ taskQ # <<>>
  /\ taskQ' = Tail(taskQ)
  /\ current' = [current EXCEPT ![w] = Head(taskQ)]
  /\ phase' = [phase EXCEPT ![w] = "run"]
  /\ UNCHANGED <<workers, halt, monitor, faults, lateStop>>

(* What the loop does after the worker function, in the function's last step. *)
Back(w) ==
  /\ phase' = [phase EXCEPT ![w] = IF halt[w] THEN "gone" ELSE "loop"]
  /\ current' = [current EXCEPT ![w] = NONE]
  /\ UNCHANGED <<taskQ, workers, halt, monitor, faults, lateStop>>

-----------------------------------------------------------------------------
(* The monitor.  Looking at a worker it does not give up changes nothing, so *)
(* a step picks the next worker it will find late.                           *)

MonitorRead(w) ==
  /\ monitor.at \in {"sleep", "scan"}
  /\ w \in workers /\ current[w] # NONE
  /\ faults < MaxFaults /\ faults' = faults + 1
  /\ monitor' = [at |-> "lock", worker |-> w, task |-> NONE]
  /\ UNCHANGED <<taskQ, workers, phase, halt, current, lateStop>>

MonitorLock ==
  /\ monitor.at = "lock"
  /\ monitor' = IF current[monitor.worker] = NONE THEN [Idle EXCEPT !.at = "scan"]
                ELSE [monitor EXCEPT !.at = "fire", !.task = current[monitor.worker]]
  /\ UNCHANGED <<taskQ, workers, phase, halt, current, faults, lateStop>>

(* RequestStop, detach, erase, after the user's timeout function.            *)
MonitorDetach ==
  /\ monitor.at = "detach"
  /\ halt' = [halt EXCEPT ![monitor.worker] = TRUE]
  /\ workers' = workers \ {monitor.worker}
  /\ monitor' = [Idle EXCEPT !.at = "scan"]
  /\ lateStop' = (lateStop \/ current[monitor.worker] # monitor.task)
  /\ UNCHANGED <<taskQ, phase, current, faults>>

AddOneWorker(w) ==
  /\ monitor.at = "scan" /\ Cardinality(workers) < NWorker
  /\ w \in Spare
  /\ workers' = workers \cup {w}
  /\ phase' = [phase EXCEPT ![w] = "loop"]
  /\ halt' = [halt EXCEPT ![w] = FALSE]
  /\ UNCHANGED <<taskQ, current, monitor, faults, lateStop>>

MonitorSleep ==
  /\ monitor.at = "scan" /\ Cardinality(workers) = NWorker
  /\ monitor' = Idle
  /\ UNCHANGED <<taskQ, workers, phase, halt, current, faults, lateStop>>
=============================================================================

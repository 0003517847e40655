---------------------------- MODULE TaskWrapper ----------------------------
(***************************************************************************)
(* Submission and completion of the tasks of a store (task_wrapper.h with  *)
(* the waiter of latch.h).  A task is submitted to a queue once and waited *)
(* for once; Wait gives up after a timeout by putting the task's id into   *)
(* the failure set the queue's threads look at, and stays until they are   *)
(* done with the task.                                                     *)
(***************************************************************************)
CONSTANTS
    Task,
    Expiring    \* the tasks whose time may run out; none with timeoutMs 0

VARIABLES
    latch,      \* counter_ of a task's waiter
    failureSet,
    caller      \* how far the caller of a task is

Init ==
    /\ latch = [t \in Task |-> 0]
    /\ failureSet = {}
    /\ caller = [t \in Task |-> "new"]

Returned == {"ok", "failed", "timeout"}

\* The queue counts the latch up and pushes the task; if its ring is full the
\* task has failed.
Submit(t, pushed) ==
    /\ caller[t] = "new"
    /\ caller' = [caller EXCEPT ![t] = "submitted"]
    /\ latch' = [latch EXCEPT ![t] = IF pushed THEN 1 ELSE 0]
    /\ failureSet' = IF pushed THEN failureSet ELSE failureSet \cup {t}

\* The threads of the queue are done with the tasks in T; those in F failed.
Done(T, F) ==
    /\ latch' = [t \in Task |-> IF t \in T THEN 0 ELSE latch[t]]
    /\ failureSet' = failureSet \cup F
    /\ UNCHANGED caller

\* WaitFor returned true.
WaitReturns(t) ==
    /\ caller[t] = "submitted" /\ latch[t] = 0
    /\ caller' = [caller EXCEPT ![t] = IF t \in failureSet THEN "failed" ELSE "ok"]
    /\ failureSet' = failureSet \ {t}
    /\ UNCHANGED latch

\* WaitFor returned false; the task may complete before Wait gets on.
WaitExpires(t) ==
    /\ t \in Expiring
    /\ caller[t] = "submitted" /\ latch[t] # 0
    /\ caller' = [caller EXCEPT ![t] = "expired"]
    /\ UNCHANGED <<latch, failureSet>>

WaitCancels(t) ==
    /\ caller[t] = "expired"
    /\ caller' = [caller EXCEPT ![t] = "draining"]
    /\ failureSet' = failureSet \cup {t}
    /\ UNCHANGED latch

WaitDrained(t) ==
    /\ caller[t] = "draining" /\ latch[t] = 0
    /\ caller' = [caller EXCEPT ![t] = "timeout"]
    /\ failureSet' = failureSet \ {t}
    /\ UNCHANGED latch

Wait(t) == WaitReturns(t) \/ WaitExpires(t) \/ WaitCancels(t) \/ WaitDrained(t)
=============================================================================

------------------------- MODULE HealthCheckExecutor -------------------------
(***************************************************************************)
(* Health checks with a timeout (health_check_executor.h).  Run gives its  *)
(* check to the current worker thread and waits; when the time is up the   *)
(* worker is put aside, with its check still running, and the next Run     *)
(* makes a new one, unless too many are aside already.                     *)
(***************************************************************************)
EXTENDS Integers, FiniteSets

CONSTANTS
    Worker,         \* thread objects
    MaxInFlight,
    NONE

VARIABLES
    worker,         \* check set, check running, done, status, stop, exited
    current,        \* current_worker_
    cleanup,        \* cleanup_
    runner          \* the thread inside Run or Stop (runMutex_)

vars == <<worker, current, cleanup, runner>>

New == [check |-> FALSE, busy |-> FALSE, done |-> FALSE, status |-> FALSE,
        stop |-> FALSE, exited |-> FALSE]

Init ==
    /\ worker = [w \in Worker |-> New]
    /\ current = NONE
    /\ cleanup = {}
    /\ runner = NONE

\* Variation of Reaped: only Stop deletes workers.
ReapedNot == {}

\* The workers put aside that have exited are deleted.
Reaped == {w \in cleanup : worker[w].exited}

Full == Cardinality(cleanup \ Reaped) >= MaxInFlight

Rejects == current = NONE /\ Full

\* Run up to the wait: the current worker, or a new one, gets the check.
RunBegin(p) ==
    /\ runner = NONE
    /\ ~Rejects
    /\ runner' = p
    /\ cleanup' = cleanup \ Reaped
    /\ \E w \in IF current # NONE THEN {current} ELSE Worker \ cleanup' :
          /\ current' = w
          /\ worker' = [v \in Worker |->
                IF v = w THEN [(IF v = current THEN worker[v] ELSE New)
                               EXCEPT !.check = TRUE, !.done = FALSE]
                ELSE IF v \in Reaped THEN New ELSE worker[v]]

\* Variation of RunReject: Run waits for one of them to exit.
RunRejectWaits == FALSE /\ UNCHANGED vars

\* Run that returns Timeout without a check.
RunReject ==
    /\ runner = NONE
    /\ Rejects
    /\ cleanup' = cleanup \ Reaped
    /\ worker' = [v \in Worker |-> IF v \in Reaped THEN New ELSE worker[v]]
    /\ UNCHANGED <<current, runner>>

RunReturns(p) ==
    /\ runner = p /\ worker[current].done
    /\ runner' = NONE
    /\ UNCHANGED <<worker, current, cleanup>>

\* Variation of RunTimeout: Run waits for as long as it takes.
RunTimeoutNever(p) == FALSE /\ UNCHANGED vars

RunTimeout(p) ==
    /\ runner = p /\ ~worker[current].done
    /\ worker' = [worker EXCEPT ![current].stop = TRUE]
    /\ cleanup' = cleanup \cup {current}
    /\ current' = NONE
    /\ runner' = NONE

----------------------------------------------------------------------------
(* The worker thread                                                       *)

Take(w) ==
    /\ worker[w].check /\ ~worker[w].busy
    /\ worker' = [worker EXCEPT ![w].check = FALSE, ![w].busy = TRUE]
    /\ UNCHANGED <<current, cleanup, runner>>

Finish(w, status) ==
    /\ worker[w].busy
    /\ worker' = [worker EXCEPT ![w].busy = FALSE, ![w].done = TRUE, ![w].status = status]
    /\ UNCHANGED <<current, cleanup, runner>>

Exit(w) ==
    /\ worker[w].stop /\ ~worker[w].check /\ ~worker[w].busy /\ ~worker[w].exited
    /\ worker' = [worker EXCEPT ![w].exited = TRUE]
    /\ UNCHANGED <<current, cleanup, runner>>

----------------------------------------------------------------------------
(* Stop: every worker is told to stop and joined.                          *)

StopBegin(p) ==
    /\ runner = NONE
    /\ runner' = p
    /\ cleanup' = cleanup \cup ({current} \ {NONE})
    /\ current' = NONE
    /\ worker' = [w \in Worker |->
          IF w \in cleanup' THEN [worker[w] EXCEPT !.stop = TRUE] ELSE worker[w]]

StopReturns(p) ==
    /\ runner = p /\ current = NONE
    /\ Reaped = cleanup
    /\ runner' = NONE
    /\ cleanup' = {}
    /\ worker' = [w \in Worker |-> New]
    /\ UNCHANGED current
=============================================================================

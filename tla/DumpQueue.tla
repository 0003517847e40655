----------------------------- MODULE DumpQueue -----------------------------
(***************************************************************************)
(* The dump pipeline of Cache2 (ucm/store/cache/v2, dump_queue.h): the     *)
(* dispatcher thread gets a slot for every shard of a task, copies the     *)
(* device's bytes into the slots it owns, marks them Ready and submits     *)
(* them to the backend store; the dumper thread waits for the backend and  *)
(* lets the slots go.  A rank copies over several streams in turn          *)
(* (copy_stream.h).  The buffer is SlotStore, the callers are TaskWrapper; *)
(* the device and the backend are external: a copy writes a slot, and the  *)
(* backend reads one, some time after it was asked to.                     *)
(***************************************************************************)
EXTENDS Integers, SequencesExt

CONSTANTS
    Rank,
    Task,           \* dump tasks, each called once
    RankOf,         \* the rank a task is submitted to
    Shards,         \* the keys of a task's shards
    Key,
    Slot,
    Segment,        \* the slots of a rank
    Backed,         \* the slots a backend can read; none without a backend
    Streams,        \* streamNumber_
    WaitingDepth, DumpingDepth,     \* of the rings, which keep one place free
    Faults,         \* external calls that may fail, and for which task: "event"
                    \* (WaitEvent), "copy" (a gather), "sync" (Synchronize),
                    \* "submit" (backend_->Dump), "write" (backend_->Wait)
    Expiring,       \* the tasks whose time may run out; none with timeoutMs 0
    Closing,        \* the ranks whose queue may be closed
    NONE

Handle == UNION {{t} \X (1 .. Len(Shards[t])) : t \in Task}
KeyOf(h) == Shards[h[1]][h[2]]
MayFail(call, h) == <<call, h[1]>> \in Faults

VARIABLES
    key, state, slot, owner,    \* the buffer
    bytes,          \* the key whose bytes are in a slot's memory
    write,          \* the backend's write of a handle: none, busy or over
    stored,         \* what the backend wrote: a key and the bytes it read
    latch, failureSet, caller,  \* the tasks
    waiting, dumping,           \* the rings of a rank
    disp,           \* dispatcher: its task, the position in it, the step
    pinned,         \* bufferHandles of the task being dispatched
    dumper,         \* the task the dumper waits for, or NONE
    stream,         \* copies in flight in their order: the handle, its slot, the stream
    next,           \* streamIndex_
    close           \* how far Close is

buffer == <<key, state, slot, owner>>
tasks == <<latch, failureSet, caller>>
backend == <<write, stored>>
device == <<bytes, stream, next>>
vars == <<buffer, device, backend, tasks, waiting, dumping, disp, pinned, dumper, close>>

Buffer == INSTANCE SlotStore
    WITH Usable <- [h \in Handle |-> Segment[RankOf[h[1]]]], want <- NONE, dead <- {},
         broken <- FALSE

Tasks == INSTANCE TaskWrapper

Idle == [at |-> "idle"]

Init ==
    /\ Buffer!BufferInit
    /\ Tasks!Init
    /\ bytes = [s \in Slot |-> NONE]
    /\ write = [h \in Handle |-> "none"]
    /\ stored = {}
    /\ waiting = [r \in Rank |-> <<>>]
    /\ dumping = [r \in Rank |-> <<>>]
    /\ disp = [r \in Rank |-> Idle]
    /\ pinned = [r \in Rank |-> {}]
    /\ dumper = [r \in Rank |-> NONE]
    /\ stream = [r \in Rank |-> <<>>]
    /\ next = [r \in Rank |-> 0]
    /\ close = [r \in Rank |-> "open"]

Stop(r) == close[r] # "open"
HandlesOf(t) == {h \in Handle : h[1] = t /\ slot[h] # NONE}

----------------------------------------------------------------------------
(* The caller                                                              *)

Submit(t) ==
    LET r == RankOf[t]
        room == Len(waiting[r]) < WaitingDepth - 1
    IN
    /\ ~Stop(r)
    /\ Tasks!Submit(t, room)
    /\ waiting' = IF room THEN [waiting EXCEPT ![r] = Append(@, t)] ELSE waiting
    /\ UNCHANGED <<buffer, device, backend, dumping, disp, pinned, dumper, close>>

Wait(t) ==
    /\ Tasks!Wait(t)
    /\ UNCHANGED <<buffer, device, backend, waiting, dumping, disp, pinned, dumper, close>>

----------------------------------------------------------------------------
(* The dispatcher                                                          *)

At(r, step) == disp[r].at = step
DispGoto(r, step) == disp' = [disp EXCEPT ![r].at = step]
Current(r) == <<disp[r].task, disp[r].pos>>

\* The shard after the current one, or the end of GatherShards: a task that
\* owns no slot is over.
NextShard(r, pins) ==
    disp' = [disp EXCEPT ![r] =
        IF @.pos < Len(Shards[@.task]) THEN [@ EXCEPT !.at = "get", !.pos = @ + 1]
        ELSE [@ EXCEPT !.at = IF pins = {} THEN "done" ELSE "sync"]]

\* Variation of DispatchOneTask: a task that has timed out is dropped without Done.
DispatchOneTaskSilent(r) ==
    LET t == Head(waiting[r]) IN
    /\ At(r, "idle") /\ waiting[r] # <<>> /\ ~Stop(r)
    /\ waiting' = [waiting EXCEPT ![r] = Tail(@)]
    /\ disp' = [disp EXCEPT ![r] = IF t \in failureSet THEN Idle
                                    ELSE [at |-> "get", task |-> t, pos |-> 1]]
    /\ UNCHANGED <<buffer, device, backend, tasks, dumping, pinned, dumper, close>>

\* WaitPrerequisite is part of the step: nothing is pinned yet.
DispatchOneTask(r) ==
    LET t == Head(waiting[r]) IN
    /\ At(r, "idle") /\ waiting[r] # <<>> /\ ~Stop(r)
    /\ waiting' = [waiting EXCEPT ![r] = Tail(@)]
    /\ \E step \in IF t \in failureSet THEN {"done"}
                   ELSE {"get"} \cup (IF <<"event", t>> \in Faults THEN {"fail"} ELSE {}) :
          disp' = [disp EXCEPT ![r] = [at |-> step, task |-> t, pos |-> 1]]
    /\ UNCHANGED <<buffer, device, backend, tasks, dumping, pinned, dumper, close>>

\* Get attaches to a cached key or allocates a slot.
GetShard(r) ==
    LET h == Current(r)
        k == KeyOf(h)
    IN
    /\ At(r, "get")
    /\ (\E own \in BOOLEAN : Buffer!Attach(h, k, own)) \/ Buffer!Install(h, k)
    /\ DispGoto(r, IF owner'[h] THEN "gather" ELSE "skip")
    /\ UNCHANGED <<device, backend, tasks, waiting, dumping, pinned, dumper, close>>

\* A shard whose slot somebody else fills or has filled is left out.
SkipShard(r) ==
    /\ At(r, "skip")
    /\ Buffer!Drop({Current(r)})
    /\ NextShard(r, pinned[r])
    /\ UNCHANGED <<device, backend, tasks, waiting, dumping, pinned, dumper, close>>

\* The copy streams take turns.  A copy that fails has drained its own stream,
\* Synchronize waits for all of them.
NextStream(r) == next' = [next EXCEPT ![r] = (@ + 1) % Streams]
SyncAfterFailure(r) == \A c \in ToSet(stream[r]) : c[3] # next[r]
Synchronize(r) == stream[r] = <<>>

GatherShard(r) ==
    LET h == Current(r) IN
    /\ At(r, "gather")
    /\ NextStream(r)
    /\ pinned' = [pinned EXCEPT ![r] = @ \cup {h}]
    /\ \/ /\ stream' = [stream EXCEPT ![r] = Append(@, <<h, slot[h], next[r]>>)]
          /\ NextShard(r, {h})
       \/ /\ MayFail("copy", h)
          /\ SyncAfterFailure(r)
          /\ DispGoto(r, "fail")
          /\ UNCHANGED stream
    /\ UNCHANGED <<buffer, bytes, backend, tasks, waiting, dumping, dumper, close>>

\* Variation of CompleteD2h: the copies are not synchronized.
CompleteD2hEarly(r) ==
    /\ At(r, "sync")
    /\ \/ /\ state' = [s \in Slot |->
                IF \E h \in pinned[r] : slot[h] = s THEN "Ready" ELSE state[s]]
          /\ DispGoto(r, IF \E h \in pinned[r] : slot[h] \in Backed THEN "submit" ELSE "release")
          /\ UNCHANGED <<key, slot, owner, stream>>
       \/ /\ MayFail("sync", Current(r))
          /\ stream' = [stream EXCEPT ![r] = <<>>]
          /\ DispGoto(r, "fail")
          /\ UNCHANGED buffer
    /\ UNCHANGED <<bytes, next, backend, tasks, waiting, dumping, pinned, dumper, close>>

\* CompleteD2h: every slot of the task becomes Ready once all copies are over.
CompleteD2h(r) ==
    /\ At(r, "sync")
    /\ \/ /\ Synchronize(r)
          /\ state' = [s \in Slot |->
                IF \E h \in pinned[r] : slot[h] = s THEN "Ready" ELSE state[s]]
          /\ DispGoto(r, IF \E h \in pinned[r] : slot[h] \in Backed THEN "submit" ELSE "release")
          /\ UNCHANGED <<key, slot, owner, stream>>
       \/ /\ MayFail("sync", Current(r))
          /\ stream' = [stream EXCEPT ![r] = <<>>]
          /\ DispGoto(r, "fail")
          /\ UNCHANGED buffer
    /\ UNCHANGED <<bytes, next, backend, tasks, waiting, dumping, pinned, dumper, close>>

\* The backend takes the task, which waits for room in the ring, or refuses it.
SubmitBackendDump(r) ==
    LET H == {h \in pinned[r] : slot[h] \in Backed} IN
    /\ At(r, "submit")
    /\ \/ /\ write' = [h \in Handle |-> IF h \in H THEN "busy" ELSE write[h]]
          /\ DispGoto(r, "push")
       \/ /\ MayFail("submit", Current(r))
          /\ DispGoto(r, "fail")
          /\ UNCHANGED write
    /\ UNCHANGED <<buffer, device, stored, tasks, waiting, dumping, pinned, dumper, close>>

PushDump(r) ==
    /\ At(r, "push")
    /\ Len(dumping[r]) < DumpingDepth - 1
    /\ dumping' = [dumping EXCEPT ![r] = Append(@, disp[r].task)]
    /\ pinned' = [pinned EXCEPT ![r] = {}]
    /\ DispGoto(r, "done")
    /\ UNCHANGED <<buffer, device, backend, tasks, waiting, dumper, close>>

\* FailOwnedHandles and the end of bufferHandles: slots not marked Ready become
\* Failed and all are let go.
ReleaseHandles(r) ==
    /\ disp[r].at \in {"fail", "release"}
    /\ Buffer!Drop(pinned[r])
    /\ pinned' = [pinned EXCEPT ![r] = {}]
    /\ DispGoto(r, IF At(r, "fail") THEN "failed" ELSE "done")
    /\ UNCHANGED <<device, backend, tasks, waiting, dumping, dumper, close>>

\* Variation of FinishTask: an error is not entered into the failure set.
FinishTaskOk(r) ==
    /\ disp[r].at \in {"done", "failed"}
    /\ Tasks!Done({disp[r].task}, {})
    /\ disp' = [disp EXCEPT ![r] = Idle]
    /\ UNCHANGED <<buffer, device, backend, waiting, dumping, pinned, dumper, close>>

FinishTask(r) ==
    /\ disp[r].at \in {"done", "failed"}
    /\ Tasks!Done({disp[r].task}, IF At(r, "failed") THEN {disp[r].task} ELSE {})
    /\ disp' = [disp EXCEPT ![r] = Idle]
    /\ UNCHANGED <<buffer, device, backend, waiting, dumping, pinned, dumper, close>>

Dispatcher(r) ==
    \/ DispatchOneTask(r) \/ GetShard(r) \/ SkipShard(r) \/ GatherShard(r) \/ CompleteD2h(r)
    \/ SubmitBackendDump(r) \/ PushDump(r) \/ ReleaseHandles(r) \/ FinishTask(r)

----------------------------------------------------------------------------
(* The dumper                                                              *)

\* Variation of BackendWaitStage: nobody empties the ring after the stop.
BackendWaitStageOpen(r) ==
    /\ dumper[r] = NONE /\ dumping[r] # <<>>
    /\ ~Stop(r)
    /\ dumper' = [dumper EXCEPT ![r] = Head(dumping[r])]
    /\ dumping' = [dumping EXCEPT ![r] = Tail(@)]
    /\ UNCHANGED <<buffer, device, backend, tasks, waiting, disp, pinned, close>>

BackendWaitStage(r) ==
    /\ dumper[r] = NONE /\ dumping[r] # <<>>
    /\ ~Stop(r) \/ close[r] = "draining"
    /\ dumper' = [dumper EXCEPT ![r] = Head(dumping[r])]
    /\ dumping' = [dumping EXCEPT ![r] = Tail(@)]
    /\ UNCHANGED <<buffer, device, backend, tasks, waiting, disp, pinned, close>>

\* Variation of ReleaseDump: the slots go before the write is over.
ReleaseDumpEarly(r) ==
    /\ dumper[r] # NONE
    /\ Buffer!Drop(HandlesOf(dumper[r]))
    /\ dumper' = [dumper EXCEPT ![r] = NONE]
    /\ UNCHANGED <<device, backend, tasks, waiting, dumping, disp, pinned, close>>

\* The backend's Wait returned, with whatever status.
ReleaseDump(r) ==
    /\ dumper[r] # NONE
    /\ \A h \in HandlesOf(dumper[r]) : write[h] # "busy"
    /\ Buffer!Drop(HandlesOf(dumper[r]))
    /\ dumper' = [dumper EXCEPT ![r] = NONE]
    /\ UNCHANGED <<device, backend, tasks, waiting, dumping, disp, pinned, close>>

Dumper(r) == BackendWaitStage(r) \/ ReleaseDump(r)

----------------------------------------------------------------------------
(* The backend store and the device                                        *)

BackendFinish(h) ==
    /\ write[h] = "busy"
    /\ write' = [write EXCEPT ![h] = "over"]
    /\ \/ stored' = stored \cup {<<KeyOf(h), bytes[slot[h]]>>}
       \/ MayFail("write", h) /\ UNCHANGED stored
    /\ UNCHANGED <<buffer, device, tasks, waiting, dumping, disp, pinned, dumper, close>>

\* A stream copies in order; two streams do not wait for each other.
CopyFinish(r) ==
    /\ \E i \in DOMAIN stream[r] :
          LET c == stream[r][i] IN
          /\ \A j \in 1 .. i - 1 : stream[r][j][3] # c[3]
          /\ bytes' = [bytes EXCEPT ![c[2]] = KeyOf(c[1])]
          /\ stream' = [stream EXCEPT ![r] = RemoveAt(@, i)]
    /\ UNCHANGED <<buffer, next, backend, tasks, waiting, dumping, disp, pinned, dumper, close>>

----------------------------------------------------------------------------
(* Close: stop and join the dispatcher, drain its ring, join the dumper,   *)
(* then wait for the backend's writes that are left.                       *)

CloseStop(r) ==
    /\ r \in Closing /\ close[r] = "open"
    /\ close' = [close EXCEPT ![r] = "dispatcher"]
    /\ UNCHANGED <<buffer, device, backend, tasks, waiting, dumping, disp, pinned, dumper>>

DrainWaiting(r) ==
    /\ close[r] = "dispatcher" /\ At(r, "idle")
    /\ close' = [close EXCEPT ![r] = "dumper"]
    /\ Tasks!Done(ToSet(waiting[r]), ToSet(waiting[r]))
    /\ waiting' = [waiting EXCEPT ![r] = <<>>]
    /\ UNCHANGED <<buffer, device, backend, dumping, disp, pinned, dumper>>

\* Variation of DrainDumping: the writes left in the ring are not waited for.
DrainDumpingNot(r) ==
    /\ dumper[r] = NONE
    /\ close[r] = "dumper" /\ close' = [close EXCEPT ![r] = "closed"]
    /\ UNCHANGED <<buffer, device, backend, tasks, waiting, dumping, disp, pinned, dumper>>

\* DrainDumping takes the dumper's place.
DrainDumping(r) ==
    /\ dumper[r] = NONE
    /\ \/ close[r] = "dumper" /\ close' = [close EXCEPT ![r] = "draining"]
       \/ /\ close[r] = "draining" /\ dumping[r] = <<>>
          /\ close' = [close EXCEPT ![r] = "closed"]
    /\ UNCHANGED <<buffer, device, backend, tasks, waiting, dumping, disp, pinned, dumper>>

Closer(r) == DrainWaiting(r) \/ DrainDumping(r)

----------------------------------------------------------------------------
Returned == Tasks!Returned

\* Nothing is left to do.
Finished ==
    /\ \A t \in Task : caller[t] \in Returned \/ (caller[t] = "new" /\ Stop(RankOf[t]))
    /\ \A r \in Rank : /\ At(r, "idle") /\ dumping[r] = <<>> /\ dumper[r] = NONE
                       /\ stream[r] = <<>> /\ close[r] \in {"open", "closed"}
    /\ UNCHANGED vars

Next ==
    \/ \E t \in Task : Submit(t) \/ Wait(t)
    \/ \E r \in Rank : Dispatcher(r) \/ Dumper(r) \/ CopyFinish(r) \/ CloseStop(r) \/ Closer(r)
    \/ \E h \in Handle : BackendFinish(h)
    \/ Finished

Spec == Init /\ [][Next]_vars

\* Every thread gets to run, the backend and the device finish what they
\* began, and time passes for a caller that waits.
FairSpec ==
    /\ Spec
    /\ \A t \in Task : WF_vars(Wait(t))
    /\ \A r \in Rank : /\ WF_vars(Dispatcher(r)) /\ WF_vars(Dumper(r))
                       /\ WF_vars(CopyFinish(r)) /\ WF_vars(Closer(r))
    /\ \A h \in Handle : WF_vars(BackendFinish(h))

----------------------------------------------------------------------------
(* Properties                                                              *)

\* A slot that is Ready holds the bytes of its key: no copy of an earlier
\* task lands in it later (CompleteD2h marks after Synchronize, and nobody
\* lets a slot go that a copy still writes).
ReadyHoldsKey == \A s \in Slot : state[s] = "Ready" => bytes[s] = key[s]

\* The backend writes the bytes of the key it was given, although it reads
\* the slot after the caller was told the task is complete: the slot is
\* pinned until the dumper saw the end of the write.
StoredExact ==
    /\ \A p \in stored : p[2] = p[1]
    /\ \A h \in Handle : write[h] = "busy" => slot[h] # NONE

\* Wait returned OK: every shard was submitted to the backend, by this task
\* or by the concurrent one that owned its slot (dump_queue.h:55).
OkMeansSubmitted ==
    \A t \in Task : caller[t] = "ok" =>
        \A h \in Handle : h[1] = t =>
            \E g \in Handle : KeyOf(g) = KeyOf(h) /\ (write[g] # "none" \/ owner[g])

\* Wait returns for every task that was submitted (DispatchOneTask calls Done
\* on every path).
TasksComplete == \A t \in Task : caller[t] = "submitted" ~> caller[t] \in Returned

\* A closed queue uses no slot: the writes it left to the backend are over
\* and every handle is gone (DrainDumping).
ClosedIsQuiet ==
    \A r \in Rank : close[r] = "closed" =>
        \A h \in Handle : RankOf[h[1]] = r => slot[h] = NONE /\ write[h] # "busy"

\* Close returns (the joins of DumpQ::Close).
CloseReturns == \A r \in Rank : Stop(r) ~> close[r] = "closed"
=============================================================================

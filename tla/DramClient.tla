---------------------------- MODULE DramClient ----------------------------
(***************************************************************************)
(* The client of the DRAM store (ucm/store/dram/cc) and the memory pools   *)
(* it talks to.  Callers submit tasks; the task manager's thread splits    *)
(* each into requests and counts their completions; a runner thread drives *)
(* the NodeActor of every pool; the transport thread executes the actors'  *)
(* commands in order and reports each with an event; the reply thread      *)
(* looks for answers in the leased slots.  A pool works through the        *)
(* requests it got, moves data from or to the caller's memory and writes   *)
(* the answer into the reply slot, over whatever connection there is then. *)
(*                                                                         *)
(* A turn of a runner with an actor (NodeScheduler::RunActors) is several  *)
(* steps: the swap of the queues, one for every event and command of the   *)
(* batch, Advance up to DispatchPendingRequests, one for every request     *)
(* dispatched, and the flush of the completions.  The turn uses one value  *)
(* of now, so no time passes in it.  A runner of several nodes advances    *)
(* all of them in every turn; here each has turns of its own.  Commands of *)
(* a node are executed in order, by the one transport worker its id hashes *)
(* to; here one worker serves all nodes.  A point in time is the number of *)
(* ticks until it comes: 0 if it has come, Never for TimePoint::max().     *)
(***************************************************************************)
EXTENDS Naturals, FiniteSets, Sequences, FiniteSetsExt, SequencesExt

CONSTANTS
    Node, Task, Request,
    NodeOf,             \* the node of each request
    Split,              \* how requests may belong to tasks
    Entries,            \* the I/O entries of each request
    Prerequisite,       \* the requests with a prerequisiteHandle
    ReplySlot,
    MaxIoEntries,
    MaxInflight,        \* maxInflightRequests of a node
    Timeout,            \* ticks a task may take
    Reconnect, Poll,    \* reconnectInterval and pollInterval
    NONE

\* The last conjunct is a check of DramConfig::Validate.
ASSUME DramClientAssumption ==
    /\ IsFiniteSet(Request) /\ NodeOf \in [Request -> Node] /\ Split \subseteq [Request -> Task]
    /\ Entries \in [Request -> Nat \ {0}] /\ Prerequisite \subseteq Request
    /\ {MaxIoEntries, MaxInflight, Timeout, Reconnect, Poll} \subseteq Nat \ {0}
    /\ Cardinality(ReplySlot) >= Cardinality(Node) * MaxInflight

VARIABLES
    taskOf,      \* the task of each request (BuildRequests)
    task,        \* each task: "new", "queued", "active", then its status
    due,         \* ticks to each task's deadline
    count,       \* remainingRequests of an active task
    failure,     \* its first failure
    used,        \* usedIoEntries_
    submissions, completions,
    actor,       \* the actor of each node, see NewActor
    prereq,      \* each prerequisite event: "open", "set" or "broken"
    commands, events,   \* the queues of each node's runner
    queue,       \* the transport executor's queue
    sending,     \* the event of the command just executed, not yet published
    lease,       \* who leases each reply slot
    reply,       \* the answer in each reply slot
    observed,    \* the answer the reply thread found, not yet published
    link,        \* the epoch of the connection to each node's pool, or 0
    pool,        \* what the pool does for each request
    served       \* the requests a pool has carried out

manager == <<taskOf, task, count, failure, used, submissions>>
runner == <<actor, commands>>
slots == <<lease, reply>>
transport == <<queue, sending>>
remote == <<link, pool, served>>
vars == <<taskOf, task, due, count, failure, used, submissions, completions, actor, prereq,
          commands, events, queue, sending, lease, reply, observed, link, pool, served>>

Never == Timeout + Reconnect + Poll
Earliest(T) == Min(T \cup {Never})
DueOf(r) == due[taskOf[r]]
Late(r) == DueOf(r) = 0

\* An entry of activeRequests_; "none" stands for no entry.
NoRecord == [state |-> "none", epoch |-> 0, slot |-> NONE, status |-> "OK"]

\* at is the place in the runner's turn, batch what is left of its events and
\* commands, done is completionBatch_, and act, check and poll are
\* nextActionAt_, pendingCheckAt_ and nextPrerequisitePollAt_.
NewActor ==
    [at |-> "idle", state |-> "DISCONNECTED", epoch |-> 1,
     rec |-> [r \in Request |-> NoRecord], pending |-> <<>>,
     act |-> 0, check |-> Never, poll |-> 0, done |-> <<>>, batch |-> <<0, 0>>]

Exposed(a) == {r \in Request : a.rec[r].state \in {"TRANSMITTING", "INFLIGHT"}}
Active(a) == {r \in Request : a.rec[r].state # "none"}
Over(a) == {r \in Request : a.rec[r].state = "COMPLETED"}

Absent == [at |-> "none", slot |-> NONE, sent |-> 0, over |-> 0, status |-> "OK"]

Init ==
    /\ taskOf \in Split
    /\ task = [t \in Task |-> "new"] /\ due = [t \in Task |-> Timeout]
    /\ count = [t \in Task |-> 0] /\ failure = [t \in Task |-> "OK"]
    /\ used = 0 /\ submissions = <<>> /\ completions = <<>>
    /\ actor = [n \in Node |-> NewActor]
    /\ prereq = [r \in Prerequisite |-> "open"]
    /\ commands = [n \in Node |-> <<>>] /\ events = [n \in Node |-> <<>>]
    /\ queue = <<>> /\ sending = NONE
    /\ lease = [s \in ReplySlot |-> NONE] /\ reply = [s \in ReplySlot |-> NONE]
    /\ observed = NONE
    /\ link = [n \in Node |-> 0] /\ pool = [r \in Request |-> Absent] /\ served = {}

----------------------------------------------------------------------------
(* TaskManager                                                             *)

Requests(t) == {r \in Request : taskOf[r] = t}
EntryCount(t) == MapThenSumSet(LAMBDA r : Entries[r], Requests(t))

EnqueueTask(t) ==
    /\ task[t] = "new" /\ Requests(t) # {}
    /\ IF Len(submissions) < MaxIoEntries
       THEN task' = [task EXCEPT ![t] = "queued"] /\ submissions' = Append(submissions, t)
       ELSE task' = [task EXCEPT ![t] = "NoSpace"] /\ UNCHANGED submissions
    /\ UNCHANGED <<taskOf, due, count, failure, used, completions, runner, prereq, events,
                   transport, slots, observed, remote>>

\* Variation of CompleteRequest: the entries of a task that failed stay in use.
CompleteRequestKeeps(t, status) ==
    IF task[t] # "active" THEN UNCHANGED <<task, count, failure, used>>
    ELSE LET fail == IF failure[t] = "OK" THEN status ELSE failure[t]
             last == count[t] = 1
         IN /\ count' = [count EXCEPT ![t] = @ - 1]
            /\ failure' = [failure EXCEPT ![t] = fail]
            /\ task' = IF last THEN [task EXCEPT ![t] = fail] ELSE task
            /\ used' = IF last /\ fail = "OK" THEN used - EntryCount(t) ELSE used

\* Variation of CompleteRequest: the last request decides.
CompleteRequestLast(t, status) ==
    IF task[t] # "active" THEN UNCHANGED <<task, count, failure, used>>
    ELSE LET last == count[t] = 1
         IN /\ count' = [count EXCEPT ![t] = @ - 1]
            /\ failure' = [failure EXCEPT ![t] = status]
            /\ task' = IF last THEN [task EXCEPT ![t] = status] ELSE task
            /\ used' = IF last THEN used - EntryCount(t) ELSE used

\* A completion of a task that is over is ignored.
CompleteRequest(t, status) ==
    IF task[t] # "active" THEN UNCHANGED <<task, count, failure, used>>
    ELSE LET fail == IF failure[t] = "OK" THEN status ELSE failure[t]
             last == count[t] = 1
         IN /\ count' = [count EXCEPT ![t] = @ - 1]
            /\ failure' = [failure EXCEPT ![t] = fail]
            /\ task' = IF last THEN [task EXCEPT ![t] = fail] ELSE task
            /\ used' = IF last THEN used - EntryCount(t) ELSE used

\* Run takes completions first.
ProcessCompletion ==
    /\ completions # <<>>
    /\ CompleteRequest(taskOf[Head(completions).req], Head(completions).status)
    /\ completions' = Tail(completions)
    /\ UNCHANGED <<taskOf, submissions, due, runner, prereq, events, transport, slots, observed,
                   remote>>

\* A task has one request for each batch of a node's entries (BuildRequests);
\* posting one to its runner waits for nobody, so all are posted in one step.
ProcessSubmission ==
    /\ completions = <<>> /\ submissions # <<>>
    /\ LET t == Head(submissions) IN
       IF due[t] = 0 \/ EntryCount(t) > MaxIoEntries - used
       THEN /\ task' = [task EXCEPT ![t] = IF due[t] = 0 THEN "Timeout" ELSE "NoSpace"]
            /\ UNCHANGED <<count, used, commands>>
       ELSE /\ task' = [task EXCEPT ![t] = "active"]
            /\ count' = [count EXCEPT ![t] = Cardinality(Requests(t))]
            /\ used' = used + EntryCount(t)
            /\ commands' = [n \in Node |->
                   commands[n] \o SetToSeq({r \in Requests(t) : NodeOf[r] = n})]
    /\ submissions' = Tail(submissions)
    /\ UNCHANGED <<taskOf, failure, due, completions, actor, prereq, events, transport, slots,
                   observed, remote>>

----------------------------------------------------------------------------
(* NodeActor: the events and commands of a batch                           *)

Command(kind, n, epoch, r, s) ==
    [kind |-> kind, node |-> n, epoch |-> epoch, req |-> r, slot |-> s, status |-> "OK"]

Complete(a, r, status) ==
    [a EXCEPT !.rec[r].state = "COMPLETED", !.rec[r].status = status]

QueueCompletion(a, r, status) ==
    [a EXCEPT !.done = Append(@, [req |-> r, status |-> status])]

HandleFence(a, e) ==
    IF a.state # "FENCING" \/ e.epoch # a.epoch THEN a
    ELSE [a EXCEPT !.state = "DISCONNECTED", !.epoch = @ + 1, !.act = 0,
                   !.rec = [r \in Request |->
                               IF a.rec[r].state = "WAITING_FENCE"
                               THEN [a.rec[r] EXCEPT !.state = "COMPLETED"] ELSE a.rec[r]]]

HandleReply(a, e) ==
    LET q == a.rec[e.req] IN
    IF q.state \in {"none", "COMPLETED"} \/ q.epoch # e.epoch THEN a
    ELSE Complete(a, e.req, IF q.status = "Timeout" \/ Late(e.req) THEN "Timeout" ELSE e.status)

HandleTransmit(a, e) ==
    IF a.rec[e.req].state # "TRANSMITTING" \/ a.rec[e.req].epoch # e.epoch THEN a
    ELSE IF e.status = "OK" THEN [a EXCEPT !.rec[e.req].state = "INFLIGHT"]
    ELSE Complete(a, e.req, e.status)

HandleConnect(a, e) ==
    IF a.state # "CONNECTING" \/ e.epoch # a.epoch THEN a
    ELSE IF e.status = "OK" THEN [a EXCEPT !.state = "ACTIVE", !.act = Never]
    ELSE [a EXCEPT !.state = "DISCONNECTED", !.act = Reconnect]

Handle(a, e) ==
    CASE e.kind = "fence" -> HandleFence(a, e)
      [] e.kind = "reply" -> HandleReply(a, e)
      [] e.kind = "transmit" -> HandleTransmit(a, e)
      [] e.kind = "connect" -> HandleConnect(a, e)

HandleRequest(a, r) ==
    IF Late(r) THEN QueueCompletion(a, r, "Timeout")
    ELSE [a EXCEPT !.pending = Append(@, r), !.check = Min({@, DueOf(r)})]

NextWakeup(a) ==
    Min({a.act, a.check} \cup
        IF /\ a.state = "ACTIVE" /\ a.pending # <<>>
           /\ Cardinality(Active(a)) < MaxInflight /\ Head(a.pending) \in Prerequisite
        THEN {a.poll} ELSE {})

\* The runner wakes up and takes what there is; what comes later is for the
\* next turn.
TakeBatch(n) ==
    /\ actor[n].at = "idle"
    /\ events[n] # <<>> \/ commands[n] # <<>> \/ NextWakeup(actor[n]) = 0
    /\ actor' = [actor EXCEPT ![n].at = "batch", ![n].batch = <<Len(events[n]), Len(commands[n])>>]
    /\ UNCHANGED <<manager, due, completions, prereq, commands, events, transport, slots, observed,
                   remote>>

HandleEvent(n) ==
    /\ actor[n].at = "batch" /\ actor[n].batch[1] > 0
    /\ actor' = [actor EXCEPT ![n] = [Handle(@, Head(events[n])) EXCEPT !.batch[1] = @ - 1]]
    /\ events' = [events EXCEPT ![n] = Tail(@)]
    /\ UNCHANGED <<manager, due, completions, prereq, commands, transport, slots, observed,
                   remote>>

HandleCommand(n) ==
    /\ actor[n].at = "batch" /\ actor[n].batch[1] = 0 /\ actor[n].batch[2] > 0
    /\ actor' = [actor EXCEPT ![n] = [HandleRequest(@, Head(commands[n])) EXCEPT !.batch[2] = @ - 1]]
    /\ commands' = [commands EXCEPT ![n] = Tail(@)]
    /\ UNCHANGED <<manager, due, completions, prereq, events, transport, slots, observed, remote>>

----------------------------------------------------------------------------
(* NodeActor::Advance                                                      *)

IsFence(c) == c.kind = "fence"

\* Room in queuedFences_ or queuedCommands_ (TransportExecutor::TryPost).
CanPost(c) ==
    LET Same(d) == IsFence(d) = IsFence(c) IN
    Len(SelectSeq(queue, Same)) <
        Cardinality(Node) * (IF IsFence(c) THEN 1 ELSE MaxInflight + 1)

\* Variation of FinalizeRequests: a request whose time is up is over at once.
FinalizeRequestsAtOnce(a) ==
    LET over == Over(a) \cup {r \in Exposed(a) : Late(r)}
        late == a.state = "ACTIVE" /\ \E r \in Exposed(a) : Late(r)
    IN [a EXCEPT
          !.done = @ \o [i \in 1..Cardinality(over) |->
                            LET r == SetToSeq(over)[i]
                            IN [req |-> r, status |-> IF r \in Over(a) THEN a.rec[r].status
                                                      ELSE "Timeout"]],
          !.rec = [r \in Request |-> IF r \in over THEN NoRecord ELSE a.rec[r]],
          !.state = IF late THEN "FENCING" ELSE @,
          !.act = IF late THEN 0
                  ELSE IF a.state = "ACTIVE" THEN Earliest({DueOf(r) : r \in Exposed(a)})
                  ELSE @]

\* Variation of FinalizeRequests: the deadlines set no alarm.
FinalizeRequestsNoAlarm(a) ==
    LET over == SetToSeq(Over(a))
        late == a.state = "ACTIVE" /\ \E r \in Exposed(a) : Late(r)
    IN [a EXCEPT
          !.done = @ \o [i \in DOMAIN over |-> [req |-> over[i], status |-> a.rec[over[i]].status]],
          !.rec = [r \in Request |->
                      IF r \in Over(a) THEN NoRecord
                      ELSE IF late /\ r \in Exposed(a)
                      THEN [a.rec[r] EXCEPT !.state = "WAITING_FENCE", !.status = "Timeout"]
                      ELSE a.rec[r]],
          !.state = IF late THEN "FENCING" ELSE @,
          !.act = IF late THEN 0 ELSE IF a.state = "ACTIVE" THEN Never ELSE @]

\* Requests that are over retire. When a request is late, all that the pool
\* may be working on wait for the fence.
FinalizeRequests(a) ==
    LET over == SetToSeq(Over(a))
        late == a.state = "ACTIVE" /\ \E r \in Exposed(a) : Late(r)
    IN [a EXCEPT
          !.done = @ \o [i \in DOMAIN over |-> [req |-> over[i], status |-> a.rec[over[i]].status]],
          !.rec = [r \in Request |->
                      IF r \in Over(a) THEN NoRecord
                      ELSE IF late /\ r \in Exposed(a)
                      THEN [a.rec[r] EXCEPT !.state = "WAITING_FENCE", !.status = "Timeout"]
                      ELSE a.rec[r]],
          !.state = IF late THEN "FENCING" ELSE @,
          !.act = IF late THEN 0
                  ELSE IF a.state = "ACTIVE" THEN Earliest({DueOf(r) : r \in Exposed(a)})
                  ELSE @]

\* The slots of the requests that retire; Free clears a slot
\* (ReplyService::Release, BufferPool::Free).
ReleaseReplySlots(S) ==
    /\ lease' = [s \in ReplySlot |-> IF s \in S THEN NONE ELSE lease[s]]
    /\ reply' = [s \in ReplySlot |-> IF s \in S THEN NONE ELSE reply[s]]

\* The command the actor's state calls for now, if any.
Wanted(a, n) ==
    IF a.act = 0 /\ a.state \in {"DISCONNECTED", "FENCING"}
    THEN Command(IF a.state = "FENCING" THEN "fence" ELSE "connect", n, a.epoch, NONE, NONE)
    ELSE NONE

TryConnectOrFence(a, n) ==
    LET c == Wanted(a, n) IN
    IF c = NONE THEN a
    ELSE IF ~CanPost(c) THEN [a EXCEPT !.act = Reconnect]
    ELSE [a EXCEPT !.act = Never, !.state = IF IsFence(c) THEN @ ELSE "CONNECTING"]

ExpirePendingRequests(a) ==
    LET late == SelectSeq(a.pending, Late)
        kept == SelectSeq(a.pending, LAMBDA r : ~Late(r))
    IN IF a.check > 0 THEN a
       ELSE [a EXCEPT !.pending = kept,
                      !.check = Earliest({DueOf(r) : r \in ToSet(kept)}),
                      !.poll = IF late # <<>> /\ Late(Head(a.pending)) THEN 0 ELSE @,
                      !.done = @ \o [i \in DOMAIN late |-> [req |-> late[i], status |-> "Timeout"]]]

\* The turn's batch is handled.
Advance(n) ==
    /\ actor[n].at = "batch" /\ actor[n].batch = <<0, 0>>
    /\ \E b \in {FinalizeRequests(actor[n])} :
          /\ queue' = LET c == Wanted(b, n)
                      IN IF c # NONE /\ CanPost(c) THEN Append(queue, c) ELSE queue
          /\ \E c \in {TryConnectOrFence(b, n)} :
                actor' = [actor EXCEPT ![n] = [ExpirePendingRequests(c) EXCEPT !.at = "dispatch"]]
    /\ ReleaseReplySlots({actor[n].rec[r].slot : r \in Over(actor[n])})
    /\ UNCHANGED <<manager, due, completions, prereq, commands, events, sending, observed, remote>>

\* The loop of DispatchPendingRequests goes on.
MayDispatch(a) ==
    /\ a.state = "ACTIVE" /\ a.pending # <<>> /\ Cardinality(Active(a)) < MaxInflight
    /\ Head(a.pending) \in Prerequisite => a.poll = 0

\* The first pending request must wait for its prerequisite.
Waits(a) ==
    LET r == Head(a.pending) IN ~Late(r) /\ r \in Prerequisite /\ prereq[r] = "open"

\* TryStartRequest and StartRequest, for a request that does not have to wait:
\* it is too late, its prerequisite broke, or it gets a slot and is submitted.
StartRequest(n) ==
    LET a == actor[n]
        r == Head(a.pending)
        b == [a EXCEPT !.pending = Tail(@), !.poll = 0]
        free == {s \in ReplySlot : lease[s] = NONE}
        s == CHOOSE s \in free : TRUE
        c == Command("transmit", n, a.epoch, r, s)
        refused == IF Late(r) THEN "Timeout"
                   ELSE IF r \in Prerequisite /\ prereq[r] = "broken" THEN "Error"
                   ELSE IF free = {} THEN "NoSpace"
                   ELSE IF ~CanPost(c) THEN "Full" ELSE "OK"
    IN /\ a.at = "dispatch" /\ MayDispatch(a) /\ ~Waits(a)
       /\ IF refused # "OK"
          THEN /\ actor' = [actor EXCEPT ![n] = QueueCompletion(b, r, refused)]
               /\ UNCHANGED <<queue, lease>>
          ELSE /\ actor' = [actor EXCEPT ![n] = [b EXCEPT !.rec[r] =
                      [state |-> "TRANSMITTING", epoch |-> a.epoch, slot |-> s, status |-> "OK"]]]
               /\ lease' = [lease EXCEPT ![s] = [req |-> r, epoch |-> a.epoch, delivered |-> FALSE]]
               /\ queue' = Append(queue, c)
       /\ UNCHANGED <<manager, due, completions, prereq, commands, events, sending, reply, observed,
                      remote>>

\* The end of DispatchPendingRequests, and FlushCompletions. What does not
\* fit into the queue of completions is refused, and nobody looks.
FlushCompletions(n) ==
    LET a == actor[n]
        all == completions \o a.done
    IN /\ a.at = "dispatch" /\ (MayDispatch(a) => Waits(a))
       /\ completions' = SubSeq(all, 1, Min({Len(all), MaxIoEntries}))
       /\ actor' = [actor EXCEPT ![n] = [a EXCEPT
              !.at = "idle", !.done = <<>>,
              !.check = IF a.state = "ACTIVE" /\ a.pending = <<>> THEN Never ELSE @,
              !.poll = IF MayDispatch(a) THEN Poll ELSE @]]
       /\ UNCHANGED <<manager, due, prereq, commands, events, transport, slots, observed, remote>>

----------------------------------------------------------------------------
(* TransportExecutor and its backend                                       *)

\* What a fence does to a request in the pool: transfers over the connection
\* fail; a request that waits in the pool's queue stays there.
Cut(q) ==
    CASE q.at = "moving" -> [q EXCEPT !.at = "settled", !.status = "Error"]
      [] q.at = "answering" -> Absent
      [] OTHER -> q

\* A fence fails when the pool is gone, with everything it had to do: so says
\* Handle(FenceCompleted), which goes on as after a fence that succeeded.
Backend(c, ok) ==
    CASE c.kind = "transmit" ->
           /\ pool' = IF ~ok THEN pool
                      ELSE [pool EXCEPT ![c.req] = [Absent EXCEPT !.at = "queued",
                                                    !.slot = c.slot, !.sent = c.epoch]]
           /\ UNCHANGED link
      [] c.kind = "connect" ->
           /\ link' = IF ok THEN [link EXCEPT ![c.node] = c.epoch] ELSE link
           /\ UNCHANGED pool
      [] c.kind = "fence" ->
           /\ link' = [link EXCEPT ![c.node] = 0]
           /\ pool' = [r \in Request |-> IF NodeOf[r] # c.node THEN pool[r]
                                         ELSE IF ok THEN Cut(pool[r]) ELSE Absent]

Execute ==
    /\ queue # <<>> /\ sending = NONE
    /\ \E ok \in BOOLEAN :
          /\ Backend(Head(queue), ok)
          /\ sending' = [Head(queue) EXCEPT !.status = IF ok THEN "OK" ELSE "Error"]
    /\ queue' = Tail(queue)
    /\ UNCHANGED <<manager, due, completions, runner, prereq, events, slots, observed, served>>

PublishSent ==
    /\ sending # NONE
    /\ events' = [events EXCEPT ![sending.node] = Append(@, sending)]
    /\ sending' = NONE
    /\ UNCHANGED <<manager, due, completions, runner, prereq, queue, slots, observed, remote>>

----------------------------------------------------------------------------
(* ReplyService                                                            *)

\* A leased slot whose answer carries the id of the request that leases it.
Observe(s) ==
    /\ observed = NONE
    /\ lease[s] # NONE /\ reply[s] # NONE
    /\ ~lease[s].delivered /\ reply[s].req = lease[s].req
    /\ LET r == lease[s].req IN
       observed' = [Command("reply", NodeOf[r], lease[s].epoch, r, s)
                       EXCEPT !.status = reply[s].status]
    /\ lease' = [lease EXCEPT ![s].delivered = TRUE]
    /\ UNCHANGED <<manager, due, completions, runner, prereq, events, transport, reply, remote>>

PublishObserved ==
    /\ observed # NONE
    /\ events' = [events EXCEPT ![observed.node] = Append(@, observed)]
    /\ observed' = NONE
    /\ UNCHANGED <<manager, due, completions, runner, prereq, transport, slots, remote>>

----------------------------------------------------------------------------
(* The pool                                                                *)

client == <<manager, due, completions, runner, prereq, events, transport, lease, observed>>

Linked(r) == link[NodeOf[r]] # 0

Settled(r, s) ==
    /\ pool' = [pool EXCEPT ![r].at = "settled", ![r].status = s]
    /\ served' = IF s = "OK" THEN served \cup {r} ELSE served

\* TaskWorker: a transfer is submitted, or there is nothing to move, or it
\* cannot be submitted.
PoolBegin(r) ==
    /\ pool[r].at = "queued"
    /\ \/ /\ Linked(r)
          /\ pool' = [pool EXCEPT ![r].at = "moving", ![r].over = link[NodeOf[r]]]
          /\ UNCHANGED served
       \/ \E s \in {"OK", "Error"} : Settled(r, s)
    /\ UNCHANGED <<client, reply, link>>

\* CompletionPoller: the transfer is over.
PoolSettle(r) ==
    /\ pool[r].at = "moving"
    /\ \E s \in {"OK", "Error"} : Settled(r, s)
    /\ UNCHANGED <<client, reply, link>>

\* SubmitResponse; without a connection the request is forgotten.
PoolAnswer(r) ==
    /\ pool[r].at = "settled"
    /\ pool' = [pool EXCEPT ![r] = IF Linked(r) THEN [@ EXCEPT !.at = "answering",
                                                        !.over = link[NodeOf[r]]] ELSE Absent]
    /\ UNCHANGED <<client, reply, link, served>>

\* The answer is in the reply slot.
PoolWrite(r) ==
    /\ pool[r].at = "answering"
    /\ reply' = [reply EXCEPT ![pool[r].slot] = [req |-> r, status |-> pool[r].status]]
    /\ pool' = [pool EXCEPT ![r] = Absent]
    /\ UNCHANGED <<client, link, served>>

----------------------------------------------------------------------------
(* The environment                                                         *)

\* A prerequisite event comes, or querying it fails from now on.
PrerequisiteCome(r) ==
    /\ prereq[r] = "open"
    /\ \E s \in {"set", "broken"} : prereq' = [prereq EXCEPT ![r] = s]
    /\ UNCHANGED <<manager, due, completions, runner, events, transport, slots, observed, remote>>

Sooner(x) == IF x \in {0, Never} THEN x ELSE x - 1

Tick ==
    /\ \A n \in Node : actor[n].at = "idle"
    /\ due' = [t \in Task |-> IF task[t] \in {"queued", "active"} THEN Sooner(due[t]) ELSE due[t]]
    /\ actor' = [n \in Node |-> [actor[n] EXCEPT !.act = Sooner(@), !.check = Sooner(@),
                                                  !.poll = Sooner(@)]]
    /\ <<due, actor>>' # <<due, actor>>
    /\ UNCHANGED <<manager, completions, prereq, commands, events, transport, slots, observed,
                   remote>>

ManagerStep == ProcessCompletion \/ ProcessSubmission
RunnerStep(n) ==
    \/ TakeBatch(n) \/ HandleEvent(n) \/ HandleCommand(n) \/ Advance(n)
    \/ StartRequest(n) \/ FlushCompletions(n)
TransportStep == Execute \/ PublishSent

Next ==
    \/ \E t \in Task : EnqueueTask(t)
    \/ ProcessCompletion \/ ProcessSubmission
    \/ \E n \in Node : RunnerStep(n)
    \/ Execute \/ PublishSent
    \/ \E s \in ReplySlot : Observe(s)
    \/ PublishObserved
    \/ \E r \in Request : PoolBegin(r) \/ PoolSettle(r) \/ PoolAnswer(r) \/ PoolWrite(r)
    \/ \E r \in Prerequisite : PrerequisiteCome(r)
    \/ Tick

Spec == Init /\ [][Next]_vars

\* The client's threads run and time passes; a pool may never answer.
FairSpec ==
    /\ Spec /\ WF_vars(ManagerStep) /\ WF_vars(TransportStep) /\ WF_vars(Tick)
    /\ \A n \in Node : WF_vars(RunnerStep(n))

----------------------------------------------------------------------------
(* Properties                                                              *)

\* A pool moves a request's data or writes its answer, over the connection it
\* was sent on, only while the request is active and leases its slot: until
\* then the caller's memory is not given back and the slot not given away
\* (FinalizeRequests, Handle(FenceCompleted), RetireRequest).
EpochFenced ==
    \A r \in Request :
        pool[r].at \in {"moving", "answering"} /\ pool[r].over = pool[r].sent =>
            /\ actor[NodeOf[r]].rec[r].slot = pool[r].slot
            /\ task[taskOf[r]] = "active"

\* The same over any connection.
NoLateAccess ==
    \A r \in Request :
        pool[r].at \in {"moving", "answering"} => task[taskOf[r]] = "active"

\* A task ends OK only when a pool has carried out every request of it,
\* whatever answers came late or landed in slots leased again (Observe,
\* Handle(ReplyObserved), CompleteRequest).
OkMeansServed ==
    \A t \in Task : task[t] = "OK" => Requests(t) \subseteq served

\* Nothing is refused for lack of room on the way: slots, commands and
\* completions are bounded by the entries and requests admitted before
\* (Acquire, TryPost and Publish, whose Push nobody checks), and every
\* request an active task still counts is somewhere.
RoomForAll ==
    /\ \A n \in Node : actor[n].state = "CONNECTING" => Active(actor[n]) = {}
    /\ \A n \in Node : \A c \in ToSet(completions) \cup ToSet(actor[n].done) :
          c.status \notin {"NoSpace", "Full"}
    /\ used = MapThenSumSet(EntryCount, {t \in Task : task[t] = "active"})
    /\ \A t \in Task : task[t] = "active" =>
          count[t] = Cardinality({r \in Requests(t) :
              \/ \E n \in Node : \/ actor[n].rec[r].state # "none"
                                 \/ r \in ToSet(commands[n]) \cup ToSet(actor[n].pending)
                                 \/ \E c \in ToSet(actor[n].done) : c.req = r
              \/ \E c \in ToSet(completions) : c.req = r})

\* Every task submitted is answered, although connections, pools and answers
\* fail for ever: no deadline is slept through (NextWakeup) and no completion
\* is lost.
TasksComplete ==
    \A t \in Task : task[t] = "queued" ~> task[t] \in {"OK", "Timeout", "Error", "NoSpace", "Full"}
=============================================================================

------------------------------- MODULE Tasks -------------------------------
(***************************************************************************)
(* The lifetime of every task the UI thread issues: the registry of        *)
(* tasks.rs, the worker pool and the two queues of lib.rs, the commit and  *)
(* the rejection of a turn, and the retirement of a session.               *)
(*                                                                         *)
(* One UI thread and a pool of workers share each task's slot (an atomic   *)
(* state, an interrupt hook and a completion, each behind its own lock).   *)
(* A step is what the code does between two accesses to shared state.      *)
(* What only the UI thread reads and writes (LIVE, five of the six         *)
(* counters, the mounted graph) moves together with the step it belongs to.*)
(***************************************************************************)
EXTENDS Integers, FiniteSets, Sequences

CONSTANTS Task,      \* the slots `issue` may create over the whole run
          NoTask,    \* no slot
          Worker,    \* the threads of the pool
          Owner,     \* component instances, Root included
          Root,      \* owner 0: a task of no component, never unmounted
          Key,       \* the non-empty supersede keys
          NoKey,     \* the empty key: supersedes nothing, cannot be cancelled
          MaxEpoch   \* bound: sessions run by one process

ASSUME TaskAssumption == NoTask \notin Task
ASSUME OwnerAssumption == Root \in Owner
ASSUME KeyAssumption == NoKey \notin Key
ASSUME EpochAssumption == MaxEpoch \in Nat \ {0}

VARIABLES
    state,        \* TaskSlot.state; "none" before the slot exists
    slot,         \* TaskSlot.owner and .key, and the envelope's epoch
    completion,   \* TaskSlot.completion holds an Owned
    armed,        \* TaskSlot.interrupt holds a hook
    live,         \* LIVE
    runningNow,   \* RUNNING_NOW
    counters,     \* COUNTERS
    jobs,         \* the job channel
    completions,  \* the completion channel
    epoch,        \* TASK_EPOCH
    gate,         \* TASK_PUBLICATION is held
    wpc, wtask,   \* where each worker is, and the envelope it holds
    upc,          \* where the UI thread is
    ending,       \* stop_where's `ended`: slots still to be stopped
    stopping,     \* the slot inside `stop`
    after,        \* where the UI thread resumes once `ending` is empty
    request,      \* the job being issued
    mounted       \* component instances with a boundary in the graph

slotVars == <<state, slot, completion, armed>>
registryVars == <<live, counters>>
queueVars == <<jobs, completions, epoch, gate>>
workerVars == <<wpc, wtask, runningNow>>
uiVars == <<upc, ending, stopping, after, request, mounted>>
vars == <<slotVars, registryVars, queueVars, workerVars, uiVars>>

Ended == {"delivered", "superseded", "cancelled"}
Unended == {"queued", "running", "published"}

\* TaskSlot::stopped
Stopped(t) == state[t] \in {"superseded", "cancelled"}

Request == [owner : Owner, key : Key \union {NoKey}]
NoRequest == [owner |-> Root, key |-> NoKey]
Slot == [owner : Owner, key : Key \union {NoKey}, epoch : Nat]

Counter == {"issued", "completed", "delivered", "superseded", "cancelled",
            "interrupted"}
Bump(c) == [counters EXCEPT ![c] = @ + 1]
Zero == [c \in Counter |-> 0]
\* issued_and_settled
Settled == counters["delivered"] + counters["superseded"] + counters["cancelled"]

WorkerPC == {"recv", "epoch", "begin", "list", "run", "check", "blocked",
             "disarm", "store", "publish", "count", "discard", "unlist",
             "forget", "gate", "send"}
UiPC == {"idle", "turn", "cancels", "jobs", "stop", "take", "wake", "issue",
         "clear", "drain", "reset", "start"}

Init ==
    /\ state = [t \in Task |-> "none"]
    /\ slot = [t \in Task |-> [owner |-> Root, key |-> NoKey, epoch |-> 0]]
    /\ completion = [t \in Task |-> FALSE]
    /\ armed = [t \in Task |-> FALSE]
    /\ live = {} /\ counters = Zero
    /\ jobs = <<>> /\ completions = <<>> /\ epoch = 1 /\ gate = FALSE
    /\ wpc = [w \in Worker |-> "recv"] /\ wtask = [w \in Worker |-> NoTask]
    /\ runningNow = {}
    /\ upc = "start" /\ ending = {} /\ stopping = NoTask /\ after = "idle"
    /\ request = NoRequest /\ mounted = {}

-----------------------------------------------------------------------------
(* Workers: the loop of task_runtime, tasks::begin, tasks::finish and      *)
(* the interruptible wait a capability makes while the task runs.          *)

WGoto(w, pc) == wpc' = [wpc EXCEPT ![w] = pc]
\* `continue`: the envelope is dropped and the worker receives again.
WNext(w) ==
    /\ WGoto(w, "recv")
    /\ wtask' = [wtask EXCEPT ![w] = NoTask]

Recv(w) ==
    /\ wpc[w] = "recv" /\ jobs # <<>>
    /\ wtask' = [wtask EXCEPT ![w] = Head(jobs)]
    /\ jobs' = Tail(jobs)
    /\ WGoto(w, "epoch")
    /\ UNCHANGED <<slotVars, registryVars, completions, epoch, gate,
                   runningNow, uiVars>>

\* A job of a retired session is dropped.
CheckEpoch(w) ==
    /\ wpc[w] = "epoch"
    /\ IF slot[wtask[w]].epoch = epoch
         THEN WGoto(w, "begin") /\ UNCHANGED wtask
         ELSE WNext(w)
    /\ UNCHANGED <<slotVars, registryVars, queueVars, runningNow, uiVars>>

\* Mutant: a store where the code exchanges.
BeginStores(w) ==
    /\ wpc[w] = "begin"
    /\ state' = [state EXCEPT ![wtask[w]] = "running"]
    /\ WGoto(w, "list")
    /\ UNCHANGED <<slot, completion, armed, registryVars, queueVars, wtask,
                   runningNow, uiVars>>

\* tasks::begin, the exchange QUEUED -> RUNNING.
Begin(w) ==
    /\ wpc[w] = "begin"
    /\ IF state[wtask[w]] = "queued"
         THEN /\ state' = [state EXCEPT ![wtask[w]] = "running"]
              /\ WGoto(w, "list") /\ UNCHANGED wtask
         ELSE WNext(w) /\ UNCHANGED state
    /\ UNCHANGED <<slot, completion, armed, registryVars, queueVars,
                   runningNow, uiVars>>

\* tasks::begin, the push to RUNNING_NOW.
ListRunning(w) ==
    /\ wpc[w] = "list"
    /\ runningNow' = runningNow \union {wtask[w]}
    /\ WGoto(w, "run")
    /\ UNCHANGED <<slotVars, registryVars, queueVars, wtask, uiVars>>

\* The task calls a capability that blocks: Interrupt::arm.
Arm(w) ==
    /\ wpc[w] = "run"
    /\ armed' = [armed EXCEPT ![wtask[w]] = TRUE]
    /\ WGoto(w, "check")
    /\ UNCHANGED <<state, slot, completion, registryVars, queueVars, wtask,
                   runningNow, uiVars>>

\* Mutant: the wait is entered without asking whether the task ended.
CheckNothing(w) ==
    /\ wpc[w] = "check"
    /\ WGoto(w, "blocked")
    /\ UNCHANGED <<slotVars, registryVars, queueVars, wtask, runningNow, uiVars>>

\* Interrupt::requested, and the wait, under the lock the hook takes.
CheckRequested(w) ==
    /\ wpc[w] = "check"
    /\ WGoto(w, IF Stopped(wtask[w]) THEN "disarm" ELSE "blocked")
    /\ UNCHANGED <<slotVars, registryVars, queueVars, wtask, runningNow, uiVars>>

\* The capability answers: a tick, a change, a row.  Nothing makes it.
Answer(w) ==
    /\ wpc[w] = "blocked"
    /\ WGoto(w, "disarm")
    /\ UNCHANGED <<slotVars, registryVars, queueVars, wtask, runningNow, uiVars>>

\* Interrupt::drop.
Disarm(w) ==
    /\ wpc[w] = "disarm"
    /\ armed' = [armed EXCEPT ![wtask[w]] = FALSE]
    /\ WGoto(w, "run")
    /\ UNCHANGED <<state, slot, completion, registryVars, queueVars, wtask,
                   runningNow, uiVars>>

\* Mutant: the completion stays with the envelope instead of the slot.
ReturnWithoutStore(w) ==
    /\ wpc[w] = "run"
    /\ WGoto(w, "publish")
    /\ UNCHANGED <<slotVars, registryVars, queueVars, wtask, runningNow, uiVars>>

\* roc_gui_run_task returned, its one completion collected.
Return(w) ==
    /\ wpc[w] = "run"
    /\ WGoto(w, "store")
    /\ UNCHANGED <<slotVars, registryVars, queueVars, wtask, runningNow, uiVars>>

\* tasks::finish, the completion put in the slot.
Store(w) ==
    /\ wpc[w] = "store"
    /\ completion' = [completion EXCEPT ![wtask[w]] = TRUE]
    /\ WGoto(w, "publish")
    /\ UNCHANGED <<state, slot, armed, registryVars, queueVars, wtask,
                   runningNow, uiVars>>

\* tasks::finish, the exchange RUNNING -> PUBLISHED.
PublishSlot(w) ==
    /\ wpc[w] = "publish"
    /\ IF state[wtask[w]] = "running"
         THEN /\ state' = [state EXCEPT ![wtask[w]] = "published"]
              /\ WGoto(w, "count")
         ELSE WGoto(w, "discard") /\ UNCHANGED state
    /\ UNCHANGED <<slot, completion, armed, registryVars, queueVars, wtask,
                   runningNow, uiVars>>

\* tasks::finish, bump(COMPLETED).
CountCompleted(w) ==
    /\ wpc[w] = "count"
    /\ counters' = Bump("completed")
    /\ WGoto(w, "unlist")
    /\ UNCHANGED <<slotVars, live, queueVars, wtask, runningNow, uiVars>>

\* Mutant: the worker trusts `stop` to have taken the completion.
DiscardNothing(w) ==
    /\ wpc[w] = "discard"
    /\ WGoto(w, "forget")
    /\ UNCHANGED <<slotVars, registryVars, queueVars, wtask, runningNow, uiVars>>

\* tasks::finish, take_completion of a task that ended while it ran.
Discard(w) ==
    /\ wpc[w] = "discard"
    /\ completion' = [completion EXCEPT ![wtask[w]] = FALSE]
    /\ WGoto(w, "forget")
    /\ UNCHANGED <<state, slot, armed, registryVars, queueVars, wtask,
                   runningNow, uiVars>>

\* Mutant: the envelope is dropped whatever `finish` answered.
UnlistForgets(w) ==
    /\ wpc[w] \in {"unlist", "forget"}
    /\ runningNow' = runningNow \ {wtask[w]}
    /\ WNext(w)
    /\ UNCHANGED <<slotVars, registryVars, queueVars, uiVars>>

\* tasks::finish, the removal from RUNNING_NOW, and its answer: a published
\* completion goes on to the queue, another envelope is dropped.
Unlist(w) ==
    /\ wpc[w] \in {"unlist", "forget"}
    /\ runningNow' = runningNow \ {wtask[w]}
    /\ IF wpc[w] = "unlist"
         THEN WGoto(w, "gate") /\ UNCHANGED wtask
         ELSE WNext(w)
    /\ UNCHANGED <<slotVars, registryVars, queueVars, uiVars>>

\* Mutant: the epoch is read before the gate, so retirement can pass between.
EnterNoGate(w) ==
    /\ wpc[w] = "gate"
    /\ IF slot[wtask[w]].epoch = epoch
         THEN WGoto(w, "send") /\ UNCHANGED wtask
         ELSE WNext(w)
    /\ UNCHANGED <<slotVars, registryVars, queueVars, runningNow, uiVars>>

\* The publication gate is taken and the epoch read under it.
EnterGate(w) ==
    /\ wpc[w] = "gate" /\ ~gate
    /\ IF slot[wtask[w]].epoch = epoch
         THEN gate' = TRUE /\ WGoto(w, "send") /\ UNCHANGED wtask
         ELSE WNext(w) /\ UNCHANGED gate
    /\ UNCHANGED <<slotVars, registryVars, jobs, completions, epoch,
                   runningNow, uiVars>>

\* Mutant: the gate is never released.
SendKeepsGate(w) ==
    /\ wpc[w] = "send"
    /\ completions' = Append(completions, wtask[w])
    /\ WNext(w)
    /\ UNCHANGED <<slotVars, registryVars, jobs, epoch, gate, runningNow, uiVars>>

\* completions.send_blocking on the unbounded channel, and the gate released.
Send(w) ==
    /\ wpc[w] = "send"
    /\ completions' = Append(completions, wtask[w])
    /\ gate' = FALSE
    /\ WNext(w)
    /\ UNCHANGED <<slotVars, registryVars, jobs, epoch, runningNow, uiVars>>

\* What a worker does of its own accord.
WorkerStep(w) ==
    \/ Recv(w) \/ CheckEpoch(w) \/ Begin(w) \/ ListRunning(w)
    \/ CheckRequested(w) \/ Disarm(w)
    \/ Store(w) \/ PublishSlot(w) \/ CountCompleted(w) \/ Discard(w)
    \/ Unlist(w) \/ EnterGate(w) \/ Send(w)

-----------------------------------------------------------------------------
(* The UI thread: turns, commits and rejections.                           *)

UGoto(pc) == upc' = pc

\* stop_where: the matching slots leave LIVE under its lock, then each is
\* stopped.  LIVE is a Vec; which of several slots is stopped first is left
\* open here.
StopWhere(S, then) ==
    /\ ending' = live \intersect S
    /\ live' = live \ S
    /\ IF live \intersect S = {}
         THEN UGoto(then) /\ UNCHANGED after
         ELSE UGoto("stop") /\ after' = then

\* The loop over `ended`, S of which is left.
StopLoop(S) ==
    IF S = {} THEN UGoto(after) /\ after' = "idle"
              ELSE UGoto("stop") /\ UNCHANGED after

\* The UI thread dispatches an event to Roc.
Dispatch ==
    /\ upc = "idle"
    /\ UGoto("turn")
    /\ UNCHANGED <<slotVars, registryVars, queueVars, workerVars, ending,
                   stopping, after, request, mounted>>

\* The UI thread takes a completion: deliverable and tasks::deliver.  What is
\* delivered starts a turn (`complete`), what is not is dropped without one.
TakeCompletion ==
    /\ upc = "idle" /\ completions # <<>>
    /\ completions' = Tail(completions)
    /\ LET t == Head(completions) IN
         IF slot[t].epoch = epoch /\ state[t] = "published"
           THEN /\ state' = [state EXCEPT ![t] = "delivered"]
                /\ counters' = Bump("delivered")
                /\ live' = live \ {t}
                /\ completion' = [completion EXCEPT ![t] = FALSE]
                /\ UGoto("turn")
           ELSE UNCHANGED <<state, counters, live, completion, upc>>
    /\ UNCHANGED <<slot, armed, jobs, epoch, gate, workerVars, ending,
                   stopping, after, request, mounted>>

\* tasks::unmount's match; the mutant overlooks what no worker has taken yet.
UnmountsRunning(t, removed) ==
    slot[t].owner # Root /\ slot[t].owner \in removed /\ state[t] = "running"
Unmounts(t, removed) == slot[t].owner # Root /\ slot[t].owner \in removed

\* accept_transaction: the graph took the patch, which removed some instances
\* and mounted others.  tasks::unmount stops what the removed ones own.
Accept(removed, added) ==
    /\ upc \in {"turn", "start"}
    /\ removed \subseteq mounted /\ added \subseteq Owner \ (mounted \union {Root})
    /\ mounted' = (mounted \ removed) \union added
    /\ StopWhere({t \in live : Unmounts(t, removed)}, "cancels")
    /\ UNCHANGED <<slotVars, counters, queueVars, workerVars, stopping, request>>

\* accept_transaction: tasks::cancel of each key the turn cancels.
Cancel(pairs) ==
    /\ upc = "cancels"
    /\ StopWhere({t \in live : <<slot[t].owner, slot[t].key>> \in pairs}, "jobs")
    /\ UNCHANGED <<slotVars, counters, queueVars, workerVars, stopping, request,
                   mounted>>

\* accept_transaction: a staged job whose owner is mounted reaches
\* tasks::issue, which first supersedes the owner's task with that key.  A
\* job whose owner is not is dropped, changing nothing.  Bound: the slots.
Issue(r) ==
    /\ upc = "jobs" /\ \E t \in Task : state[t] = "none"
    /\ r.owner = Root \/ r.owner \in mounted
    /\ request' = r
    /\ StopWhere({t \in live : r.key # NoKey /\ slot[t].owner = r.owner
                                            /\ slot[t].key = r.key}, "issue")
    /\ UNCHANGED <<slotVars, counters, queueVars, workerVars, stopping, mounted>>

\* tasks::issue creates the slot, and the job is sent.
Enqueue(t) ==
    /\ upc = "issue" /\ state[t] = "none"
    /\ state' = [state EXCEPT ![t] = "queued"]
    /\ slot' = [slot EXCEPT ![t] = [owner |-> request.owner, key |-> request.key,
                                   epoch |-> epoch]]
    /\ counters' = Bump("issued")
    /\ live' = live \union {t}
    /\ jobs' = Append(jobs, t)
    /\ request' = NoRequest
    /\ UGoto("jobs")
    /\ UNCHANGED <<completion, armed, completions, epoch, gate, workerVars,
                   ending, stopping, after, mounted>>

EndTurn ==
    /\ upc = "jobs"
    /\ UGoto("idle")
    /\ UNCHANGED <<slotVars, registryVars, queueVars, workerVars, ending,
                   stopping, after, request, mounted>>

\* reject_transaction drops the staged turn; the runner then ends the session.
Reject ==
    /\ upc \in {"turn", "start"} /\ epoch < MaxEpoch
    /\ UGoto("clear")
    /\ UNCHANGED <<slotVars, registryVars, queueVars, workerVars, ending,
                   stopping, after, request, mounted>>

-----------------------------------------------------------------------------
(* The UI thread inside tasks::stop, for each slot of `ending`.            *)

\* `issue` supersedes; unmount, cancel and reset cancel.
Why == IF after = "issue" THEN "superseded" ELSE "cancelled"

\* `current >= DELIVERED`; the mutant is off by one.
AlreadyPublished(t) == state[t] \in Ended \union {"published"}
AlreadyEnded(t) == state[t] \in Ended

\* The exchange to the reason, and its count.  A slot that already ended
\* otherwise is left alone.
StopSlot(t) ==
    /\ upc = "stop" /\ t \in ending
    /\ ending' = ending \ {t}
    /\ IF AlreadyEnded(t)
         THEN StopLoop(ending') /\ UNCHANGED <<state, counters, stopping>>
         ELSE /\ state' = [state EXCEPT ![t] = Why]
              /\ counters' = Bump(Why)
              /\ stopping' = t
              /\ UGoto("take") /\ UNCHANGED after
    /\ UNCHANGED <<slot, completion, armed, live, queueVars, workerVars, request,
                   mounted>>

\* drop(take_completion(slot)).
StopTake ==
    /\ upc = "take"
    /\ completion' = [completion EXCEPT ![stopping] = FALSE]
    /\ UGoto("wake")
    /\ UNCHANGED <<state, slot, armed, registryVars, queueVars, workerVars,
                   ending, stopping, after, request, mounted>>

\* The hook, if the wait is armed: one interruption counted, the waiter woken.
StopWake ==
    /\ upc = "wake"
    /\ IF armed[stopping]
         THEN /\ counters' = Bump("interrupted")
              /\ wpc' = [w \in Worker |->
                           IF wtask[w] = stopping /\ wpc[w] = "blocked"
                             THEN "check" ELSE wpc[w]]
         ELSE UNCHANGED <<counters, wpc>>
    /\ stopping' = NoTask
    /\ StopLoop(ending)
    /\ UNCHANGED <<slotVars, live, queueVars, wtask, runningNow, ending, request,
                   mounted>>

-----------------------------------------------------------------------------
(* clear_bridge: the session ends and the next one of the process starts.  *)

\* Under the gate: the epoch moves on.
ClearEpoch ==
    /\ upc \in {"idle", "clear"} /\ ~gate /\ epoch < MaxEpoch
    /\ gate' = TRUE
    /\ epoch' = epoch + 1
    /\ UGoto("drain")
    /\ UNCHANGED <<slotVars, registryVars, jobs, completions, workerVars, ending,
                   stopping, after, request, mounted>>

\* Mutant: reset stops only what a worker is running.
ClearDrainRunning ==
    /\ upc = "drain"
    /\ completions' = <<>> /\ jobs' = <<>>
    /\ gate' = FALSE
    /\ StopWhere({t \in live : state[t] = "running"}, "reset")
    /\ UNCHANGED <<slotVars, counters, epoch, workerVars, stopping, request,
                   mounted>>

\* Still under the gate: both queues are drained, then it is released and
\* tasks::reset takes all of LIVE and stops it.
ClearDrain ==
    /\ upc = "drain"
    /\ completions' = <<>> /\ jobs' = <<>>
    /\ gate' = FALSE
    /\ StopWhere(live, "reset")
    /\ UNCHANGED <<slotVars, counters, epoch, workerVars, stopping, request,
                   mounted>>

\* tasks::reset forgets the counts; the graph of the session is gone.
ClearReset ==
    /\ upc = "reset"
    /\ counters' = Zero
    /\ mounted' = {}
    /\ UGoto("start")
    /\ UNCHANGED <<slotVars, live, queueVars, workerVars, ending, stopping, after,
                   request>>

\* The UI thread inside one call: nothing but scheduling can delay it.
UiStep ==
    \/ \E removed, added \in SUBSET Owner : Accept(removed, added)
    \/ \E pairs \in SUBSET (Owner \X Key) : Cancel(pairs)
    \/ \E t \in Task : Enqueue(t)
    \/ EndTurn
    \/ \E t \in Task : StopSlot(t)
    \/ StopTake \/ StopWake
    \/ ClearDrain \/ ClearReset

Next ==
    \/ \E w \in Worker : WorkerStep(w) \/ Arm(w) \/ Answer(w) \/ Return(w)
    \/ UiStep
    \/ Dispatch \/ TakeCompletion \/ Reject \/ ClearEpoch
    \/ \E r \in Request : Issue(r)

Spec == Init /\ [][Next]_vars

\* Fairness.  A worker and the UI thread get processor time (weak); the
\* executor takes queued completions between events (strong: every event
\* makes it wait).  Nothing obliges a capability to answer, a task to return,
\* an event to arrive or the session to end.
Fairness ==
    /\ \A w \in Worker : WF_vars(WorkerStep(w))
    /\ WF_vars(UiStep)
    /\ SF_vars(TakeCompletion)
    /\ WF_vars(upc = "clear" /\ ClearEpoch)

FairSpec == Spec /\ Fairness

-----------------------------------------------------------------------------
(* Properties.                                                             *)

\* Every variable has its type.
TypeOK ==
    /\ state \in [Task -> {"none"} \union Unended \union Ended]
    /\ slot \in [Task -> Slot]
    /\ completion \in [Task -> BOOLEAN]
    /\ armed \in [Task -> BOOLEAN]
    /\ live \subseteq Task
    /\ runningNow \subseteq Task
    /\ counters \in [Counter -> Nat]
    /\ jobs \in Seq(Task) /\ completions \in Seq(Task)
    /\ epoch \in Nat /\ gate \in BOOLEAN
    /\ wpc \in [Worker -> WorkerPC]
    /\ wtask \in [Worker -> Task \union {NoTask}]
    /\ \A w \in Worker : wpc[w] # "recv" => wtask[w] \in Task
    /\ upc \in UiPC
    /\ ending \subseteq Task
    /\ stopping \in Task \union {NoTask}
    /\ upc \in {"take", "wake"} => stopping \in Task
    /\ after \in {"idle", "cancels", "jobs", "issue", "reset"}
    /\ request \in Request
    /\ mounted \subseteq Owner \ {Root}

\* Supersession: of one component's tasks with one non-empty key at most one
\* has not ended, at every instant and whatever the workers do meanwhile.
OnePerKey ==
    \A t, u \in Task :
        /\ state[t] \in Unended /\ state[u] \in Unended
        /\ slot[t].owner = slot[u].owner
        /\ slot[t].key = slot[u].key /\ slot[t].key # NoKey
        => t = u

\* A removed component's tasks end with it, and a retired session's with it:
\* between turns every task that has not ended belongs to a mounted component
\* or to none, and to this session.
NoOrphan ==
    upc = "idle" =>
        \A t \in Task : state[t] \in Unended =>
            /\ slot[t].owner \in mounted \union {Root}
            /\ slot[t].epoch = epoch

\* A result nobody will see is released at once: once a task ended, its
\* completion is held only while `stop` is about to take it or while its
\* worker, still listed as running, is about to.
EndedHoldsNothing ==
    \A t \in Task : state[t] \in Ended /\ completion[t] =>
        \/ t \in runningNow
        \/ upc = "take" /\ stopping = t

\* The deliver step always finds the completion it counts as delivered.
PublishedHolds ==
    \A t \in Task : state[t] = "published" => completion[t]

\* No wake is lost: a worker blocked for a task that was stopped is one the
\* UI thread is about to wake.
NoLostWake ==
    \A w \in Worker :
        wpc[w] = "blocked" /\ Stopped(wtask[w]) =>
            upc \in {"take", "wake"} /\ stopping = wtask[w]

\* Issued less settled is the work outstanding, exactly.
OutstandingExact ==
    counters["issued"] - Settled = Cardinality({t \in Task : state[t] \in Unended})

\* The gate: no completion of a retired session is left for the next one.
NoStaleCompletion ==
    upc # "drain" =>
        \A i \in DOMAIN completions : slot[completions[i]].epoch = epoch

\* A completion reaches the application only while its component is mounted,
\* in the session that issued the task, and was counted as completed first.
DeliveredToMounted ==
    [][\A t \in Task : state[t] # "delivered" /\ state'[t] = "delivered" =>
          /\ slot[t].owner \in mounted \union {Root}
          /\ slot[t].epoch = epoch
          /\ counters["delivered"] < counters["completed"]]_vars

\* What the application sees of the tasks is the abstract lifecycle.
Phase(s) == CASE s = "none" -> "fresh"
              [] s \in {"queued", "running"} -> "pending"
              [] s = "published" -> "ready"
              [] OTHER -> s

Lifecycle == INSTANCE TaskLifecycle WITH
    phase <- [t \in Task |-> Phase(state[t])],
    who <- [t \in Task |-> <<slot[t].owner, slot[t].key>>]

\* The runtime implements the lifecycle: a task ends once, and finally.
ImplementsLifecycle == Lifecycle!Spec

\* A wait whose task was stopped unblocks, whatever its capability does.
StoppedWaitUnblocks ==
    \A w \in Worker, t \in Task :
        wpc[w] = "blocked" /\ wtask[w] = t /\ Stopped(t)
            ~> wtask[w] # t \/ wpc[w] = "disarm"

\* A published completion is delivered, or its task ends without delivery.
PublishedSettles ==
    \A t \in Task : state[t] = "published" ~> state[t] \in Ended

\* Ending a session never waits for a worker: a rejected turn is followed by a
\* new session even while every worker is blocked.
RetirementCompletes ==
    upc \in {"clear", "drain"} ~> upc = "start"

=============================================================================

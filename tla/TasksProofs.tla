---------------------------- MODULE TasksProofs ----------------------------
(***************************************************************************)
(* What TLC checks of Tasks on two tasks and two workers, proved for every *)
(* set of tasks, workers, components and keys and any number of sessions.  *)
(***************************************************************************)
EXTENDS Tasks, FiniteSetTheorems, TLAPS

-----------------------------------------------------------------------------
(* Type correctness.                                                       *)

\* A worker's step keeps every variable in its type.
LEMMA TypeOKWorker ==
    ASSUME TypeOK, NEW w \in Worker,
           WorkerStep(w) \/ Arm(w) \/ Answer(w) \/ Return(w)
    PROVE  TypeOK'
<1> USE TaskAssumption
<1> USE DEF TypeOK, slotVars, registryVars, queueVars, uiVars, WGoto, WNext,
            WorkerPC
<1>1. CASE Recv(w)
  <2>1. Head(jobs) \in Task /\ Tail(jobs) \in Seq(Task)
    BY <1>1 DEF Recv
  <2> QED BY <1>1, <2>1 DEF Recv
<1>2. CASE CheckEpoch(w) BY <1>2 DEF CheckEpoch
<1>3. CASE Begin(w) BY <1>3 DEF Begin, Unended
<1>4. CASE ListRunning(w) BY <1>4 DEF ListRunning
<1>5. CASE Arm(w) BY <1>5 DEF Arm
<1>6. CASE CheckRequested(w) BY <1>6 DEF CheckRequested
<1>7. CASE Answer(w) BY <1>7 DEF Answer
<1>8. CASE Disarm(w) BY <1>8 DEF Disarm
<1>9. CASE Return(w) BY <1>9 DEF Return
<1>10. CASE Store(w) BY <1>10 DEF Store
<1>11. CASE PublishSlot(w) BY <1>11 DEF PublishSlot, Unended
<1>12. CASE CountCompleted(w) BY <1>12 DEF CountCompleted, Bump, Counter
<1>13. CASE Discard(w) BY <1>13 DEF Discard
<1>14. CASE Unlist(w) BY <1>14 DEF Unlist
<1>15. CASE EnterGate(w) BY <1>15 DEF EnterGate
<1>16. CASE Send(w)
  <2>1. Append(completions, wtask[w]) \in Seq(Task)
    BY <1>16 DEF Send
  <2> QED BY <1>16, <2>1 DEF Send
<1> QED
  BY <1>1, <1>2, <1>3, <1>4, <1>5, <1>6, <1>7, <1>8, <1>9, <1>10, <1>11, <1>12,
     <1>13, <1>14, <1>15, <1>16 DEF WorkerStep

\* A step of the UI thread keeps every variable in its type.
LEMMA TypeOKUi ==
    ASSUME TypeOK,
           \/ UiStep \/ Dispatch \/ TakeCompletion \/ Reject \/ ClearEpoch
           \/ \E r \in Request : Issue(r)
    PROVE  TypeOK'
<1> USE TaskAssumption, OwnerAssumption
<1> USE DEF TypeOK, slotVars, registryVars, queueVars, workerVars, UGoto,
            UiPC, StopWhere
<1>1. CASE Dispatch BY <1>1 DEF Dispatch
<1>2. CASE TakeCompletion
  <2>1. Head(completions) \in Task /\ Tail(completions) \in Seq(Task)
    BY <1>2 DEF TakeCompletion
  <2> DEFINE t == Head(completions)
  <2>2. state' \in [Task -> {"none"} \union Unended \union Ended]
    BY <1>2, <2>1 DEF TakeCompletion, Ended
  <2>3. counters' \in [Counter -> Nat]
    BY <1>2 DEF TakeCompletion, Bump, Counter
  <2>4. completion' \in [Task -> BOOLEAN] /\ live' \subseteq Task /\ upc' \in UiPC
        /\ (upc' = upc \/ upc' = "turn")
    BY <1>2, <2>1 DEF TakeCompletion
  <2> QED BY <1>2, <2>1, <2>2, <2>3, <2>4 DEF TakeCompletion
<1>3. CASE Reject BY <1>3 DEF Reject
<1>4. CASE ClearEpoch BY <1>4 DEF ClearEpoch
<1>5. ASSUME NEW r \in Request, Issue(r) PROVE TypeOK'
  BY <1>5 DEF Issue
<1>6. ASSUME NEW removed \in SUBSET Owner, NEW added \in SUBSET Owner,
             Accept(removed, added)
      PROVE  TypeOK'
  BY <1>6 DEF Accept
<1>7. ASSUME NEW pairs \in SUBSET (Owner \X Key), Cancel(pairs)
      PROVE  TypeOK'
  BY <1>7 DEF Cancel
<1>8. ASSUME NEW t \in Task, Enqueue(t) PROVE TypeOK'
  <2>1. Append(jobs, t) \in Seq(Task)
    BY DEF TypeOK
  <2>2. NoRequest \in Request
    BY DEF NoRequest, Request
  <2>3. [owner |-> request.owner, key |-> request.key, epoch |-> epoch] \in Slot
    BY DEF Request, Slot
  <2> QED BY <1>8, <2>1, <2>2, <2>3 DEF Enqueue, Bump, Counter, Unended
<1>9. CASE EndTurn BY <1>9 DEF EndTurn
<1>10. ASSUME NEW t \in Task, StopSlot(t) PROVE TypeOK'
  <2>1. counters' \in [Counter -> Nat]
    BY <1>10 DEF StopSlot, Why, Bump, Counter
  <2>2. state' \in [Task -> {"none"} \union Unended \union Ended]
    BY <1>10 DEF StopSlot, Why, Ended
  <2>3. CASE AlreadyEnded(t)
    BY <1>10, <2>3, <2>1, <2>2 DEF StopSlot, StopLoop
  <2>4. CASE ~ AlreadyEnded(t)
    BY <1>10, <2>4, <2>1, <2>2 DEF StopSlot
  <2> QED BY <2>3, <2>4
<1>11. CASE StopTake BY <1>11 DEF StopTake
<1>12. CASE StopWake
  <2>1. counters' \in [Counter -> Nat]
    BY <1>12 DEF StopWake, Bump, Counter
  <2>2. wpc' \in [Worker -> WorkerPC]
    BY <1>12 DEF StopWake, WorkerPC
  <2>3. \A w \in Worker : wpc'[w] # "recv" => wtask'[w] \in Task
    BY <1>12 DEF StopWake
  <2>4. \/ upc' = after /\ after' = "idle"
        \/ upc' = "stop" /\ after' = after
    BY <1>12 DEF StopWake, StopLoop
  <2> QED BY <1>12, <2>1, <2>2, <2>3, <2>4 DEF StopWake
<1>13. CASE ClearDrain
  <2>1. jobs' \in Seq(Task) /\ completions' \in Seq(Task)
    BY <1>13 DEF ClearDrain
  <2> QED BY <1>13, <2>1 DEF ClearDrain
<1>14. CASE ClearReset BY <1>14 DEF ClearReset, Zero, Counter
<1> QED
  BY <1>1, <1>2, <1>3, <1>4, <1>5, <1>6, <1>7, <1>8, <1>9, <1>10, <1>11, <1>12,
     <1>13, <1>14 DEF UiStep

\* A process starts with every variable in its type.
LEMMA TypeOKInit == Init => TypeOK
<1> SUFFICES ASSUME Init PROVE TypeOK
  OBVIOUS
<1>1. slot \in [Task -> Slot] /\ request \in Request
  BY OwnerAssumption DEF Init, Slot, Request, NoRequest
<1>2. counters \in [Counter -> Nat]
  BY DEF Init, Zero
<1>3. jobs \in Seq(Task) /\ completions \in Seq(Task)
  BY DEF Init
<1> QED BY <1>1, <1>2, <1>3 DEF Init, TypeOK, WorkerPC, UiPC

\* Every variable of the runtime keeps its type.
THEOREM TypeCorrect == Spec => []TypeOK
<1>1. Init => TypeOK BY TypeOKInit
<1>2. TypeOK /\ [Next]_vars => TypeOK'
  <2> SUFFICES ASSUME TypeOK, [Next]_vars PROVE TypeOK'
    OBVIOUS
  <2>1. CASE Next BY <2>1, TypeOKWorker, TypeOKUi DEF Next
  <2>2. CASE UNCHANGED vars
    BY <2>2 DEF TypeOK, vars, slotVars, registryVars, queueVars, workerVars, uiVars
  <2> QED BY <2>1, <2>2
<1> QED BY <1>1, <1>2, PTL DEF Spec

-----------------------------------------------------------------------------
(* The inductive invariant, in three parts.                                *)

Stopping == upc \in {"stop", "take", "wake"}
Issuing == upc = "issue" \/ (Stopping /\ after = "issue")
Resetting == upc \in {"reset", "start"} \/ (Stopping /\ after = "reset")

\* What the UI thread alone keeps true: every task that has not ended is in
\* LIVE or among the slots it is stopping, LIVE holds tasks of this session
\* and of mounted components only, and while a keyed job is being issued no
\* live task has its owner and key.
UiInv ==
    /\ ~Stopping => ending = {}
    /\ \A t \in Task : state[t] \in Unended => t \in live \union ending
    /\ \A t \in live \union ending : state[t] # "none"
    /\ upc \in {"take", "wake"} => Stopped(stopping)
    /\ Issuing =>
         /\ request.owner \in mounted \union {Root}
         /\ request.key # NoKey =>
              \A t \in live : slot[t].owner # request.owner \/ slot[t].key # request.key
    /\ Stopping /\ after = "issue" => \A t \in ending : slot[t].key # NoKey
    /\ Resetting => live = {}
    /\ \A t \in live : /\ slot[t].owner \in mounted \union {Root}
                       /\ upc # "drain" => slot[t].epoch = epoch
    /\ OnePerKey

\* Where a worker is once `begin` let it run a task.
Ran == {"list", "run", "check", "blocked", "disarm", "store", "publish", "count",
        "discard", "unlist", "forget", "gate", "send"}
BeforePublish == {"list", "run", "check", "blocked", "disarm", "store", "publish"}
Listed == {"run", "check", "blocked", "disarm", "store", "publish", "count",
           "discard", "unlist", "forget"}

HeldExists == \A w \in Worker : wpc[w] # "recv" => state[wtask[w]] # "none"
RanBegun == \A w \in Worker : wpc[w] \in Ran => state[wtask[w]] # "queued"
OneRunner ==
    \A w, v \in Worker :
        wpc[w] \in Ran /\ wpc[v] \in Ran /\ wtask[w] = wtask[v] => w = v
JobsExist == \A i \in 1..Len(jobs) : state[jobs[i]] # "none"
BeforeUnpublished ==
    \A w \in Worker : wpc[w] \in BeforePublish =>
        state[wtask[w]] \in {"running", "superseded", "cancelled"}
DroppedStopped == \A w \in Worker : wpc[w] \in {"discard", "forget"} => Stopped(wtask[w])
RunningListed == \A w \in Worker : wpc[w] \in Listed => wtask[w] \in runningNow
WaitArmed ==
    \A w \in Worker : wpc[w] \in {"check", "blocked", "disarm"} => armed[wtask[w]]
StoredHeld ==
    \A w \in Worker : wpc[w] = "publish" /\ state[wtask[w]] = "running" =>
        completion[wtask[w]]
EndedTaken ==
    \A t \in Task : state[t] \in Ended /\ completion[t] =>
        \/ upc = "take" /\ stopping = t
        \/ \E w \in Worker : wpc[w] \in {"publish", "discard"} /\ wtask[w] = t

\* What ties a worker to its slot: at most one worker runs a task, the task is
\* listed, armed and published where the worker's place says so, and a
\* completion left in an ended slot has a thread about to take it.
WorkerInv ==
    /\ HeldExists /\ RanBegun /\ OneRunner /\ JobsExist /\ BeforeUnpublished
    /\ DroppedStopped /\ RunningListed /\ WaitArmed /\ StoredHeld
    /\ PublishedHolds /\ EndedTaken /\ NoLostWake

\* What the publication gate protects.
GateInv ==
    /\ \A w \in Worker : wpc[w] = "send" => gate /\ slot[wtask[w]].epoch = epoch
    /\ \A w, v \in Worker : wpc[w] = "send" /\ wpc[v] = "send" => w = v
    /\ upc = "drain" => gate /\ \A w \in Worker : wpc[w] # "send"
    /\ \A i \in 1..Len(completions) :
         /\ completions[i] \in Task
         /\ state[completions[i]] # "none"
         /\ upc # "drain" => slot[completions[i]].epoch = epoch

Inv == TypeOK /\ UiInv /\ WorkerInv /\ GateInv

\* What a worker does never touches what the UI thread owns, and moves a slot
\* only among the states of a task that has not ended.
LEMMA WorkerFrame ==
    ASSUME TypeOK, NEW w \in Worker,
           WorkerStep(w) \/ Arm(w) \/ Answer(w) \/ Return(w)
    PROVE  /\ UNCHANGED <<slot, live, epoch, uiVars>>
           /\ \A t \in Task : (state'[t] \in Unended <=> state[t] \in Unended)
                            /\ (Stopped(t)' <=> Stopped(t))
                            /\ (state'[t] = "none" <=> state[t] = "none")
<1>1. CASE Begin(w)
  BY <1>1 DEF Begin, TypeOK, Unended, Stopped, WNext, WGoto, registryVars, queueVars
<1>2. CASE PublishSlot(w)
  BY <1>2 DEF PublishSlot, TypeOK, Unended, Stopped, registryVars, queueVars
<1>3. CASE \/ Recv(w) \/ CheckEpoch(w) \/ ListRunning(w) \/ CheckRequested(w)
           \/ Disarm(w) \/ Store(w) \/ CountCompleted(w) \/ Discard(w) \/ Unlist(w)
           \/ EnterGate(w) \/ Send(w) \/ Arm(w) \/ Answer(w) \/ Return(w)
  <2>1. UNCHANGED <<state, slot, live, epoch, uiVars>>
    BY <1>3 DEF Recv, CheckEpoch, ListRunning, CheckRequested, Disarm, Store,
       CountCompleted, Discard, Unlist, EnterGate, Send, Arm, Answer, Return,
       slotVars, registryVars, queueVars
  <2> QED BY <2>1 DEF Stopped
<1> QED BY <1>1, <1>2, <1>3 DEF WorkerStep

\* A worker leaves the UI thread's part of the invariant alone: it does not touch
\* the turn, and only moves slots that have not ended.
LEMMA UiInvWorker ==
    ASSUME TypeOK, UiInv, NEW w \in Worker,
           WorkerStep(w) \/ Arm(w) \/ Answer(w) \/ Return(w)
    PROVE  UiInv'
<1>1. /\ UNCHANGED <<slot, live, epoch, uiVars>>
      /\ \A t \in Task : (state'[t] \in Unended <=> state[t] \in Unended)
                       /\ (Stopped(t)' <=> Stopped(t))
                       /\ (state'[t] = "none" <=> state[t] = "none")
  BY WorkerFrame
<1>2. upc' \in {"take", "wake"} => Stopped(stopping)'
  BY <1>1 DEF UiInv, TypeOK, Stopped, uiVars
<1>3. OnePerKey'
  BY <1>1 DEF UiInv, OnePerKey
<1> QED
  BY <1>1, <1>2, <1>3 DEF UiInv, TypeOK, uiVars, Stopping, Issuing, Resetting

\* The UI thread keeps its own part: what `issue`, `cancel`, `unmount`, `reset`
\* and `deliver` still have to stop is what the turn says.
LEMMA UiInvUi ==
    ASSUME TypeOK, UiInv,
           \/ UiStep \/ Dispatch \/ TakeCompletion \/ Reject \/ ClearEpoch
           \/ \E r \in Request : Issue(r)
    PROVE  UiInv'
<1> USE TaskAssumption, OwnerAssumption
<1> USE DEF TypeOK, UiInv, OnePerKey, Stopping, Issuing, Resetting, Stopped,
            slotVars, registryVars, queueVars, workerVars, UGoto
<1>1. CASE Dispatch BY <1>1 DEF Dispatch
<1>2. CASE TakeCompletion
  <2>1. Head(completions) \in Task
    BY <1>2 DEF TakeCompletion
  <2>2. \A t \in Task : state'[t] \in Unended => state[t] \in Unended
                       /\ (t \in live => t \in live')
    BY <1>2, <2>1 DEF TakeCompletion, Unended
  <2>3. live' \subseteq live /\ upc' \in {"idle", "turn"} /\ ending = {}
    BY <1>2 DEF TakeCompletion
  <2>4. \A t \in live' : state'[t] # "none"
    BY <1>2, <2>1, <2>3 DEF TakeCompletion
  <2> QED BY <1>2, <2>2, <2>3, <2>4 DEF TakeCompletion
<1>3. CASE Reject BY <1>3 DEF Reject
<1>4. CASE ClearEpoch BY <1>4 DEF ClearEpoch
<1>5. ASSUME NEW r \in Request, Issue(r) PROVE UiInv'
  BY <1>5 DEF Issue, StopWhere
<1>6. ASSUME NEW removed \in SUBSET Owner, NEW added \in SUBSET Owner,
             Accept(removed, added)
      PROVE  UiInv'
  BY <1>6 DEF Accept, StopWhere, Unmounts
<1>7. ASSUME NEW pairs \in SUBSET (Owner \X Key), Cancel(pairs)
      PROVE  UiInv'
  BY <1>7 DEF Cancel, StopWhere
<1>8. ASSUME NEW t \in Task, Enqueue(t) PROVE UiInv'
  BY <1>8 DEF Enqueue, Unended, Request, Slot
<1>9. CASE EndTurn BY <1>9 DEF EndTurn
<1>10. ASSUME NEW t \in Task, StopSlot(t) PROVE UiInv'
  BY <1>10 DEF StopSlot, StopLoop, AlreadyEnded, Why, Ended, Unended
<1>11. CASE StopTake BY <1>11 DEF StopTake
<1>12. CASE StopWake BY <1>12 DEF StopWake, StopLoop
<1>13. CASE ClearDrain BY <1>13 DEF ClearDrain, StopWhere
<1>14. CASE ClearReset BY <1>14 DEF ClearReset
<1> QED
  BY <1>1, <1>2, <1>3, <1>4, <1>5, <1>6, <1>7, <1>8, <1>9, <1>10, <1>11, <1>12,
     <1>13, <1>14 DEF UiStep

\* The thread about to take an ended task's completion is still about to after
\* a step of a worker that is not.
LEMMA EndedTakenFrame ==
    ASSUME EndedTaken, NEW w \in Worker, wpc[w] \notin {"publish", "discard"},
           \A v \in Worker \ {w} : wpc'[v] = wpc[v] /\ wtask'[v] = wtask[v],
           \A t \in Task : state'[t] \in Ended /\ completion'[t] =>
                             state[t] \in Ended /\ completion[t],
           UNCHANGED <<upc, stopping>>
    PROVE  EndedTaken'
<1> SUFFICES ASSUME NEW t \in Task, state'[t] \in Ended, completion'[t],
                    ~(upc' = "take" /\ stopping' = t)
             PROVE  \E v \in Worker : wpc'[v] \in {"publish", "discard"} /\ wtask'[v] = t
  BY DEF EndedTaken
<1>1. PICK v \in Worker : wpc[v] \in {"publish", "discard"} /\ wtask[v] = t
  BY DEF EndedTaken
<1> WITNESS v \in Worker
<1> QED BY <1>1

\* The worker's part (where the worker of each slot is, and who releases its
\* completion) is kept by every step of `begin`, `finish` and the interrupt.
LEMMA WorkerInvWorker ==
    ASSUME TypeOK, HeldExists, RanBegun, OneRunner, JobsExist, BeforeUnpublished, DroppedStopped,
           RunningListed, WaitArmed, StoredHeld, PublishedHolds, EndedTaken, NoLostWake,
           NEW w \in Worker, WorkerStep(w) \/ Arm(w) \/ Answer(w) \/ Return(w)
    PROVE  WorkerInv'
<1> USE TaskAssumption
<1> USE DEF TypeOK, slotVars, registryVars, queueVars, uiVars, WGoto, WNext
<1>1. CASE Recv(w)
  <2>0. /\ Head(jobs) \in Task /\ state[Head(jobs)] # "none"
        /\ \A i \in 1..Len(Tail(jobs)) : state[Tail(jobs)[i]] # "none"
    BY <1>1 DEF Recv, JobsExist
  <2>1. HeldExists' BY <1>1, <2>0 DEF Recv, HeldExists
  <2>2. RanBegun' BY <1>1, <2>0 DEF Recv, RanBegun, Ran
  <2>3. OneRunner' BY <1>1, <2>0 DEF Recv, OneRunner, RanBegun, Ran
  <2>4. JobsExist' BY <1>1, <2>0 DEF Recv, JobsExist
  <2>5. BeforeUnpublished' BY <1>1, <2>0 DEF Recv, BeforeUnpublished, OneRunner, Ran, BeforePublish
  <2>6. DroppedStopped' BY <1>1, <2>0 DEF Recv, DroppedStopped, BeforeUnpublished, BeforePublish, Stopped
  <2>7. RunningListed' BY <1>1, <2>0 DEF Recv, RunningListed, OneRunner, Ran, Listed
  <2>8. WaitArmed' BY <1>1, <2>0 DEF Recv, WaitArmed, OneRunner, Ran
  <2>9. StoredHeld' BY <1>1, <2>0 DEF Recv, StoredHeld, OneRunner, Ran
  <2>10. PublishedHolds' BY <1>1, <2>0 DEF Recv, PublishedHolds, StoredHeld, DroppedStopped, Stopped
  <2>11. EndedTaken' BY <1>1, <2>0 DEF Recv, EndedTaken, Ended
  <2>12. NoLostWake' BY <1>1, <2>0 DEF Recv, NoLostWake, Stopped
  <2> QED BY <2>1, <2>2, <2>3, <2>4, <2>5, <2>6, <2>7, <2>8, <2>9, <2>10, <2>11, <2>12
     DEF WorkerInv
<1>2. CASE CheckEpoch(w)
  <2>1. HeldExists' BY <1>2 DEF CheckEpoch, HeldExists
  <2>2. RanBegun' BY <1>2 DEF CheckEpoch, RanBegun, Ran
  <2>3. OneRunner' BY <1>2 DEF CheckEpoch, OneRunner, RanBegun, Ran
  <2>4. JobsExist' BY <1>2 DEF CheckEpoch, JobsExist
  <2>5. BeforeUnpublished' BY <1>2 DEF CheckEpoch, BeforeUnpublished, OneRunner, Ran, BeforePublish
  <2>6. DroppedStopped' BY <1>2 DEF CheckEpoch, DroppedStopped, BeforeUnpublished, BeforePublish, Stopped
  <2>7. RunningListed' BY <1>2 DEF CheckEpoch, RunningListed, OneRunner, Ran, Listed
  <2>8. WaitArmed' BY <1>2 DEF CheckEpoch, WaitArmed, OneRunner, Ran
  <2>9. StoredHeld' BY <1>2 DEF CheckEpoch, StoredHeld, OneRunner, Ran
  <2>10. PublishedHolds' BY <1>2 DEF CheckEpoch, PublishedHolds, StoredHeld, DroppedStopped, Stopped
  <2>11. EndedTaken' BY <1>2, EndedTakenFrame DEF CheckEpoch
  <2>12. NoLostWake' BY <1>2 DEF CheckEpoch, NoLostWake, Stopped
  <2> QED BY <2>1, <2>2, <2>3, <2>4, <2>5, <2>6, <2>7, <2>8, <2>9, <2>10, <2>11, <2>12
     DEF WorkerInv
<1>3. CASE Begin(w)
  <2>1. HeldExists' BY <1>3 DEF Begin, HeldExists
  <2>2. RanBegun' BY <1>3 DEF Begin, RanBegun, Ran
  <2>3. OneRunner' BY <1>3 DEF Begin, OneRunner, RanBegun, Ran
  <2>4. JobsExist' BY <1>3 DEF Begin, JobsExist
  <2>5. BeforeUnpublished' BY <1>3 DEF Begin, BeforeUnpublished, OneRunner, Ran, BeforePublish
  <2>6. DroppedStopped' BY <1>3 DEF Begin, DroppedStopped, BeforeUnpublished, BeforePublish, Stopped
  <2>7. RunningListed' BY <1>3 DEF Begin, RunningListed, OneRunner, Ran, Listed
  <2>8. WaitArmed' BY <1>3 DEF Begin, WaitArmed, OneRunner, Ran
  <2>9. StoredHeld' BY <1>3 DEF Begin, StoredHeld, RanBegun, Ran
  <2>10. PublishedHolds' BY <1>3 DEF Begin, PublishedHolds, StoredHeld, DroppedStopped, Stopped
  <2>11. EndedTaken' BY <1>3, EndedTakenFrame DEF Begin, Ended
  <2>12. NoLostWake' BY <1>3 DEF Begin, NoLostWake, Stopped
  <2> QED BY <2>1, <2>2, <2>3, <2>4, <2>5, <2>6, <2>7, <2>8, <2>9, <2>10, <2>11, <2>12
     DEF WorkerInv
<1>4. CASE ListRunning(w)
  <2>1. HeldExists' BY <1>4 DEF ListRunning, HeldExists
  <2>2. RanBegun' BY <1>4 DEF ListRunning, RanBegun, Ran
  <2>3. OneRunner' BY <1>4 DEF ListRunning, OneRunner, RanBegun, Ran
  <2>4. JobsExist' BY <1>4 DEF ListRunning, JobsExist
  <2>5. BeforeUnpublished' BY <1>4 DEF ListRunning, BeforeUnpublished, OneRunner, Ran, BeforePublish
  <2>6. DroppedStopped' BY <1>4 DEF ListRunning, DroppedStopped, BeforeUnpublished, BeforePublish, Stopped
  <2>7. RunningListed' BY <1>4 DEF ListRunning, RunningListed, OneRunner, Ran, Listed
  <2>8. WaitArmed' BY <1>4 DEF ListRunning, WaitArmed, OneRunner, Ran
  <2>9. StoredHeld' BY <1>4 DEF ListRunning, StoredHeld, OneRunner, Ran
  <2>10. PublishedHolds' BY <1>4 DEF ListRunning, PublishedHolds, StoredHeld, DroppedStopped, Stopped
  <2>11. EndedTaken' BY <1>4 DEF ListRunning, EndedTaken, Ended
  <2>12. NoLostWake' BY <1>4 DEF ListRunning, NoLostWake, Stopped
  <2> QED BY <2>1, <2>2, <2>3, <2>4, <2>5, <2>6, <2>7, <2>8, <2>9, <2>10, <2>11, <2>12
     DEF WorkerInv
<1>5. CASE Arm(w)
  <2>1. HeldExists' BY <1>5 DEF Arm, HeldExists
  <2>2. RanBegun' BY <1>5 DEF Arm, RanBegun, Ran
  <2>3. OneRunner' BY <1>5 DEF Arm, OneRunner, RanBegun, Ran
  <2>4. JobsExist' BY <1>5 DEF Arm, JobsExist
  <2>5. BeforeUnpublished' BY <1>5 DEF Arm, BeforeUnpublished, OneRunner, Ran, BeforePublish
  <2>6. DroppedStopped' BY <1>5 DEF Arm, DroppedStopped, BeforeUnpublished, BeforePublish, Stopped
  <2>7. RunningListed' BY <1>5 DEF Arm, RunningListed, OneRunner, Ran, Listed
  <2>8. WaitArmed' BY <1>5 DEF Arm, WaitArmed, OneRunner, Ran
  <2>9. StoredHeld' BY <1>5 DEF Arm, StoredHeld, OneRunner, Ran
  <2>10. PublishedHolds' BY <1>5 DEF Arm, PublishedHolds, StoredHeld, DroppedStopped, Stopped
  <2>11. EndedTaken' BY <1>5 DEF Arm, EndedTaken, Ended
  <2>12. NoLostWake' BY <1>5 DEF Arm, NoLostWake, Stopped
  <2> QED BY <2>1, <2>2, <2>3, <2>4, <2>5, <2>6, <2>7, <2>8, <2>9, <2>10, <2>11, <2>12
     DEF WorkerInv
<1>6. CASE CheckRequested(w)
  <2>1. HeldExists' BY <1>6 DEF CheckRequested, HeldExists
  <2>2. RanBegun' BY <1>6 DEF CheckRequested, RanBegun, Ran
  <2>3. OneRunner' BY <1>6 DEF CheckRequested, OneRunner, RanBegun, Ran
  <2>4. JobsExist' BY <1>6 DEF CheckRequested, JobsExist
  <2>5. BeforeUnpublished' BY <1>6 DEF CheckRequested, BeforeUnpublished, OneRunner, Ran, BeforePublish
  <2>6. DroppedStopped' BY <1>6 DEF CheckRequested, DroppedStopped, BeforeUnpublished, BeforePublish, Stopped
  <2>7. RunningListed' BY <1>6 DEF CheckRequested, RunningListed, OneRunner, Ran, Listed
  <2>8. WaitArmed' BY <1>6 DEF CheckRequested, WaitArmed, OneRunner, Ran
  <2>9. StoredHeld' BY <1>6 DEF CheckRequested, StoredHeld, OneRunner, Ran
  <2>10. PublishedHolds' BY <1>6 DEF CheckRequested, PublishedHolds, StoredHeld, DroppedStopped, Stopped
  <2>11. EndedTaken' BY <1>6 DEF CheckRequested, EndedTaken, Ended
  <2>12. NoLostWake' BY <1>6 DEF CheckRequested, NoLostWake, Stopped
  <2> QED BY <2>1, <2>2, <2>3, <2>4, <2>5, <2>6, <2>7, <2>8, <2>9, <2>10, <2>11, <2>12
     DEF WorkerInv
<1>7. CASE Answer(w)
  <2>1. HeldExists' BY <1>7 DEF Answer, HeldExists
  <2>2. RanBegun' BY <1>7 DEF Answer, RanBegun, Ran
  <2>3. OneRunner' BY <1>7 DEF Answer, OneRunner, RanBegun, Ran
  <2>4. JobsExist' BY <1>7 DEF Answer, JobsExist
  <2>5. BeforeUnpublished' BY <1>7 DEF Answer, BeforeUnpublished, OneRunner, Ran, BeforePublish
  <2>6. DroppedStopped' BY <1>7 DEF Answer, DroppedStopped, BeforeUnpublished, BeforePublish, Stopped
  <2>7. RunningListed' BY <1>7 DEF Answer, RunningListed, OneRunner, Ran, Listed
  <2>8. WaitArmed' BY <1>7 DEF Answer, WaitArmed, OneRunner, Ran
  <2>9. StoredHeld' BY <1>7 DEF Answer, StoredHeld, OneRunner, Ran
  <2>10. PublishedHolds' BY <1>7 DEF Answer, PublishedHolds, StoredHeld, DroppedStopped, Stopped
  <2>11. EndedTaken' BY <1>7 DEF Answer, EndedTaken, Ended
  <2>12. NoLostWake' BY <1>7 DEF Answer, NoLostWake, Stopped
  <2> QED BY <2>1, <2>2, <2>3, <2>4, <2>5, <2>6, <2>7, <2>8, <2>9, <2>10, <2>11, <2>12
     DEF WorkerInv
<1>8. CASE Disarm(w)
  <2>1. HeldExists' BY <1>8 DEF Disarm, HeldExists
  <2>2. RanBegun' BY <1>8 DEF Disarm, RanBegun, Ran
  <2>3. OneRunner' BY <1>8 DEF Disarm, OneRunner, RanBegun, Ran
  <2>4. JobsExist' BY <1>8 DEF Disarm, JobsExist
  <2>5. BeforeUnpublished' BY <1>8 DEF Disarm, BeforeUnpublished, OneRunner, Ran, BeforePublish
  <2>6. DroppedStopped' BY <1>8 DEF Disarm, DroppedStopped, BeforeUnpublished, BeforePublish, Stopped
  <2>7. RunningListed' BY <1>8 DEF Disarm, RunningListed, OneRunner, Ran, Listed
  <2>8. WaitArmed' BY <1>8 DEF Disarm, WaitArmed, OneRunner, Ran
  <2>9. StoredHeld' BY <1>8 DEF Disarm, StoredHeld, OneRunner, Ran
  <2>10. PublishedHolds' BY <1>8 DEF Disarm, PublishedHolds, StoredHeld, DroppedStopped, Stopped
  <2>11. EndedTaken' BY <1>8 DEF Disarm, EndedTaken, Ended
  <2>12. NoLostWake' BY <1>8 DEF Disarm, NoLostWake, Stopped
  <2> QED BY <2>1, <2>2, <2>3, <2>4, <2>5, <2>6, <2>7, <2>8, <2>9, <2>10, <2>11, <2>12
     DEF WorkerInv
<1>9. CASE Return(w)
  <2>1. HeldExists' BY <1>9 DEF Return, HeldExists
  <2>2. RanBegun' BY <1>9 DEF Return, RanBegun, Ran
  <2>3. OneRunner' BY <1>9 DEF Return, OneRunner, RanBegun, Ran
  <2>4. JobsExist' BY <1>9 DEF Return, JobsExist
  <2>5. BeforeUnpublished' BY <1>9 DEF Return, BeforeUnpublished, OneRunner, Ran, BeforePublish
  <2>6. DroppedStopped' BY <1>9 DEF Return, DroppedStopped, BeforeUnpublished, BeforePublish, Stopped
  <2>7. RunningListed' BY <1>9 DEF Return, RunningListed, OneRunner, Ran, Listed
  <2>8. WaitArmed' BY <1>9 DEF Return, WaitArmed, OneRunner, Ran
  <2>9. StoredHeld' BY <1>9 DEF Return, StoredHeld, OneRunner, Ran
  <2>10. PublishedHolds' BY <1>9 DEF Return, PublishedHolds, StoredHeld, DroppedStopped, Stopped
  <2>11. EndedTaken' BY <1>9 DEF Return, EndedTaken, Ended
  <2>12. NoLostWake' BY <1>9 DEF Return, NoLostWake, Stopped
  <2> QED BY <2>1, <2>2, <2>3, <2>4, <2>5, <2>6, <2>7, <2>8, <2>9, <2>10, <2>11, <2>12
     DEF WorkerInv
<1>10. CASE Store(w)
  <2>1. HeldExists' BY <1>10 DEF Store, HeldExists
  <2>2. RanBegun' BY <1>10 DEF Store, RanBegun, Ran
  <2>3. OneRunner' BY <1>10 DEF Store, OneRunner, RanBegun, Ran
  <2>4. JobsExist' BY <1>10 DEF Store, JobsExist
  <2>5. BeforeUnpublished' BY <1>10 DEF Store, BeforeUnpublished, OneRunner, Ran, BeforePublish
  <2>6. DroppedStopped' BY <1>10 DEF Store, DroppedStopped, BeforeUnpublished, BeforePublish, Stopped
  <2>7. RunningListed' BY <1>10 DEF Store, RunningListed, OneRunner, Ran, Listed
  <2>8. WaitArmed' BY <1>10 DEF Store, WaitArmed, OneRunner, Ran
  <2>9. StoredHeld' BY <1>10 DEF Store, StoredHeld, OneRunner, Ran
  <2>10. PublishedHolds' BY <1>10 DEF Store, PublishedHolds, StoredHeld, DroppedStopped, Stopped
  <2>11. EndedTaken' BY <1>10 DEF Store, EndedTaken, Ended
  <2>12. NoLostWake' BY <1>10 DEF Store, NoLostWake, Stopped
  <2> QED BY <2>1, <2>2, <2>3, <2>4, <2>5, <2>6, <2>7, <2>8, <2>9, <2>10, <2>11, <2>12
     DEF WorkerInv
<1>11. CASE PublishSlot(w)
  <2>1. HeldExists' BY <1>11 DEF PublishSlot, HeldExists
  <2>2. RanBegun' BY <1>11 DEF PublishSlot, RanBegun, Ran
  <2>3. OneRunner' BY <1>11 DEF PublishSlot, OneRunner, RanBegun, Ran
  <2>4. JobsExist' BY <1>11 DEF PublishSlot, JobsExist
  <2>5. BeforeUnpublished' BY <1>11 DEF PublishSlot, BeforeUnpublished, OneRunner, Ran, BeforePublish
  <2>6. DroppedStopped' BY <1>11 DEF PublishSlot, DroppedStopped, BeforeUnpublished, BeforePublish, Stopped
  <2>7. RunningListed' BY <1>11 DEF PublishSlot, RunningListed, OneRunner, Ran, Listed
  <2>8. WaitArmed' BY <1>11 DEF PublishSlot, WaitArmed, OneRunner, Ran
  <2>9. StoredHeld' BY <1>11 DEF PublishSlot, StoredHeld, OneRunner, Ran
  <2>10. PublishedHolds' BY <1>11 DEF PublishSlot, PublishedHolds, StoredHeld, DroppedStopped, Stopped
  <2>11. EndedTaken'
    <3> SUFFICES ASSUME NEW t \in Task, state'[t] \in Ended, completion'[t],
                        ~(upc' = "take" /\ stopping' = t)
                 PROVE  \E v \in Worker :
                          wpc'[v] \in {"publish", "discard"} /\ wtask'[v] = t
      BY DEF EndedTaken
    <3>1. state[t] \in Ended /\ completion[t]
      BY <1>11 DEF PublishSlot, Ended
    <3>2. PICK v \in Worker : wpc[v] \in {"publish", "discard"} /\ wtask[v] = t
      BY <1>11, <3>1 DEF PublishSlot, EndedTaken
    <3>3. wpc'[v] \in {"publish", "discard"} /\ wtask'[v] = t
      BY <1>11, <3>1, <3>2 DEF PublishSlot, Ended
    <3> QED BY <3>3
  <2>12. NoLostWake' BY <1>11 DEF PublishSlot, NoLostWake, Stopped
  <2> QED BY <2>1, <2>2, <2>3, <2>4, <2>5, <2>6, <2>7, <2>8, <2>9, <2>10, <2>11, <2>12
     DEF WorkerInv
<1>12. CASE CountCompleted(w)
  <2>1. HeldExists' BY <1>12 DEF CountCompleted, HeldExists
  <2>2. RanBegun' BY <1>12 DEF CountCompleted, RanBegun, Ran
  <2>3. OneRunner' BY <1>12 DEF CountCompleted, OneRunner, RanBegun, Ran
  <2>4. JobsExist' BY <1>12 DEF CountCompleted, JobsExist
  <2>5. BeforeUnpublished' BY <1>12 DEF CountCompleted, BeforeUnpublished, OneRunner, Ran, BeforePublish
  <2>6. DroppedStopped' BY <1>12 DEF CountCompleted, DroppedStopped, BeforeUnpublished, BeforePublish, Stopped
  <2>7. RunningListed' BY <1>12 DEF CountCompleted, RunningListed, OneRunner, Ran, Listed
  <2>8. WaitArmed' BY <1>12 DEF CountCompleted, WaitArmed, OneRunner, Ran
  <2>9. StoredHeld' BY <1>12 DEF CountCompleted, StoredHeld, OneRunner, Ran
  <2>10. PublishedHolds' BY <1>12 DEF CountCompleted, PublishedHolds, StoredHeld, DroppedStopped, Stopped
  <2>11. EndedTaken' BY <1>12 DEF CountCompleted, EndedTaken, Ended
  <2>12. NoLostWake' BY <1>12 DEF CountCompleted, NoLostWake, Stopped
  <2> QED BY <2>1, <2>2, <2>3, <2>4, <2>5, <2>6, <2>7, <2>8, <2>9, <2>10, <2>11, <2>12
     DEF WorkerInv
<1>13. CASE Discard(w)
  <2>1. HeldExists' BY <1>13 DEF Discard, HeldExists
  <2>2. RanBegun' BY <1>13 DEF Discard, RanBegun, Ran
  <2>3. OneRunner' BY <1>13 DEF Discard, OneRunner, RanBegun, Ran
  <2>4. JobsExist' BY <1>13 DEF Discard, JobsExist
  <2>5. BeforeUnpublished' BY <1>13 DEF Discard, BeforeUnpublished, OneRunner, Ran, BeforePublish
  <2>6. DroppedStopped' BY <1>13 DEF Discard, DroppedStopped, BeforeUnpublished, BeforePublish, Stopped
  <2>7. RunningListed' BY <1>13 DEF Discard, RunningListed, OneRunner, Ran, Listed
  <2>8. WaitArmed' BY <1>13 DEF Discard, WaitArmed, OneRunner, Ran
  <2>9. StoredHeld' BY <1>13 DEF Discard, StoredHeld, OneRunner, Ran
  <2>10. PublishedHolds' BY <1>13 DEF Discard, PublishedHolds, StoredHeld, DroppedStopped, Stopped
  <2>11. EndedTaken' BY <1>13 DEF Discard, EndedTaken, Ended
  <2>12. NoLostWake' BY <1>13 DEF Discard, NoLostWake, Stopped
  <2> QED BY <2>1, <2>2, <2>3, <2>4, <2>5, <2>6, <2>7, <2>8, <2>9, <2>10, <2>11, <2>12
     DEF WorkerInv
<1>14. CASE Unlist(w)
  <2>1. HeldExists' BY <1>14 DEF Unlist, HeldExists
  <2>2. RanBegun' BY <1>14 DEF Unlist, RanBegun, Ran
  <2>3. OneRunner' BY <1>14 DEF Unlist, OneRunner, RanBegun, Ran
  <2>4. JobsExist' BY <1>14 DEF Unlist, JobsExist
  <2>5. BeforeUnpublished' BY <1>14 DEF Unlist, BeforeUnpublished, OneRunner, Ran, BeforePublish
  <2>6. DroppedStopped' BY <1>14 DEF Unlist, DroppedStopped, BeforeUnpublished, BeforePublish, Stopped
  <2>7. RunningListed' BY <1>14 DEF Unlist, RunningListed, OneRunner, Ran, Listed
  <2>8. WaitArmed' BY <1>14 DEF Unlist, WaitArmed, OneRunner, Ran
  <2>9. StoredHeld' BY <1>14 DEF Unlist, StoredHeld, OneRunner, Ran
  <2>10. PublishedHolds' BY <1>14 DEF Unlist, PublishedHolds, StoredHeld, DroppedStopped, Stopped
  <2>11. EndedTaken' BY <1>14, EndedTakenFrame DEF Unlist
  <2>12. NoLostWake' BY <1>14 DEF Unlist, NoLostWake, Stopped
  <2> QED BY <2>1, <2>2, <2>3, <2>4, <2>5, <2>6, <2>7, <2>8, <2>9, <2>10, <2>11, <2>12
     DEF WorkerInv
<1>15. CASE EnterGate(w)
  <2>1. HeldExists' BY <1>15 DEF EnterGate, HeldExists
  <2>2. RanBegun' BY <1>15 DEF EnterGate, RanBegun, Ran
  <2>3. OneRunner' BY <1>15 DEF EnterGate, OneRunner, RanBegun, Ran
  <2>4. JobsExist' BY <1>15 DEF EnterGate, JobsExist
  <2>5. BeforeUnpublished' BY <1>15 DEF EnterGate, BeforeUnpublished, OneRunner, Ran, BeforePublish
  <2>6. DroppedStopped' BY <1>15 DEF EnterGate, DroppedStopped, BeforeUnpublished, BeforePublish, Stopped
  <2>7. RunningListed' BY <1>15 DEF EnterGate, RunningListed, OneRunner, Ran, Listed
  <2>8. WaitArmed' BY <1>15 DEF EnterGate, WaitArmed, OneRunner, Ran
  <2>9. StoredHeld' BY <1>15 DEF EnterGate, StoredHeld, OneRunner, Ran
  <2>10. PublishedHolds' BY <1>15 DEF EnterGate, PublishedHolds, StoredHeld, DroppedStopped, Stopped
  <2>11. EndedTaken' BY <1>15, EndedTakenFrame DEF EnterGate
  <2>12. NoLostWake' BY <1>15 DEF EnterGate, NoLostWake, Stopped
  <2> QED BY <2>1, <2>2, <2>3, <2>4, <2>5, <2>6, <2>7, <2>8, <2>9, <2>10, <2>11, <2>12
     DEF WorkerInv
<1>16. CASE Send(w)
  <2>1. HeldExists' BY <1>16 DEF Send, HeldExists
  <2>2. RanBegun' BY <1>16 DEF Send, RanBegun, Ran
  <2>3. OneRunner' BY <1>16 DEF Send, OneRunner, RanBegun, Ran
  <2>4. JobsExist' BY <1>16 DEF Send, JobsExist
  <2>5. BeforeUnpublished' BY <1>16 DEF Send, BeforeUnpublished, OneRunner, Ran, BeforePublish
  <2>6. DroppedStopped' BY <1>16 DEF Send, DroppedStopped, BeforeUnpublished, BeforePublish, Stopped
  <2>7. RunningListed' BY <1>16 DEF Send, RunningListed, OneRunner, Ran, Listed
  <2>8. WaitArmed' BY <1>16 DEF Send, WaitArmed, OneRunner, Ran
  <2>9. StoredHeld' BY <1>16 DEF Send, StoredHeld, OneRunner, Ran
  <2>10. PublishedHolds' BY <1>16 DEF Send, PublishedHolds, StoredHeld, DroppedStopped, Stopped
  <2>11. EndedTaken' BY <1>16 DEF Send, EndedTaken, Ended
  <2>12. NoLostWake' BY <1>16 DEF Send, NoLostWake, Stopped
  <2> QED BY <2>1, <2>2, <2>3, <2>4, <2>5, <2>6, <2>7, <2>8, <2>9, <2>10, <2>11, <2>12
     DEF WorkerInv
<1> QED
  BY <1>1, <1>2, <1>3, <1>4, <1>5, <1>6, <1>7, <1>8, <1>9, <1>10, <1>11, <1>12,
     <1>13, <1>14, <1>15, <1>16 DEF WorkerStep

\* A stop by the UI thread, between any two steps of a worker, keeps the
\* worker's part: `stop` and `finish` agree on who takes the completion.
LEMMA WorkerInvUi ==
    ASSUME TypeOK, UiInv, HeldExists, RanBegun, OneRunner, JobsExist, BeforeUnpublished, DroppedStopped,
           RunningListed, WaitArmed, StoredHeld, PublishedHolds, EndedTaken, NoLostWake,
           \/ UiStep \/ Dispatch \/ TakeCompletion \/ Reject \/ ClearEpoch
           \/ \E r \in Request : Issue(r)
    PROVE  WorkerInv'
<1> USE TaskAssumption
<1> USE DEF TypeOK, slotVars, registryVars, queueVars, workerVars, UGoto
<1>1. CASE TakeCompletion
  <2>0. Head(completions) \in Task
    BY <1>1 DEF TakeCompletion
  <2>1. HeldExists' BY <1>1, <2>0 DEF TakeCompletion, HeldExists
  <2>2. RanBegun' BY <1>1, <2>0 DEF TakeCompletion, RanBegun, Ran
  <2>3. OneRunner' BY <1>1, <2>0 DEF TakeCompletion, OneRunner
  <2>4. JobsExist' BY <1>1, <2>0 DEF TakeCompletion, JobsExist
  <2>5. BeforeUnpublished' BY <1>1, <2>0 DEF TakeCompletion, BeforeUnpublished, BeforePublish
  <2>6. DroppedStopped' BY <1>1, <2>0 DEF TakeCompletion, DroppedStopped, Stopped
  <2>7. RunningListed' BY <1>1, <2>0 DEF TakeCompletion, RunningListed
  <2>8. WaitArmed' BY <1>1, <2>0 DEF TakeCompletion, WaitArmed
  <2>9. StoredHeld' BY <1>1, <2>0 DEF TakeCompletion, StoredHeld, TypeOK
  <2>10. PublishedHolds' BY <1>1, <2>0 DEF TakeCompletion, PublishedHolds
  <2>11. EndedTaken' BY <1>1, <2>0 DEF TakeCompletion, EndedTaken, Ended
  <2>12. NoLostWake' BY <1>1, <2>0 DEF TakeCompletion, NoLostWake, Stopped
  <2> QED BY <2>1, <2>2, <2>3, <2>4, <2>5, <2>6, <2>7, <2>8, <2>9, <2>10, <2>11, <2>12
     DEF WorkerInv
<1>2. ASSUME NEW t \in Task, Enqueue(t) PROVE WorkerInv'
  <2>0. \A i \in 1..Len(jobs') : jobs'[i] = t \/ (i \in 1..Len(jobs) /\ jobs'[i] = jobs[i])
    BY <1>2 DEF Enqueue
  <2>1. HeldExists' BY <1>2, <2>0 DEF Enqueue, HeldExists
  <2>2. RanBegun' BY <1>2, <2>0 DEF Enqueue, RanBegun, Ran, HeldExists
  <2>3. OneRunner' BY <1>2, <2>0 DEF Enqueue, OneRunner
  <2>4. JobsExist' BY <1>2, <2>0 DEF Enqueue, JobsExist
  <2>5. BeforeUnpublished' BY <1>2, <2>0 DEF Enqueue, BeforeUnpublished, BeforePublish, HeldExists
  <2>6. DroppedStopped' BY <1>2, <2>0 DEF Enqueue, DroppedStopped, Stopped, HeldExists
  <2>7. RunningListed' BY <1>2, <2>0 DEF Enqueue, RunningListed
  <2>8. WaitArmed' BY <1>2, <2>0 DEF Enqueue, WaitArmed
  <2>9. StoredHeld' BY <1>2, <2>0 DEF Enqueue, StoredHeld, HeldExists
  <2>10. PublishedHolds' BY <1>2, <2>0 DEF Enqueue, PublishedHolds
  <2>11. EndedTaken' BY <1>2, <2>0 DEF Enqueue, EndedTaken, Ended
  <2>12. NoLostWake' BY <1>2, <2>0 DEF Enqueue, NoLostWake, Stopped, HeldExists
  <2> QED BY <2>1, <2>2, <2>3, <2>4, <2>5, <2>6, <2>7, <2>8, <2>9, <2>10, <2>11, <2>12
     DEF WorkerInv
<1>3. ASSUME NEW t \in Task, StopSlot(t) PROVE WorkerInv'
  <2>1. HeldExists' BY <1>3 DEF StopSlot, StopLoop, AlreadyEnded, Why, Ended, HeldExists
  <2>2. RanBegun' BY <1>3 DEF StopSlot, StopLoop, AlreadyEnded, Why, Ended, RanBegun, Ran
  <2>3. OneRunner' BY <1>3 DEF StopSlot, StopLoop, AlreadyEnded, Why, Ended, OneRunner
  <2>4. JobsExist' BY <1>3 DEF StopSlot, StopLoop, AlreadyEnded, Why, Ended, JobsExist
  <2>5. BeforeUnpublished' BY <1>3 DEF StopSlot, StopLoop, AlreadyEnded, Why, Ended, BeforeUnpublished, BeforePublish
  <2>6. DroppedStopped' BY <1>3 DEF StopSlot, StopLoop, AlreadyEnded, Why, Ended, DroppedStopped, Stopped
  <2>7. RunningListed' BY <1>3 DEF StopSlot, StopLoop, AlreadyEnded, Why, Ended, RunningListed
  <2>8. WaitArmed' BY <1>3 DEF StopSlot, StopLoop, AlreadyEnded, Why, Ended, WaitArmed
  <2>9. StoredHeld' BY <1>3 DEF StopSlot, StopLoop, AlreadyEnded, Why, Ended, StoredHeld
  <2>10. PublishedHolds' BY <1>3 DEF StopSlot, StopLoop, AlreadyEnded, Why, Ended, PublishedHolds
  <2>11. EndedTaken' BY <1>3 DEF StopSlot, StopLoop, AlreadyEnded, Why, Ended, EndedTaken, Ended
  <2>12. NoLostWake' BY <1>3 DEF StopSlot, StopLoop, AlreadyEnded, Why, Ended, NoLostWake, Stopped
  <2> QED BY <2>1, <2>2, <2>3, <2>4, <2>5, <2>6, <2>7, <2>8, <2>9, <2>10, <2>11, <2>12
     DEF WorkerInv
<1>4. CASE StopTake
  <2>1. HeldExists' BY <1>4 DEF StopTake, UiInv, Stopped, HeldExists
  <2>2. RanBegun' BY <1>4 DEF StopTake, UiInv, Stopped, RanBegun, Ran
  <2>3. OneRunner' BY <1>4 DEF StopTake, UiInv, Stopped, OneRunner
  <2>4. JobsExist' BY <1>4 DEF StopTake, UiInv, Stopped, JobsExist
  <2>5. BeforeUnpublished' BY <1>4 DEF StopTake, UiInv, Stopped, BeforeUnpublished, BeforePublish
  <2>6. DroppedStopped' BY <1>4 DEF StopTake, UiInv, Stopped, DroppedStopped, Stopped
  <2>7. RunningListed' BY <1>4 DEF StopTake, UiInv, Stopped, RunningListed
  <2>8. WaitArmed' BY <1>4 DEF StopTake, UiInv, Stopped, WaitArmed
  <2>9. StoredHeld' BY <1>4 DEF StopTake, UiInv, Stopped, StoredHeld
  <2>10. PublishedHolds' BY <1>4 DEF StopTake, UiInv, Stopped, PublishedHolds
  <2>11. EndedTaken' BY <1>4 DEF StopTake, UiInv, Stopped, EndedTaken, Ended
  <2>12. NoLostWake' BY <1>4 DEF StopTake, UiInv, Stopped, NoLostWake, Stopped
  <2> QED BY <2>1, <2>2, <2>3, <2>4, <2>5, <2>6, <2>7, <2>8, <2>9, <2>10, <2>11, <2>12
     DEF WorkerInv
<1>5. CASE StopWake
  <2>0. \A w \in Worker : wpc'[w] = wpc[w] \/ (wpc[w] = "blocked" /\ wpc'[w] = "check")
    BY <1>5 DEF StopWake
  <2>1. HeldExists' BY <1>5, <2>0 DEF StopWake, StopLoop, HeldExists
  <2>2. RanBegun' BY <1>5, <2>0 DEF StopWake, StopLoop, RanBegun, Ran
  <2>3. OneRunner' BY <1>5, <2>0 DEF StopWake, StopLoop, OneRunner, Ran
  <2>4. JobsExist' BY <1>5, <2>0 DEF StopWake, StopLoop, JobsExist
  <2>5. BeforeUnpublished' BY <1>5, <2>0 DEF StopWake, StopLoop, BeforeUnpublished, BeforePublish
  <2>6. DroppedStopped' BY <1>5, <2>0 DEF StopWake, StopLoop, DroppedStopped, Stopped
  <2>7. RunningListed' BY <1>5, <2>0 DEF StopWake, StopLoop, RunningListed, Listed
  <2>8. WaitArmed' BY <1>5, <2>0 DEF StopWake, StopLoop, WaitArmed
  <2>9. StoredHeld' BY <1>5, <2>0 DEF StopWake, StopLoop, StoredHeld
  <2>10. PublishedHolds' BY <1>5, <2>0 DEF StopWake, StopLoop, PublishedHolds
  <2>11. EndedTaken' BY <1>5, <2>0 DEF StopWake, StopLoop, EndedTaken, Ended
  <2>12. NoLostWake' BY <1>5, <2>0 DEF StopWake, StopLoop, NoLostWake, Stopped, WaitArmed
  <2> QED BY <2>1, <2>2, <2>3, <2>4, <2>5, <2>6, <2>7, <2>8, <2>9, <2>10, <2>11, <2>12
     DEF WorkerInv
<1>6. CASE /\ UNCHANGED <<state, completion, armed, wpc, wtask, runningNow, stopping>>
           /\ jobs' \in {jobs, <<>>}
           /\ upc \notin {"take", "wake"}
  <2>1. JobsExist' BY <1>6 DEF JobsExist
  <2> QED
    BY <1>6, <2>1 DEF WorkerInv, HeldExists, RanBegun, OneRunner, BeforeUnpublished,
       DroppedStopped, RunningListed, WaitArmed, StoredHeld, PublishedHolds,
       EndedTaken, NoLostWake, Stopped
<1>7. CASE \/ Dispatch \/ Reject \/ ClearEpoch \/ EndTurn \/ ClearDrain \/ ClearReset
           \/ \E r \in Request : Issue(r)
           \/ \E removed, added \in SUBSET Owner : Accept(removed, added)
           \/ \E pairs \in SUBSET (Owner \X Key) : Cancel(pairs)
  BY <1>6, <1>7 DEF Dispatch, Reject, ClearEpoch, EndTurn, ClearDrain, ClearReset,
     Issue, Accept, Cancel, StopWhere
<1> QED BY <1>1, <1>2, <1>3, <1>4, <1>5, <1>7 DEF UiStep

\* A worker sends a completion only inside the publication gate and under the
\* epoch it read there.
LEMMA GateInvWorker ==
    ASSUME TypeOK, WorkerInv, GateInv, NEW w \in Worker,
           WorkerStep(w) \/ Arm(w) \/ Answer(w) \/ Return(w)
    PROVE  GateInv'
<1> USE TaskAssumption
<1> USE DEF TypeOK, slotVars, registryVars, queueVars, uiVars, WGoto, WNext
<1>1. CASE EnterGate(w) BY <1>1 DEF EnterGate, GateInv
<1>2. CASE Send(w)
  <2>1. \A i \in 1..Len(completions') :
          completions'[i] = wtask[w] \/ (i \in 1..Len(completions)
                                         /\ completions'[i] = completions[i])
    BY <1>2 DEF Send
  <2>2. state[wtask[w]] # "none"
    BY <1>2 DEF Send, WorkerInv, HeldExists
  <2> QED BY <1>2, <2>1, <2>2 DEF Send, GateInv
<1>3. CASE /\ UNCHANGED <<slot, completions, epoch, gate, upc>>
           /\ \A t \in Task : state'[t] = "none" => state[t] = "none"
           /\ \A v \in Worker : wpc'[v] = "send" =>
                wpc[v] = "send" /\ wtask'[v] = wtask[v]
  BY <1>3 DEF GateInv
<1>4. CASE \/ Recv(w) \/ CheckEpoch(w) \/ ListRunning(w) \/ CheckRequested(w)
           \/ Disarm(w) \/ Store(w) \/ CountCompleted(w) \/ Discard(w)
           \/ Arm(w) \/ Answer(w) \/ Return(w)
  BY <1>3, <1>4 DEF Recv, CheckEpoch, ListRunning, CheckRequested, Disarm, Store,
     CountCompleted, Discard, Arm, Answer, Return
<1>5. CASE Begin(w) BY <1>3, <1>5 DEF Begin
<1>6. CASE PublishSlot(w) BY <1>3, <1>6 DEF PublishSlot
<1>7. CASE Unlist(w) BY <1>3, <1>7 DEF Unlist
<1> QED BY <1>1, <1>2, <1>4, <1>5, <1>6, <1>7 DEF WorkerStep

\* clear_bridge moves the epoch before it drains, and the drain leaves nothing
\* of an earlier session in the channel.
LEMMA GateInvUi ==
    ASSUME TypeOK, UiInv, WorkerInv, GateInv,
           \/ UiStep \/ Dispatch \/ TakeCompletion \/ Reject \/ ClearEpoch
           \/ \E r \in Request : Issue(r)
    PROVE  GateInv'
<1> USE TaskAssumption
<1> USE DEF TypeOK, GateInv, slotVars, registryVars, queueVars, workerVars, UGoto
<1>1. CASE Dispatch BY <1>1 DEF Dispatch
<1>2. CASE TakeCompletion
  <2>1. \A i \in 1..Len(Tail(completions)) :
          i + 1 \in 1..Len(completions) /\ Tail(completions)[i] = completions[i + 1]
    BY <1>2 DEF TakeCompletion
  <2> QED BY <1>2, <2>1 DEF TakeCompletion
<1>3. CASE Reject BY <1>3 DEF Reject
<1>4. CASE ClearEpoch BY <1>4 DEF ClearEpoch
<1>5. ASSUME NEW r \in Request, Issue(r) PROVE GateInv'
  BY <1>5 DEF Issue, StopWhere
<1>6. ASSUME NEW removed \in SUBSET Owner, NEW added \in SUBSET Owner,
             Accept(removed, added)
      PROVE  GateInv'
  BY <1>6 DEF Accept, StopWhere
<1>7. ASSUME NEW pairs \in SUBSET (Owner \X Key), Cancel(pairs)
      PROVE  GateInv'
  BY <1>7 DEF Cancel, StopWhere
<1>8. ASSUME NEW t \in Task, Enqueue(t) PROVE GateInv'
  BY <1>8 DEF Enqueue, WorkerInv, HeldExists
<1>9. CASE EndTurn BY <1>9 DEF EndTurn
<1>10. ASSUME NEW t \in Task, StopSlot(t) PROVE GateInv'
  BY <1>10 DEF StopSlot, StopLoop, Why
<1>11. CASE StopTake BY <1>11 DEF StopTake
<1>12. CASE StopWake
  <2>1. \A w \in Worker : wpc'[w] = "send" <=> wpc[w] = "send"
    BY <1>12 DEF StopWake
  <2>2. upc # "drain" /\ upc' # "drain"
    BY <1>12 DEF StopWake, StopLoop
  <2> QED BY <1>12, <2>1, <2>2 DEF StopWake
<1>13. CASE ClearDrain BY <1>13 DEF ClearDrain, StopWhere
<1>14. CASE ClearReset BY <1>14 DEF ClearReset
<1> QED
  BY <1>1, <1>2, <1>3, <1>4, <1>5, <1>6, <1>7, <1>8, <1>9, <1>10, <1>11, <1>12,
     <1>13, <1>14 DEF UiStep

\* The three parts together are an invariant of the runtime.
THEOREM Inductive == Spec => []Inv
<1>1. Init => Inv
  <2> SUFFICES ASSUME Init PROVE Inv
    OBVIOUS
  <2>1. TypeOK BY TypeOKInit
  <2>2. UiInv
    BY DEF Init, UiInv, OnePerKey, Stopping, Issuing, Resetting, Unended
  <2>3. WorkerInv
    BY DEF Init, WorkerInv, HeldExists, RanBegun, OneRunner, JobsExist, BeforeUnpublished, DroppedStopped,
       RunningListed, WaitArmed, StoredHeld, PublishedHolds, EndedTaken, NoLostWake, Ran, Listed, BeforePublish
  <2>4. GateInv BY DEF Init, GateInv
  <2> QED BY <2>1, <2>2, <2>3, <2>4 DEF Inv
<1>2. Inv /\ [Next]_vars => Inv'
  <2> SUFFICES ASSUME Inv, [Next]_vars PROVE Inv'
    OBVIOUS
  <2>1. CASE Next
    BY <2>1, TypeOKWorker, TypeOKUi, UiInvWorker, UiInvUi, WorkerInvWorker,
       WorkerInvUi, GateInvWorker, GateInvUi DEF Next, Inv, WorkerInv
  <2>2. CASE UNCHANGED vars
    BY <2>2 DEF Inv, TypeOK, UiInv, WorkerInv, GateInv, OnePerKey,
       HeldExists, RanBegun, OneRunner, JobsExist, BeforeUnpublished, DroppedStopped,
       RunningListed, WaitArmed, StoredHeld, PublishedHolds, EndedTaken, NoLostWake,
       Stopping, Issuing, Resetting, Stopped, vars, slotVars,
       registryVars, queueVars, workerVars, uiVars
  <2> QED BY <2>1, <2>2
<1> QED BY <1>1, <1>2, PTL DEF Spec

\* Supersession, for any number of tasks, workers, components and keys: at no
\* instant do two tasks of one component and one key outstand together.
THEOREM OnePerKeyHolds == Spec => []OnePerKey
<1>1. Inv => OnePerKey BY DEF Inv, UiInv
<1> QED BY <1>1, Inductive, PTL

\* A removed component's tasks have ended with it once the turn is over, and a
\* retired session leaves none to the next.
THEOREM NoOrphanHolds == Spec => []NoOrphan
<1>1. Inv => NoOrphan BY DEF Inv, UiInv, NoOrphan, Stopping
<1> QED BY <1>1, Inductive, PTL

\* `deliver` always finds the completion it counts.
THEOREM PublishedHoldsHolds == Spec => []PublishedHolds
<1>1. Inv => PublishedHolds BY DEF Inv, WorkerInv
<1> QED BY <1>1, Inductive, PTL

\* Of `stop` and `finish`, whichever comes second finds nothing left to release,
\* and the worker leaves RUNNING_NOW only after the release.
THEOREM EndedHoldsNothingHolds == Spec => []EndedHoldsNothing
<1>1. Inv => EndedHoldsNothing
  BY DEF Inv, WorkerInv, EndedTaken, RunningListed, Listed, EndedHoldsNothing
<1> QED BY <1>1, Inductive, PTL

\* The interrupt protocol loses no wake.
THEOREM NoLostWakeHolds == Spec => []NoLostWake
<1>1. Inv => NoLostWake BY DEF Inv, WorkerInv
<1> QED BY <1>1, Inductive, PTL

\* The publication gate keeps completions of a retired session from the next.
THEOREM NoStaleCompletionHolds == Spec => []NoStaleCompletion
<1>1. Inv => NoStaleCompletion
  BY DEF Inv, GateInv, NoStaleCompletion, TypeOK
<1> QED BY <1>1, Inductive, PTL

-----------------------------------------------------------------------------
(* Refinement.                                                             *)

absPhase == [t \in Task |-> Phase(state[t])]
absWho == [t \in Task |-> <<slot[t].owner, slot[t].key>>]

\* A step that moves no slot is invisible to the application.
LEMMA LifecycleStutter ==
    ASSUME UNCHANGED <<state, slot>>
    PROVE  UNCHANGED Lifecycle!vars
BY DEF Lifecycle!vars

\* A step that moves one slot's state moves that task's phase.
LEMMA LifecycleMove ==
    ASSUME TypeOK, NEW t \in Task, NEW s,
           state' = [state EXCEPT ![t] = s], UNCHANGED slot
    PROVE  /\ absPhase' = [absPhase EXCEPT ![t] = Phase(s)]
           /\ absWho' = absWho
BY DEF TypeOK, absPhase, absWho

\* The runtime implements the abstract lifecycle: what the threads, the queues,
\* the gate and the locks do together is one of its steps, or invisible.
THEOREM Refinement == Spec => ImplementsLifecycle
<1>1. Init => Lifecycle!Init
  <2> SUFFICES ASSUME Init PROVE Lifecycle!Init
    OBVIOUS
  <2>1. absPhase = [t \in Task |-> "fresh"]
    BY DEF Init, absPhase, Phase
  <2>2. absWho \in [Task -> Owner \X (Key \union {NoKey})]
    BY OwnerAssumption DEF Init, absWho
  <2> QED BY <2>1, <2>2 DEF Lifecycle!Init, absPhase, absWho
<1>2. Inv /\ [Next]_vars => [Lifecycle!Next]_Lifecycle!vars
  <2> SUFFICES ASSUME Inv, [Next]_vars
               PROVE  Lifecycle!Next \/ UNCHANGED Lifecycle!vars
    OBVIOUS
  <2> USE DEF Inv
  <2>1. ASSUME NEW w \in Worker, Begin(w)
        PROVE  UNCHANGED Lifecycle!vars
    <3>1. CASE UNCHANGED state
      BY <2>1, <3>1, LifecycleStutter DEF Begin
    <3>2. CASE state[wtask[w]] = "queued"
      <4> DEFINE t == wtask[w]
      <4>1. t \in Task BY <2>1 DEF Begin, TypeOK
      <4>2. absPhase' = [absPhase EXCEPT ![t] = Phase("running")] /\ absWho' = absWho
        BY <2>1, <3>2, <4>1, LifecycleMove DEF Begin
      <4>3. absPhase[t] = Phase("running")
        BY <3>2, <4>1 DEF absPhase, Phase
      <4>4. absPhase' = absPhase BY <4>1, <4>2, <4>3 DEF absPhase
      <4> QED BY <4>2, <4>4 DEF Lifecycle!vars, absPhase, absWho
    <3> QED BY <2>1, <3>1, <3>2 DEF Begin
  <2>2. ASSUME NEW w \in Worker, PublishSlot(w)
        PROVE  Lifecycle!Next \/ UNCHANGED Lifecycle!vars
    <3>1. CASE UNCHANGED state
      BY <2>2, <3>1, LifecycleStutter DEF PublishSlot
    <3>2. CASE state[wtask[w]] = "running"
      <4> DEFINE t == wtask[w]
      <4>1. t \in Task BY <2>2 DEF PublishSlot, TypeOK
      <4>2. absPhase' = [absPhase EXCEPT ![t] = Phase("published")] /\ absWho' = absWho
        BY <2>2, <3>2, <4>1, LifecycleMove DEF PublishSlot
      <4>3. absPhase[t] = "pending" /\ Phase("published") = "ready"
        BY <3>2, <4>1 DEF absPhase, Phase
      <4>4. Lifecycle!Produce(t)
        BY <4>2, <4>3 DEF Lifecycle!Produce, absPhase, absWho
      <4> QED BY <4>1, <4>4 DEF Lifecycle!Next
    <3> QED BY <2>2, <3>1, <3>2 DEF PublishSlot
  <2>3. CASE TakeCompletion
    <3>1. CASE UNCHANGED state
      BY <2>3, <3>1, LifecycleStutter DEF TakeCompletion
    <3>2. CASE state[Head(completions)] = "published" /\ ~UNCHANGED state
      <4> DEFINE t == Head(completions)
      <4>1. t \in Task BY <2>3 DEF TakeCompletion, TypeOK
      <4>2. absPhase' = [absPhase EXCEPT ![t] = Phase("delivered")] /\ absWho' = absWho
        BY <2>3, <3>2, <4>1, LifecycleMove DEF TakeCompletion
      <4>3. absPhase[t] = "ready" /\ Phase("delivered") = "delivered"
        BY <3>2, <4>1 DEF absPhase, Phase
      <4>4. Lifecycle!Deliver(t)
        BY <4>2, <4>3 DEF Lifecycle!Deliver, absPhase, absWho
      <4> QED BY <4>1, <4>4 DEF Lifecycle!Next
    <3> QED BY <2>3, <3>1, <3>2 DEF TakeCompletion
  <2>4. ASSUME NEW t \in Task, StopSlot(t)
        PROVE  Lifecycle!Next \/ UNCHANGED Lifecycle!vars
    <3>1. CASE UNCHANGED state
      BY <2>4, <3>1, LifecycleStutter DEF StopSlot
    <3>2. CASE state[t] \notin Ended /\ ~UNCHANGED state
      <4>1. absPhase' = [absPhase EXCEPT ![t] = Phase(Why)] /\ absWho' = absWho
        BY <2>4, <3>2, LifecycleMove DEF StopSlot, AlreadyEnded
      <4>2. state[t] # "none"
        BY <2>4 DEF StopSlot, UiInv
      <4>3. absPhase[t] \in {"pending", "ready"}
        BY <3>2, <4>2 DEF absPhase, Phase, TypeOK, Unended, Ended
      <4>4. CASE after = "issue"
        <5>1. Phase(Why) = "superseded" BY <4>4 DEF Why, Phase
        <5>2. slot[t].key # NoKey BY <2>4, <4>4 DEF StopSlot, UiInv, Stopping
        <5>3. Lifecycle!Supersede(t)
          BY <4>1, <4>3, <5>1, <5>2
          DEF Lifecycle!Supersede, Lifecycle!Outstanding, absPhase, absWho
        <5> QED BY <5>3 DEF Lifecycle!Next
      <4>5. CASE after # "issue"
        <5>1. Phase(Why) = "cancelled" BY <4>5 DEF Why, Phase
        <5>2. Lifecycle!Cancel(t)
          BY <4>1, <4>3, <5>1
          DEF Lifecycle!Cancel, Lifecycle!Outstanding, absPhase, absWho
        <5> QED BY <5>2 DEF Lifecycle!Next
      <4> QED BY <4>4, <4>5
    <3> QED BY <2>4, <3>1, <3>2 DEF StopSlot, AlreadyEnded
  <2>5. ASSUME NEW t \in Task, Enqueue(t)
        PROVE  Lifecycle!Next
    <3>1. /\ absPhase' = [absPhase EXCEPT ![t] = "pending"]
          /\ absPhase[t] = "fresh"
      BY <2>5 DEF Enqueue, absPhase, Phase, TypeOK
    <3>2. absWho' = [absWho EXCEPT ![t] = <<request.owner, request.key>>]
      BY <2>5 DEF Enqueue, absWho, TypeOK
    <3>3. request.key # NoKey =>
            \A u \in Task : absPhase[u] \in {"pending", "ready"} =>
                             absWho[u] # <<request.owner, request.key>>
      <4> SUFFICES ASSUME request.key # NoKey, NEW u \in Task,
                          absPhase[u] \in {"pending", "ready"}
                   PROVE  absWho[u] # <<request.owner, request.key>>
        OBVIOUS
      <4>1. state[u] \in Unended
        BY DEF absPhase, Phase, TypeOK, Unended, Ended
      <4>2. u \in live
        BY <2>5, <4>1 DEF Enqueue, UiInv, Stopping
      <4>3. slot[u].owner # request.owner \/ slot[u].key # request.key
        BY <2>5, <4>2 DEF Enqueue, UiInv, Issuing
      <4> QED BY <4>3 DEF absWho
    <3>4. request.owner \in Owner /\ request.key \in Key \union {NoKey}
      BY DEF TypeOK, Request
    <3>5. PICK o \in Owner, k \in Key \union {NoKey} :
            o = request.owner /\ k = request.key
      BY <3>4
    <3>6. Lifecycle!Issue(t, o, k)
      BY <3>1, <3>2, <3>3, <3>5
      DEF Lifecycle!Issue, Lifecycle!Outstanding, absPhase, absWho
    <3> QED BY <3>6 DEF Lifecycle!Next
  <2>6. ASSUME NEW w \in Worker,
               \/ Recv(w) \/ CheckEpoch(w) \/ ListRunning(w) \/ CheckRequested(w)
               \/ Disarm(w) \/ Store(w) \/ CountCompleted(w) \/ Discard(w)
               \/ Unlist(w) \/ EnterGate(w) \/ Send(w) \/ Arm(w) \/ Answer(w)
               \/ Return(w)
        PROVE  UNCHANGED Lifecycle!vars
    <3>1. UNCHANGED <<state, slot>>
      BY <2>6 DEF Recv, CheckEpoch, ListRunning, CheckRequested, Disarm, Store,
         CountCompleted, Discard, Unlist, EnterGate, Send, Arm, Answer, Return,
         slotVars
    <3> QED BY <3>1, LifecycleStutter
  <2>7. ASSUME \/ Dispatch \/ Reject \/ ClearEpoch \/ EndTurn \/ StopTake
               \/ StopWake \/ ClearDrain \/ ClearReset \/ UNCHANGED vars
               \/ \E r \in Request : Issue(r)
               \/ \E removed, added \in SUBSET Owner : Accept(removed, added)
               \/ \E pairs \in SUBSET (Owner \X Key) : Cancel(pairs)
        PROVE  UNCHANGED Lifecycle!vars
    <3>1. UNCHANGED <<state, slot>>
      BY <2>7 DEF Dispatch, Reject, ClearEpoch, EndTurn, StopTake, StopWake,
         ClearDrain, ClearReset, Issue, Accept, Cancel, slotVars, vars
    <3> QED BY <3>1, LifecycleStutter
  <2> QED
    BY <2>1, <2>2, <2>3, <2>4, <2>5, <2>6, <2>7 DEF Next, WorkerStep, UiStep
<1> QED BY <1>1, <1>2, Inductive, PTL DEF Spec, ImplementsLifecycle, Lifecycle!Spec

-----------------------------------------------------------------------------
(* The counters: what was issued less what was settled is the number of    *)
(* tasks that have not ended, and no completion is delivered before it was *)
(* counted as completed.  They rest on the invariant above.                *)

Created == {t \in Task : state[t] # "none"}
Outstanding == {t \in Task : state[t] \in Unended}

\* The completions of this session that wait to be delivered and have been
\* counted as completed: the worker that published them is past the count.
Counted == {t \in Task : /\ state[t] = "published" /\ slot[t].epoch = epoch
                         /\ \A w \in Worker : wpc[w] = "count" => wtask[w] # t}

\* A task in the completion channel has no worker any more.
SentLeft ==
    \A i \in 1..Len(completions) :
        /\ state[completions[i]] # "queued"
        /\ \A w \in Worker : wpc[w] \in Ran => wtask[w] # completions[i]

CompletedFirst ==
    counters["delivered"] + Cardinality(Counted) <= counters["completed"]

CountInv == IsFiniteSet(Created) /\ SentLeft /\ OutstandingExact /\ CompletedFirst

-----------------------------------------------------------------------------

\* The tasks counted by the invariant are among the finitely many created.
LEMMA CountedFinite ==
    ASSUME TypeOK, IsFiniteSet(Created)
    PROVE  /\ IsFiniteSet(Outstanding) /\ Cardinality(Outstanding) \in Nat
           /\ IsFiniteSet(Counted) /\ Cardinality(Counted) \in Nat
<1>1. Outstanding \subseteq Created /\ Counted \subseteq Created
  BY DEF Outstanding, Counted, Created, Unended
<1> QED
  BY <1>1, FS_Subset, FS_CardinalityType

\* A step that moves neither a slot nor a count nor the session keeps the counts,
\* provided no worker comes to the count it was not at.
LEMMA CountFrame ==
    ASSUME TypeOK, CountInv, UNCHANGED <<state, slot, epoch>>,
           \A c \in Counter \ {"interrupted", "completed"} : counters'[c] = counters[c],
           counters'["completed"] = counters["completed"],
           \A w \in Worker : wpc[w] = "count" => wpc'[w] = "count" /\ wtask'[w] = wtask[w]
    PROVE  IsFiniteSet(Created)' /\ OutstandingExact' /\ CompletedFirst'
<1>1. Created' = Created /\ Outstanding' = Outstanding /\ Settled' = Settled
      /\ counters'["issued"] = counters["issued"]
      /\ counters'["delivered"] = counters["delivered"]
  BY DEF Created, Outstanding, Settled, Counter
<1>2. Counted' \subseteq Counted
  BY DEF Counted
<1>3. Cardinality(Counted') <= Cardinality(Counted) /\ Cardinality(Counted') \in Nat
  BY <1>2, CountedFinite, FS_Subset, FS_CardinalityType DEF CountInv
<1>4. OutstandingExact'
  BY <1>1 DEF CountInv, OutstandingExact, Outstanding
<1>5. CompletedFirst'
  <2>1. counters["delivered"] \in Nat /\ counters["completed"] \in Nat
    BY DEF TypeOK, Counter
  <2> QED
    BY <1>1, <1>3, <2>1, CountedFinite DEF CountInv, CompletedFirst
<1> QED
  BY <1>1, <1>4, <1>5 DEF CountInv

\* A worker sends what it published and leaves it; others run tasks of their own.
LEMMA SentLeftWorker ==
    ASSUME TypeOK, WorkerInv, GateInv, SentLeft, NEW w \in Worker,
           WorkerStep(w) \/ Arm(w) \/ Answer(w) \/ Return(w)
    PROVE  SentLeft'
<1> USE TaskAssumption
<1> USE DEF TypeOK, SentLeft, slotVars, registryVars, queueVars, uiVars, WGoto, WNext
<1>1. CASE Recv(w) BY <1>1 DEF Recv, Ran
<1>2. CASE CheckEpoch(w) BY <1>2 DEF CheckEpoch, Ran
<1>3. CASE Begin(w)
  <2>1. \A i \in 1..Len(completions) : completions[i] \in Task
    OBVIOUS
  <2> QED BY <1>3, <2>1 DEF Begin, Ran
<1>4. CASE PublishSlot(w)
  <2>1. \A i \in 1..Len(completions) : completions[i] \in Task
    OBVIOUS
  <2>2. \A t \in Task : state'[t] = "queued" => state[t] = "queued"
    BY <1>4 DEF PublishSlot
  <2>3. \A v \in Worker : wpc'[v] \in Ran => wpc[v] \in Ran
    BY <1>4 DEF PublishSlot, Ran
  <2> QED BY <1>4, <2>1, <2>2, <2>3 DEF PublishSlot
<1>5. CASE Send(w)
  <2>1. \A i \in 1..Len(completions') :
          completions'[i] = wtask[w] \/ (i \in 1..Len(completions)
                                         /\ completions'[i] = completions[i])
    BY <1>5 DEF Send
  <2>2. /\ state[wtask[w]] # "queued"
        /\ \A v \in Worker \ {w} : wpc[v] \in Ran => wtask[v] # wtask[w]
    BY <1>5 DEF Send, WorkerInv, RanBegun, OneRunner, Ran
  <2> QED BY <1>5, <2>1, <2>2 DEF Send, Ran
<1>6. CASE /\ UNCHANGED <<state, completions>>
           /\ \A v \in Worker : wpc'[v] \in Ran => wpc[v] \in Ran /\ wtask'[v] = wtask[v]
  BY <1>6
<1>7. CASE \/ ListRunning(w) \/ CheckRequested(w) \/ Disarm(w) \/ Store(w)
           \/ CountCompleted(w) \/ Discard(w) \/ Unlist(w) \/ EnterGate(w)
           \/ Arm(w) \/ Answer(w) \/ Return(w)
  BY <1>6, <1>7 DEF ListRunning, CheckRequested, Disarm, Store, CountCompleted,
     Discard, Unlist, EnterGate, Arm, Answer, Return, Ran
<1> QED BY <1>1, <1>2, <1>3, <1>4, <1>5, <1>7 DEF WorkerStep

\* The UI thread queues only new slots, and only takes from the channel.
LEMMA SentLeftUi ==
    ASSUME TypeOK, GateInv, SentLeft,
           \/ UiStep \/ Dispatch \/ TakeCompletion \/ Reject \/ ClearEpoch
           \/ \E r \in Request : Issue(r)
    PROVE  SentLeft'
<1> USE DEF TypeOK, SentLeft, slotVars, registryVars, queueVars, workerVars, UGoto
<1>1. CASE TakeCompletion
  <2>1. \A i \in 1..Len(Tail(completions)) :
          i + 1 \in 1..Len(completions) /\ Tail(completions)[i] = completions[i + 1]
    BY <1>1 DEF TakeCompletion
  <2>2. Head(completions) \in Task /\ Head(completions) = completions[1]
        /\ \A i \in 1..Len(completions) : completions[i] \in Task
    BY <1>1 DEF TakeCompletion
  <2>3. \A i \in 1..Len(completions) : state'[completions[i]] # "queued"
    BY <1>1, <2>2 DEF TakeCompletion
  <2> QED BY <1>1, <2>1, <2>3 DEF TakeCompletion
<1>2. ASSUME NEW t \in Task, Enqueue(t) PROVE SentLeft'
  BY <1>2 DEF Enqueue, GateInv
<1>3. ASSUME NEW t \in Task, StopSlot(t) PROVE SentLeft'
  <2>1. \A i \in 1..Len(completions) : state'[completions[i]] # "queued"
    BY <1>3 DEF StopSlot, Why
  <2> QED BY <1>3, <2>1 DEF StopSlot
<1>4. CASE StopWake BY <1>4 DEF StopWake, Ran
<1>5. CASE ClearDrain BY <1>5 DEF ClearDrain
<1>6. CASE UNCHANGED <<state, completions, wpc, wtask>>
  BY <1>6
<1>7. CASE \/ Dispatch \/ Reject \/ ClearEpoch \/ EndTurn \/ StopTake \/ ClearReset
           \/ \E r \in Request : Issue(r)
           \/ \E removed, added \in SUBSET Owner : Accept(removed, added)
           \/ \E pairs \in SUBSET (Owner \X Key) : Cancel(pairs)
  BY <1>6, <1>7 DEF Dispatch, Reject, ClearEpoch, EndTurn, StopTake, ClearReset,
     Issue, Accept, Cancel
<1> QED BY <1>1, <1>2, <1>3, <1>4, <1>5, <1>7 DEF UiStep

-----------------------------------------------------------------------------
(* The counts.                                                             *)

\* A worker publishes, then counts; the slot counts as outstanding all along.
LEMMA CountWorker ==
    ASSUME TypeOK, WorkerInv, CountInv, NEW w \in Worker,
           WorkerStep(w) \/ Arm(w) \/ Answer(w) \/ Return(w)
    PROVE  IsFiniteSet(Created)' /\ OutstandingExact' /\ CompletedFirst'
<1> USE TaskAssumption
<1> USE DEF slotVars, registryVars, queueVars, uiVars, WGoto, WNext
<1>1. UNCHANGED <<slot, epoch>> /\ Created' = Created /\ Outstanding' = Outstanding
  BY WorkerFrame DEF Created, Outstanding
<1>2. IsFiniteSet(Created)'
  BY <1>1 DEF CountInv
<1>3. CASE CountCompleted(w)
  <2>1. /\ UNCHANGED <<state, slot, epoch, wtask>> /\ wtask[w] \in Task
        /\ counters' = Bump("completed")
        /\ \A v \in Worker : v # w => wpc'[v] = wpc[v]
    BY <1>3 DEF CountCompleted, TypeOK
  <2>2. /\ counters'["completed"] = counters["completed"] + 1
        /\ counters'["delivered"] = counters["delivered"]
        /\ counters'["issued"] = counters["issued"] /\ Settled' = Settled
    BY <2>1 DEF Bump, TypeOK, Counter, Settled
  <2>3. Counted' \subseteq Counted \union {wtask[w]}
    BY <2>1 DEF Counted
  <2>4. /\ Cardinality(Counted') <= Cardinality(Counted) + 1
        /\ Cardinality(Counted') \in Nat
    <3>1. IsFiniteSet(Counted) /\ Cardinality(Counted) \in Nat
      BY CountedFinite DEF CountInv
    <3>2. /\ IsFiniteSet(Counted \union {wtask[w]})
          /\ Cardinality(Counted \union {wtask[w]}) <= Cardinality(Counted) + 1
          /\ Cardinality(Counted \union {wtask[w]}) \in Nat
      <4>1. IsFiniteSet(Counted \union {wtask[w]})
        BY <3>1, FS_AddElement
      <4>2. Cardinality(Counted \union {wtask[w]}) =
              IF wtask[w] \in Counted THEN Cardinality(Counted) ELSE Cardinality(Counted) + 1
        BY <3>1, FS_AddElement
      <4> QED
        BY <3>1, <4>1, <4>2
    <3>3. /\ IsFiniteSet(Counted')
          /\ Cardinality(Counted') <= Cardinality(Counted \union {wtask[w]})
      BY <2>3, <3>2, FS_Subset
    <3> QED
      BY <3>1, <3>2, <3>3, FS_CardinalityType
  <2>5. CompletedFirst'
    <3>1. counters["delivered"] \in Nat /\ counters["completed"] \in Nat
      BY DEF TypeOK, Counter
    <3> QED
      BY <2>2, <2>4, <3>1, CountedFinite DEF CountInv, CompletedFirst
  <2>6. OutstandingExact'
    BY <1>1, <2>2 DEF CountInv, OutstandingExact, Outstanding
  <2> QED
    BY <1>2, <2>5, <2>6
<1>4. ASSUME UNCHANGED counters, Counted' = Counted
      PROVE  OutstandingExact' /\ CompletedFirst'
  BY <1>1, <1>4 DEF CountInv, OutstandingExact, Outstanding, Settled, CompletedFirst
<1>5. CASE PublishSlot(w)
  <2>1. CASE state[wtask[w]] = "running"
    <3>1. wtask[w] \in Task /\ wpc'[w] = "count" /\ UNCHANGED wtask
          /\ \A t \in Task : t # wtask[w] => state'[t] = state[t]
      BY <1>5, <2>1 DEF PublishSlot, TypeOK
    <3>2. \A v \in Worker : v # w => wpc'[v] = wpc[v]
      BY <1>5 DEF PublishSlot, TypeOK
    <3>3. \A v \in Worker : v # w /\ wpc[v] = "count" => wtask[v] # wtask[w]
      BY <1>5 DEF PublishSlot, WorkerInv, OneRunner, Ran
    <3>4. \A t \in Task : t # wtask[w] => (t \in Counted' <=> t \in Counted)
      BY <1>1, <1>5, <3>1, <3>2 DEF Counted, PublishSlot
    <3>5. wtask[w] \notin Counted /\ wtask[w] \notin Counted'
      BY <2>1, <3>1 DEF Counted
    <3>6. Counted' = Counted
      BY <3>4, <3>5 DEF Counted
    <3> QED
      BY <1>2, <1>4, <1>5, <3>6 DEF PublishSlot
  <2>2. CASE state[wtask[w]] # "running"
    <3>1. UNCHANGED <<state, wtask, counters>>
          /\ \A v \in Worker : wpc'[v] = "count" <=> wpc[v] = "count"
      BY <1>5, <2>2 DEF PublishSlot, TypeOK
    <3>2. Counted' = Counted
      BY <1>1, <3>1 DEF Counted
    <3> QED
      BY <1>2, <1>4, <3>1, <3>2
  <2> QED
    BY <2>1, <2>2
<1>6. CASE Begin(w)
  <2>1. /\ UNCHANGED counters
        /\ \A t \in Task : state'[t] = "published" <=> state[t] = "published"
        /\ \A v \in Worker : wpc'[v] = "count" <=> wpc[v] = "count"
        /\ \A v \in Worker : wpc[v] = "count" => wtask'[v] = wtask[v]
    BY <1>6 DEF Begin, TypeOK
  <2>2. Counted' = Counted
    BY <1>1, <2>1 DEF Counted
  <2> QED
    BY <1>2, <1>4, <2>1, <2>2
<1>7. CASE \/ Recv(w) \/ CheckEpoch(w) \/ ListRunning(w) \/ CheckRequested(w)
           \/ Disarm(w) \/ Store(w) \/ Discard(w) \/ Unlist(w) \/ EnterGate(w)
           \/ Send(w) \/ Arm(w) \/ Answer(w) \/ Return(w)
  <2>1. /\ UNCHANGED <<state, counters>>
        /\ \A v \in Worker : wpc[v] = "count" => wpc'[v] = "count" /\ wtask'[v] = wtask[v]
    BY <1>7 DEF Recv, CheckEpoch, ListRunning, CheckRequested, Disarm, Store, Discard,
       Unlist, EnterGate, Send, Arm, Answer, Return, TypeOK
  <2> QED
    BY <1>1, <2>1, CountFrame
<1> QED
  BY <1>3, <1>5, <1>6, <1>7, <1>2 DEF WorkerStep

\* deliver counts what it takes, stop what it ends, issue what it adds; reset
\* forgets the counts once nothing is outstanding.
LEMMA CountUi ==
    ASSUME TypeOK, UiInv, GateInv, CountInv,
           \/ UiStep \/ Dispatch \/ TakeCompletion \/ Reject \/ ClearEpoch
           \/ \E r \in Request : Issue(r)
    PROVE  IsFiniteSet(Created)' /\ OutstandingExact' /\ CompletedFirst'
<1> USE DEF slotVars, registryVars, queueVars, workerVars, UGoto
<1> DEFINE Finite == /\ IsFiniteSet(Outstanding) /\ Cardinality(Outstanding) \in Nat
                     /\ IsFiniteSet(Counted) /\ Cardinality(Counted) \in Nat
<1>0. /\ Finite
      /\ \A c \in Counter : counters[c] \in Nat
      /\ counters["issued"] - Settled = Cardinality(Outstanding)
  BY CountedFinite DEF TypeOK, CountInv, OutstandingExact, Outstanding
<1>1. CASE TakeCompletion
  <2> DEFINE t == Head(completions)
  <2>1. t \in Task /\ t = completions[1] /\ 1 \in 1..Len(completions)
    BY <1>1 DEF TakeCompletion, TypeOK
  <2>2. CASE slot[t].epoch = epoch /\ state[t] = "published"
    <3>1. /\ state' = [state EXCEPT ![t] = "delivered"]
          /\ counters' = Bump("delivered")
          /\ UNCHANGED <<slot, epoch, wpc, wtask>>
      BY <1>1, <2>2 DEF TakeCompletion
    <3>2. t \in Counted /\ t \in Outstanding
      BY <2>1, <2>2 DEF Counted, Outstanding, CountInv, SentLeft, Ran, Unended
    <3>3. \A u \in Task : state'[u] = IF u = t THEN "delivered" ELSE state[u]
      BY <2>1, <3>1 DEF TypeOK
    <3>4. Created' = Created /\ Outstanding' = Outstanding \ {t} /\ Counted' = Counted \ {t}
      BY <2>1, <2>2, <3>1, <3>3 DEF Created, Outstanding, Counted, Unended
    <3>5. /\ counters'["issued"] = counters["issued"]
          /\ counters'["completed"] = counters["completed"]
          /\ counters'["delivered"] = counters["delivered"] + 1
          /\ Settled' = Settled + 1
      BY <1>0, <3>1 DEF Bump, TypeOK, Counter, Settled
    <3>6. /\ Cardinality(Outstanding') = Cardinality(Outstanding) - 1
          /\ Cardinality(Counted') = Cardinality(Counted) - 1
      BY <1>0, <3>2, <3>4, FS_RemoveElement
    <3>7. Settled \in Nat
      BY <1>0 DEF Settled, Counter
    <3>8. OutstandingExact'
      BY <1>0, <3>5, <3>6, <3>7 DEF OutstandingExact, Outstanding, Counter
    <3>9. CompletedFirst'
      BY <1>0, <3>5, <3>6 DEF CountInv, CompletedFirst, Counter
    <3> QED
      BY <3>4, <3>8, <3>9 DEF CountInv
  <2>3. CASE ~ (slot[t].epoch = epoch /\ state[t] = "published")
    BY <1>1, <2>3, CountFrame DEF TakeCompletion
  <2> QED
    BY <2>2, <2>3
<1>2. ASSUME NEW t \in Task, Enqueue(t)
      PROVE  IsFiniteSet(Created)' /\ OutstandingExact' /\ CompletedFirst'
  <2>1. /\ state[t] = "none" /\ state' = [state EXCEPT ![t] = "queued"]
        /\ counters' = Bump("issued") /\ UNCHANGED <<epoch, wpc, wtask>>
        /\ \A u \in Task : u # t => slot'[u] = slot[u]
    BY <1>2 DEF Enqueue, TypeOK
  <2>2. \A u \in Task : state'[u] = IF u = t THEN "queued" ELSE state[u]
    BY <2>1 DEF TypeOK
  <2>3. Created' = Created \union {t} /\ Outstanding' = Outstanding \union {t}
        /\ Counted' = Counted /\ t \notin Outstanding
    BY <2>1, <2>2 DEF Created, Outstanding, Counted, Unended
  <2>4. /\ counters'["issued"] = counters["issued"] + 1
        /\ counters'["completed"] = counters["completed"]
        /\ counters'["delivered"] = counters["delivered"] /\ Settled' = Settled
    BY <1>0, <2>1 DEF Bump, TypeOK, Counter, Settled
  <2>5. Cardinality(Outstanding') = Cardinality(Outstanding) + 1 /\ IsFiniteSet(Created')
    BY <1>0, <2>3, FS_AddElement DEF CountInv
  <2>6. Settled \in Nat
    BY <1>0 DEF Settled, Counter
  <2>7. OutstandingExact'
    BY <1>0, <2>4, <2>5, <2>6 DEF OutstandingExact, Outstanding, Counter
  <2> QED
    BY <2>3, <2>4, <2>5, <2>7 DEF CountInv, CompletedFirst
<1>3. ASSUME NEW t \in Task, StopSlot(t)
      PROVE  IsFiniteSet(Created)' /\ OutstandingExact' /\ CompletedFirst'
  <2>1. CASE AlreadyEnded(t)
    BY <1>3, <2>1, CountFrame DEF StopSlot
  <2>2. CASE ~ AlreadyEnded(t)
    <3>1. /\ state' = [state EXCEPT ![t] = Why] /\ counters' = Bump(Why)
          /\ Why \in {"superseded", "cancelled"}
          /\ UNCHANGED <<slot, epoch, wpc, wtask>>
      BY <1>3, <2>2 DEF StopSlot, Why
    <3>2. t \in Outstanding
      BY <1>3, <2>2 DEF StopSlot, AlreadyEnded, Outstanding, UiInv, TypeOK
    <3>3. \A u \in Task : state'[u] = IF u = t THEN Why ELSE state[u]
      BY <3>1 DEF TypeOK
    <3>4. Created' = Created /\ Outstanding' = Outstanding \ {t} /\ Counted' \subseteq Counted
      BY <3>1, <3>2, <3>3 DEF Created, Outstanding, Counted, Unended
    <3>5. /\ counters'["issued"] = counters["issued"]
          /\ counters'["completed"] = counters["completed"]
          /\ counters'["delivered"] = counters["delivered"]
          /\ Settled' = Settled + 1
      BY <1>0, <3>1 DEF Bump, TypeOK, Counter, Settled
    <3>6. /\ Cardinality(Outstanding') = Cardinality(Outstanding) - 1
          /\ Cardinality(Counted') <= Cardinality(Counted) /\ Cardinality(Counted') \in Nat
      BY <1>0, <3>2, <3>4, FS_RemoveElement, FS_Subset, FS_CardinalityType
    <3>7. Settled \in Nat
      BY <1>0 DEF Settled, Counter
    <3>8. OutstandingExact'
      BY <1>0, <3>5, <3>6, <3>7 DEF OutstandingExact, Outstanding, Counter
    <3>9. CompletedFirst'
      BY <1>0, <3>5, <3>6 DEF CountInv, CompletedFirst, Counter
    <3> QED
      BY <3>4, <3>8, <3>9 DEF CountInv
  <2> QED
    BY <2>1, <2>2
<1>4. CASE StopWake
  <2>1. \A c \in Counter \ {"interrupted"} : counters'[c] = counters[c]
    BY <1>4 DEF StopWake, Bump, TypeOK
  <2>2. \A w \in Worker : wpc[w] = "count" => wpc'[w] = "count"
    BY <1>4 DEF StopWake
  <2> QED
    BY <1>4, <2>1, <2>2, CountFrame DEF StopWake, Counter
<1>5. CASE ClearEpoch
  <2>1. /\ UNCHANGED <<state, slot, counters, wpc, wtask>>
        /\ epoch' = epoch + 1 /\ epoch \in Nat /\ upc \in {"idle", "clear"}
    BY <1>5 DEF ClearEpoch, TypeOK
  <2>2. \A u \in Task : state[u] = "published" => slot[u].epoch = epoch
    BY <2>1 DEF UiInv, Stopping, Unended
  <2>3. Counted' = {}
    BY <2>1, <2>2 DEF Counted
  <2>4. Created' = Created /\ Outstanding' = Outstanding /\ Settled' = Settled
    BY <2>1 DEF Created, Outstanding, Settled
  <2>5. CompletedFirst'
    BY <1>0, <2>1, <2>3, FS_EmptySet DEF CountInv, CompletedFirst, Counter
  <2> QED
    BY <1>0, <2>1, <2>4, <2>5 DEF CountInv, OutstandingExact, Outstanding
<1>6. CASE ClearReset
  <2>1. /\ UNCHANGED <<state, slot, epoch, wpc, wtask>> /\ counters' = Zero
        /\ upc = "reset"
    BY <1>6 DEF ClearReset
  <2>2. \A u \in Task : state[u] \notin Unended
    BY <2>1 DEF UiInv, Resetting, Stopping
  <2>3. Outstanding' = {} /\ Counted' = {} /\ Created' = Created
    BY <2>1, <2>2 DEF Outstanding, Counted, Created, Unended
  <2>4. Settled' = 0 /\ counters'["issued"] = 0 /\ counters'["delivered"] = 0
        /\ counters'["completed"] = 0
    BY <2>1 DEF Zero, Counter, Settled
  <2> QED
    BY <2>3, <2>4, FS_EmptySet
       DEF CountInv, OutstandingExact, Outstanding, CompletedFirst
<1>7. CASE \/ Dispatch \/ Reject \/ EndTurn \/ StopTake \/ ClearDrain
           \/ \E r \in Request : Issue(r)
           \/ \E removed, added \in SUBSET Owner : Accept(removed, added)
           \/ \E pairs \in SUBSET (Owner \X Key) : Cancel(pairs)
  <2>1. UNCHANGED <<state, slot, epoch, counters, wpc, wtask>>
    BY <1>7 DEF Dispatch, Reject, EndTurn, StopTake, ClearDrain, Issue, Accept, Cancel
  <2> QED
    BY <2>1, CountFrame
<1> QED
  BY <1>1, <1>2, <1>3, <1>4, <1>5, <1>6, <1>7 DEF UiStep

-----------------------------------------------------------------------------

\* The counters agree with the slots at every instant, whatever the workers do.
THEOREM CountsInductive == Spec => []CountInv
<1>1. Init => CountInv
  <2> SUFFICES ASSUME Init PROVE CountInv
    OBVIOUS
  <2>1. Created = {} /\ Outstanding = {} /\ Counted = {}
    BY DEF Init, Created, Outstanding, Counted, Unended
  <2>2. SentLeft
    BY DEF Init, SentLeft
  <2>3. Settled = 0 /\ counters["issued"] = 0 /\ counters["delivered"] = 0
        /\ counters["completed"] = 0
    BY DEF Init, Zero, Counter, Settled
  <2> QED
    BY <2>1, <2>2, <2>3, FS_EmptySet
       DEF CountInv, OutstandingExact, Outstanding, CompletedFirst
<1>2. Inv /\ CountInv /\ [Next]_vars => CountInv'
  <2> SUFFICES ASSUME Inv, CountInv, [Next]_vars PROVE CountInv'
    OBVIOUS
  <2>1. CASE Next
    BY <2>1, SentLeftWorker, SentLeftUi, CountWorker, CountUi DEF Next, Inv, CountInv
  <2>2. CASE UNCHANGED vars
    BY <2>2 DEF CountInv, Created, SentLeft, OutstandingExact, CompletedFirst, Counted,
       Settled, vars, slotVars, registryVars, queueVars, workerVars, uiVars
  <2> QED
    BY <2>1, <2>2
<1> QED
  BY <1>1, <1>2, Inductive, PTL DEF Spec

\* issued_and_settled: what was issued less what was settled is the number of
\* tasks outstanding, for any number of tasks and through every retirement.
THEOREM OutstandingExactHolds == Spec => []OutstandingExact
<1>1. CountInv => OutstandingExact
  BY DEF CountInv
<1> QED
  BY <1>1, CountsInductive, PTL

\* What DeliveredToMounted says of one task.
Delivers(t) ==
    state[t] # "delivered" /\ state'[t] = "delivered" =>
        /\ slot[t].owner \in mounted \union {Root}
        /\ slot[t].epoch = epoch
        /\ counters["delivered"] < counters["completed"]

\* Only `deliver` moves a slot to delivered: between turns, when every task that
\* has not ended belongs to a mounted component.
LEMMA DeliverStep ==
    ASSUME Inv, CountInv, Next, NEW t \in Task
    PROVE  Delivers(t)
<1> USE DEF Inv
<1>1. CASE TakeCompletion
  <2> DEFINE u == Head(completions)
  <2> SUFFICES ASSUME state[t] # "delivered", state'[t] = "delivered" PROVE Delivers(t)
    BY DEF Delivers
  <2>1. u \in Task /\ u = completions[1] /\ 1 \in 1..Len(completions) /\ upc = "idle"
    BY <1>1 DEF TakeCompletion, TypeOK
  <2>2. t = u /\ state[t] = "published" /\ slot[t].epoch = epoch
    BY <1>1, <2>1 DEF TakeCompletion, TypeOK
  <2>3. slot[t].owner \in mounted \union {Root}
    BY <2>1, <2>2 DEF UiInv, Stopping, Unended
  <2>4. t \in Counted
    BY <2>1, <2>2 DEF Counted, CountInv, SentLeft, Ran
  <2>5. Cardinality(Counted) \in Nat \ {0}
    BY <2>4, CountedFinite, FS_EmptySet DEF CountInv
  <2>6. counters["delivered"] \in Nat /\ counters["completed"] \in Nat
    BY DEF TypeOK, Counter
  <2> QED
    BY <2>2, <2>3, <2>5, <2>6 DEF Delivers, CountInv, CompletedFirst
<1>2. ASSUME NEW w \in Worker, WorkerStep(w) \/ Arm(w) \/ Answer(w) \/ Return(w)
      PROVE  Delivers(t)
  <2>1. CASE Begin(w) BY <2>1 DEF Begin, TypeOK, Delivers
  <2>2. CASE PublishSlot(w) BY <2>2 DEF PublishSlot, TypeOK, Delivers
  <2>3. CASE UNCHANGED state BY <2>3 DEF Delivers
  <2>4. CASE \/ Recv(w) \/ CheckEpoch(w) \/ ListRunning(w) \/ CheckRequested(w)
             \/ Disarm(w) \/ Store(w) \/ CountCompleted(w) \/ Discard(w) \/ Unlist(w)
             \/ EnterGate(w) \/ Send(w) \/ Arm(w) \/ Answer(w) \/ Return(w)
    BY <2>3, <2>4 DEF Recv, CheckEpoch, ListRunning, CheckRequested, Disarm, Store,
       CountCompleted, Discard, Unlist, EnterGate, Send, Arm, Answer, Return, slotVars
  <2> QED BY <1>2, <2>1, <2>2, <2>4 DEF WorkerStep
<1>3. ASSUME NEW u \in Task, Enqueue(u) PROVE Delivers(t)
  BY <1>3 DEF Enqueue, TypeOK, Delivers
<1>4. ASSUME NEW u \in Task, StopSlot(u) PROVE Delivers(t)
  BY <1>4 DEF StopSlot, TypeOK, Why, Delivers
<1>5. CASE \/ Dispatch \/ Reject \/ ClearEpoch \/ EndTurn \/ StopTake \/ StopWake
           \/ ClearDrain \/ ClearReset
           \/ \E r \in Request : Issue(r)
           \/ \E removed, added \in SUBSET Owner : Accept(removed, added)
           \/ \E pairs \in SUBSET (Owner \X Key) : Cancel(pairs)
  <2>1. UNCHANGED state
    BY <1>5 DEF Dispatch, Reject, ClearEpoch, EndTurn, StopTake, StopWake, ClearDrain,
       ClearReset, Issue, Accept, Cancel, slotVars
  <2> QED BY <2>1 DEF Delivers
<1> QED
  BY <1>1, <1>2, <1>3, <1>4, <1>5 DEF Next, UiStep

\* deliver: a completion reaches the application only while its component is
\* mounted, in the session that issued it, and was counted as completed first.
THEOREM DeliveredToMountedHolds == Spec => DeliveredToMounted
<1>1. Inv /\ CountInv /\ [Next]_vars => [\A t \in Task : Delivers(t)]_vars
  BY DeliverStep
<1> QED
  BY <1>1, Inductive, CountsInductive, PTL DEF Spec, DeliveredToMounted, Delivers

=============================================================================

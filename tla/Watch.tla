-------------------------------- MODULE Watch -------------------------------
(***************************************************************************)
(* Watches of a granted directory or of a database in it (watch.rs), over  *)
(* the grant registry they descend from.  Four kinds of threads meet here: *)
(* the notifier's (watch_loop), the one that withdraws grants              *)
(* (grant::revoke), the ones that start, cancel and drop a watch, and the  *)
(* tasks that wait (next).  A step is one critical section of the store,   *)
(* of the registry or of one watch's state, so an event, a withdrawal and  *)
(* a wait interleave between them; `end_if_withdrawn` is one step because  *)
(* what it asks only ever becomes true.                                    *)
(*                                                                         *)
(* One directory is watched.  Time is how long ago the first and the last  *)
(* gathered change were, up to the two settle bounds.  The kernel keeps    *)
(* events in a queue of its own that can overflow; a read takes one event, *)
(* as the buffer of a read only adds to that queue.                        *)
(***************************************************************************)

EXTENDS Grants, Integers, Sequences, FiniteSets

CONSTANTS WatchNo,      \* watches, by the number of their grant
          Waiter,       \* tasks that wait
          Dir,          \* the directory's grant
          TargetOf,     \* what each watch is of: "directory" or "database"
          Changes,      \* the pairs of a child and what may happen to it
          MaxNames,     \* MAX_NAMES
          MaxWatches,   \* MAX_WATCHES
          Settle,       \* SETTLE
          SettleLimit,  \* SETTLE_LIMIT
          MaxQueue,     \* events the kernel keeps
          MaxWd,        \* bound: inotify descriptors ever handed out
          Renames       \* whether the directory may be moved

WatchId(w) == <<"watch", w>>

ASSUME WatchAssumption ==
    /\ {WatchId(w) : w \in WatchNo} \subseteq GrantId /\ Dir \in GrantId
    /\ \A w \in WatchNo : WatchId(w) # Dir
    /\ WatchNo \subseteq Client
    /\ TargetOf \in [WatchNo -> {"directory", "database"}]
    /\ Changes \subseteq {"db", "wal", "note"} \X {"name", "written"}
    /\ {Settle, SettleLimit, MaxNames, MaxWatches, MaxQueue, MaxWd} \subseteq Nat
    /\ Settle <= SettleLimit

VARIABLES store,      \* the watches in the store, with their gathered state
          byDesc,     \* by_descriptor
          wd,         \* the kernel's descriptor of the directory, 0 for none
          nextWd,     \* the next one it hands out
          queue,      \* its events
          event,      \* the event the notifier has read
          todo,       \* the watches it still has to tell of it
          npc,        \* where it is
          sweep,      \* end_withdrawn of a withdrawal: the watches it has left
          rpc,        \* where the thread is that withdraws the grant
          spc,        \* where `start` is, for each watch
          wait,       \* the task's place in `next`, and the watch
          ended,      \* tasks that ended while waiting, and hooks still to run
          notified,   \* waiters notified at their condition variable
          unseen      \* history: changes a watch has not reported yet

kernel == <<wd, nextWd, queue>>
notifier == <<event, todo, npc>>
waits == <<wait, ended>>
watchState == <<store, byDesc, kernel, notifier, sweep, rpc, spc, waits, notified,
                unseen>>
watchVars == <<grantVars, watchState>>

Name == {"db", "wal", "note"}
Quiet == Settle       \* an age that has reached SETTLE
Limit == SettleLimit

\* What a watch has gathered, and how long ago the first and the last change of
\* it were; whether a name may refer to another file now is left out.
Gathered == [names : SUBSET Name, overflowed : BOOLEAN, first : -1 .. Limit,
             last : -1 .. Quiet]
NoneGathered == [names |-> {}, overflowed |-> FALSE, first |-> -1, last |-> -1]

\* Target::effect: the name a change of a child is reported under, or none.  A
\* database is its file and writes to its log.
Effect(target, child, mask) ==
    IF target = "directory" \/ child = "db" THEN {child}
    ELSE IF child = "wal" /\ mask = "written" THEN {"db"} ELSE {}

\* sys::read: the events a backend decodes.  An overflow names no directory.
Change(c, m) == [desc |-> wd, child |-> c, mask |-> m]
Overflow == [desc |-> 0, child |-> "note", mask |-> "overflow"]
Gone(d) == [desc |-> d, child |-> "note", mask |-> "gone"]

\* The kernel merges an event with an equal one at the end of its queue.
Queued(e) ==
    LET put(x) == IF queue # <<>> /\ queue[Len(queue)] = x THEN queue ELSE Append(queue, x)
    IN  IF Len(queue) < MaxQueue \/ queue[Len(queue)] = e THEN put(e) ELSE put(Overflow)

WatchInit ==
    /\ grants = [id \in GrantId |->
                   IF id = Dir THEN [id |-> Dir, rights |-> Right, origin |-> "chosen",
                                     lifetime |-> "session", parent |-> NoGrant,
                                     root |-> Dir, revoked |-> FALSE]
                               ELSE NoGrant]
    /\ revokedRoots = {} /\ withdrawn = {} /\ issued = {Dir}
    /\ copy = [c \in Client |-> NoGrant]
    /\ store = [w \in {} |-> {}] /\ byDesc = [d \in 1 .. MaxWd |-> {}]
    /\ wd = 0 /\ nextWd = 1 /\ queue = <<>>
    /\ event = Overflow /\ todo = {} /\ npc = "poll"
    /\ sweep = {} /\ rpc = "idle"
    /\ spc = [w \in WatchNo |-> "idle"]
    /\ wait = [t \in Waiter |-> [at |-> "idle", watch |-> 0]]
    /\ ended = [t \in Waiter |-> "no"]
    /\ notified = {} /\ unseen = [w \in WatchNo |-> {}]

Stored == DOMAIN store
Live(w) == w \in Stored /\ store[w].end = "none"
Unreported == [w \in WatchNo |-> IF Live(w) THEN unseen[w] ELSE {}]
Pending(w) == store[w].got.names # {} \/ store[w].got.overflowed

Sleepers(w) == {t \in Waiter : wait[t] = [at |-> "asleep", watch |-> w]}

\* Mutant: a watch ends without waking who sleeps at it.
EndAllSilent(S, why) ==
    /\ store' = [w \in Stored |-> IF w \in S /\ store[w].end = "none"
                                    THEN [store[w] EXCEPT !.end = why,
                                                          !.got = NoneGathered]
                                    ELSE store[w]]
    /\ UNCHANGED notified

\* end: the first end is the one reported; every sleeper of the watch wakes.
\* Once a watch has ended nothing reads what it gathered, so that goes here.
EndAll(S, why) ==
    /\ store' = [w \in Stored |-> IF w \in S /\ store[w].end = "none"
                                    THEN [store[w] EXCEPT !.end = why,
                                                          !.got = NoneGathered]
                                    ELSE store[w]]
    /\ notified' = notified \union UNION {Sleepers(w) : w \in {x \in S : Live(x)}}

-----------------------------------------------------------------------------
(* The directory and the clock.                                            *)

\* A child of the directory changes while it is watched.
Touch(child, mask) ==
    /\ wd # 0 /\ queue' = Queued(Change(child, mask))
    /\ unseen' = [w \in WatchNo |->
                    IF Live(w) /\ store[w].desc = wd
                      THEN unseen[w] \union Effect(store[w].target, child, mask)
                      ELSE Unreported[w]]
    /\ UNCHANGED <<grantVars, store, byDesc, wd, nextWd, notifier, sweep, rpc,
                   spc, waits, notified>>

\* It is deleted, which also ends the kernel's watch, or moved, which does not.
Vanish(moved) ==
    /\ wd # 0 /\ (moved => Renames)
    /\ queue' = Queued(Gone(wd)) /\ wd' = IF moved THEN wd ELSE 0
    /\ UNCHANGED <<grantVars, store, byDesc, nextWd, notifier, sweep, rpc, spc,
                   waits, notified, unseen>>

Older(age, bound) == IF age = -1 \/ age = bound THEN age ELSE age + 1

Elapse ==
    /\ store' = [w \in Stored |->
                   IF Live(w) THEN [store[w] EXCEPT !.got.first = Older(@, Limit),
                                                    !.got.last = Older(@, Quiet)]
                              ELSE store[w]]
    /\ UNCHANGED <<grantVars, byDesc, kernel, notifier, sweep, rpc, spc, waits,
                   notified, unseen>>

-----------------------------------------------------------------------------
(* start, cancel and the release of a handle.                              *)

\* The caller has accepted the directory; start asks whether it is withdrawn.
StartCheck(w) ==
    /\ spc[w] = "idle" /\ copy[w] = NoGrant
    /\ Accepted(Dir, {"read"}) = "ok"
    /\ copy' = [copy EXCEPT ![w] = grants[Dir]]
    /\ spc' = [spc EXCEPT ![w] = "checked"]
    /\ UNCHANGED <<registryVars, issued, store, byDesc, kernel, notifier, sweep,
                   rpc, waits, notified, unseen>>

\* The store's critical section: the bound, sys::add (a directory that is
\* watched already keeps its descriptor), the entry and its descriptor's list.
StartInsert(w) ==
    /\ spc[w] = "checked"
    /\ IF Cardinality(Stored) >= MaxWatches \/ (wd = 0 /\ nextWd > MaxWd)
         THEN /\ spc' = [spc EXCEPT ![w] = "refused"]
              /\ UNCHANGED <<store, byDesc, wd, nextWd>>
         ELSE LET d == IF wd # 0 THEN wd ELSE nextWd
              IN  /\ wd' = d /\ nextWd' = IF wd # 0 THEN nextWd ELSE nextWd + 1
                  /\ store' = [v \in Stored \union {w} |->
                                 IF v # w THEN store[v]
                                 ELSE [target |-> TargetOf[w], desc |-> d, end |-> "none",
                                       waiting |-> FALSE, got |-> NoneGathered]]
                  /\ byDesc' = [byDesc EXCEPT ![d] = @ \union {w}]
                  /\ spc' = [spc EXCEPT ![w] = "inserted"]
    /\ UNCHANGED <<grantVars, queue, notifier, sweep, rpc, waits,
                   notified, unseen>>

\* Mutant: that the registry refused the grant is not looked at.
StartRecordAnyway(w) ==
    /\ spc[w] = "inserted"
    /\ RecordDescendant(WatchId(w), {"read"}, copy[w])
    /\ issued' = issued \union {WatchId(w)}
    /\ copy' = [copy EXCEPT ![w] = NoGrant]
    /\ spc' = [spc EXCEPT ![w] = "held"]
    /\ UNCHANGED <<store, notified, byDesc, kernel, notifier, sweep, rpc, waits, unseen>>

\* The grant is recorded, or the watch ends as withdrawn.
StartRecord(w) ==
    /\ spc[w] = "inserted"
    /\ RecordDescendant(WatchId(w), {"read"}, copy[w])
    /\ IF MayDerive(copy[w]) THEN UNCHANGED <<store, notified>>
                             ELSE EndAll({w}, "revoked")
    /\ issued' = issued \union {WatchId(w)}
    /\ copy' = [copy EXCEPT ![w] = NoGrant]
    /\ spc' = [spc EXCEPT ![w] = "held"]
    /\ UNCHANGED <<byDesc, kernel, notifier, sweep, rpc, waits, unseen>>

Cancel(w) ==
    /\ spc[w] = "held" /\ w \in Stored /\ EndAll({w}, "canceled")
    /\ UNCHANGED <<grantVars, byDesc, kernel, notifier, sweep, rpc, spc, waits,
                   unseen>>

\* route_dealloc: out of the store and off its descriptor; the last watch of
\* a descriptor takes it out of the kernel, which queues that it is gone.
\* Then the wait ends and the grant goes.  The entry itself stays while a wait
\* still uses it, as its Arc does.
Dropped(w) == [store EXCEPT ![w].end = IF @ = "none" THEN "canceled" ELSE @,
                            ![w].desc = 0, ![w].got = NoneGathered]
Dealloc(w) ==
    LET d == store[w].desc
        last == byDesc[d] # {} /\ byDesc[d] \ {w} = {}
    IN  /\ spc[w] = "held" /\ spc' = [spc EXCEPT ![w] = "dropped"]
        /\ byDesc' = [byDesc EXCEPT ![d] = @ \ {w}]
        /\ wd' = IF last /\ wd = d THEN 0 ELSE wd
        /\ queue' = IF last /\ wd = d THEN Queued(Gone(d)) ELSE queue
        /\ store' = Dropped(w)
        /\ notified' = notified \union Sleepers(w)
        /\ Release(WatchId(w))
        /\ UNCHANGED <<issued, copy, nextWd, notifier, sweep,
                       rpc, waits, unseen>>

\* The application drops the directory it watches.
ReleaseDir ==
    /\ Recorded(Dir) /\ Release(Dir)
    /\ UNCHANGED <<issued, copy, watchState>>

-----------------------------------------------------------------------------
(* end_withdrawn, by the notifier at every poll and by a withdrawal.  The   *)
(* notifier's sweep is one step: it ends what it finds withdrawn, and what *)
(* becomes so meanwhile is the next poll's.                                *)

InStore == {w \in Stored : spc[w] # "dropped"}

\* Mutant: a directory that was dropped, not withdrawn, is overlooked.
WhyWithdrawnRevoked(w) == IF IsRevoked(WatchId(w)) THEN "revoked" ELSE "none"

\* end_if_withdrawn: as the withdrawal, or as the release of what is watched.
WhyWithdrawn(w) == IF IsRevoked(WatchId(w)) THEN "revoked"
                   ELSE IF ~ IsHeld(Dir) THEN "canceled" ELSE "none"
EndIfWithdrawn(w) == IF WhyWithdrawn(w) = "none" THEN UNCHANGED <<store, notified>>
                                                 ELSE EndAll({w}, WhyWithdrawn(w))

Withdraw(w) ==
    /\ w \in sweep /\ sweep' = sweep \ {w}
    /\ EndIfWithdrawn(w)
    /\ UNCHANGED <<grantVars, byDesc, kernel, notifier, rpc, spc, waits,
                   unseen>>

\* Of a grant that is not recorded a withdrawal is its sweep alone, which Poll is.
RevokeDir ==
    /\ Recorded(Dir) /\ rpc = "idle" /\ rpc' = "revoked"
    /\ Revoke(Dir)
    /\ UNCHANGED <<issued, copy, store, byDesc, kernel, notifier, sweep, spc,
                   waits, notified, unseen>>

RevokeSweep ==
    /\ rpc = "revoked" /\ rpc' = "sweep"
    /\ sweep' = InStore
    /\ UNCHANGED <<grantVars, store, byDesc, kernel, notifier, spc, waits,
                   notified, unseen>>

-----------------------------------------------------------------------------
(* The notifier's thread: read, deliver each event, sweep.                 *)

\* sys::read and the head of deliver: one event, and the watches of its
\* descriptor, or all.
Read ==
    /\ npc = "poll" /\ queue # <<>> /\ npc' = "tell"
    /\ event' = Head(queue) /\ queue' = Tail(queue)
    /\ todo' = InStore \intersect
                 IF Head(queue) = Overflow THEN Stored ELSE byDesc[Head(queue).desc]
    /\ UNCHANGED <<grantVars, store, byDesc, wd, nextWd, sweep, rpc, spc, waits,
                   notified, unseen>>

\* Mutant: what does not fit is dropped, and nothing says so.
GatherDropping(got, target, e) ==
    LET told == Effect(target, e.child, e.mask)
        seen == IF e = Overflow THEN [got EXCEPT !.overflowed = TRUE]
                ELSE IF Cardinality(got.names) < MaxNames
                  THEN [got EXCEPT !.names = @ \union told] ELSE got
    IN  [seen EXCEPT !.first = IF @ = -1 THEN 0 ELSE @, !.last = 0]

\* Mutant: every change starts both deadlines anew.
GatherAnew(got, target, e) ==
    LET fits == Cardinality(got.names) < MaxNames
        told == Effect(target, e.child, e.mask)
        full == e = Overflow \/ ~ (fits \/ told \subseteq got.names)
    IN  [got EXCEPT !.names = IF fits /\ e # Overflow THEN @ \union told ELSE @,
                    !.overflowed = @ \/ full, !.first = 0, !.last = 0]

\* What an event adds to what a watch has gathered.
Gather(got, target, e) ==
    LET fits == Cardinality(got.names) < MaxNames
        told == Effect(target, e.child, e.mask)
        seen == IF e = Overflow
                  THEN [got EXCEPT !.overflowed = TRUE]
                  ELSE [got EXCEPT !.names = IF fits THEN @ \union told ELSE @,
                                   !.overflowed = @ \/ ~ (fits \/ told \subseteq got.names)]
    IN  [seen EXCEPT !.first = IF @ = -1 THEN 0 ELSE @, !.last = 0]

Tell(w) ==
    LET e == event
    IN  /\ npc = "tell" /\ w \in todo /\ todo' = todo \ {w}
        /\ IF e.mask = "gone" THEN EndAll({w}, "gone")
           ELSE IF /\ Live(w)
                   /\ e = Overflow \/ Effect(store[w].target, e.child, e.mask) # {}
             THEN /\ store' = [store EXCEPT ![w].got = Gather(@, store[w].target, e)]
                  /\ notified' = notified \union Sleepers(w)
             ELSE UNCHANGED <<store, notified>>
        /\ UNCHANGED <<grantVars, byDesc, kernel, event, npc, sweep, rpc, spc,
                       waits, unseen>>

\* After the watches of a directory that is gone, its descriptor's list.
Told ==
    /\ npc = "tell" /\ todo = {}
    /\ byDesc' = IF event.mask = "gone" THEN [byDesc EXCEPT ![event.desc] = {}]
                                        ELSE byDesc
    /\ event' = Overflow /\ npc' = "sweep"
    /\ UNCHANGED <<grantVars, store, kernel, todo, sweep, rpc, spc, waits,
                   notified, unseen>>

\* The poll ends with its event delivered, or timed out without any: watches
\* end whose grant is withdrawn, or whose directory is no longer held.
Poll ==
    /\ npc = "sweep" \/ (npc = "poll" /\ queue = <<>>)
    /\ npc' = "poll"
    /\ LET over == {w \in InStore : Live(w) /\ WhyWithdrawn(w) # "none"}
       IN  /\ store' = [w \in Stored |-> IF w \in over
                                           THEN [store[w] EXCEPT !.end = WhyWithdrawn(w),
                                                                 !.got = NoneGathered]
                                           ELSE store[w]]
           /\ notified' = notified \union UNION {Sleepers(w) : w \in over}
    /\ UNCHANGED <<grantVars, byDesc, kernel, event, todo, sweep, rpc, spc, waits,
                   unseen>>

-----------------------------------------------------------------------------
(* next.                                                                   *)

\* The handle is looked up and given back; a withdrawn watch ends first; the
\* interrupt is armed.
NextCall(t, w) ==
    /\ wait[t].at = "idle" /\ spc[w] = "held" /\ ended[t] = "no"
    /\ wait' = [wait EXCEPT ![t] = [at |-> "armed", watch |-> w]]
    /\ EndIfWithdrawn(w)
    /\ UNCHANGED <<grantVars, byDesc, kernel, notifier, sweep, rpc, spc, ended,
                   unseen>>

Due(got) == got.last = Quiet \/ got.first = Limit

\* The loop's body under the state lock: the end, the task's end, a settled
\* change, or back to sleep.  The deadline of the sleep is when it is due.
Loop(t, w) ==
    IF store[w].end = "none" /\ ended[t] = "no" /\ ~ (Pending(w) /\ Due(store[w].got))
      THEN /\ wait' = [wait EXCEPT ![t].at = "asleep"]
           /\ store' = [store EXCEPT ![w].waiting = TRUE]
           /\ UNCHANGED unseen
      ELSE /\ wait' = [wait EXCEPT ![t] = [at |-> "idle", watch |-> 0]]
           /\ IF store[w].end = "none" /\ ended[t] = "no"
                THEN /\ store' = [store EXCEPT ![w].waiting = FALSE,
                                               ![w].got = NoneGathered]
                     /\ unseen' = [unseen EXCEPT ![w] =
                                     IF store[w].got.overflowed THEN {}
                                     ELSE @ \ store[w].got.names]
                ELSE store' = [store EXCEPT ![w].waiting = FALSE] /\ UNCHANGED unseen

NextEnter(t) ==
    LET w == wait[t].watch
    IN  /\ wait[t].at = "armed"
        /\ IF store[w].end # "none" \/ store[w].waiting
             THEN /\ wait' = [wait EXCEPT ![t] = [at |-> "idle", watch |-> 0]]
                  /\ UNCHANGED <<store, unseen>>
             ELSE Loop(t, w)
        /\ UNCHANGED <<grantVars, byDesc, kernel, notifier, sweep, rpc, spc,
                       ended, notified>>

\* Notified, or past the deadline.
NextWake(t) ==
    LET w == wait[t].watch
    IN  /\ wait[t].at = "asleep"
        /\ t \in notified \/ (Pending(w) /\ Due(store[w].got))
        /\ notified' = notified \ {t}
        /\ Loop(t, w)
        /\ UNCHANGED <<grantVars, byDesc, kernel, notifier, sweep, rpc, spc,
                       ended>>

\* The waiting task is ended: its state first, then the hook it armed.
TaskEnd(t) ==
    /\ ended[t] = "no" /\ wait[t].at # "idle"
    /\ ended' = [ended EXCEPT ![t] = "hook"]
    /\ UNCHANGED <<grantVars, store, byDesc, kernel, notifier, sweep, rpc, spc,
                   wait, notified, unseen>>

TaskHook(t) ==
    /\ ended[t] = "hook" /\ ended' = [ended EXCEPT ![t] = "yes"]
    /\ notified' = notified \union {u \in Waiter : u \in Sleepers(wait[t].watch)}
    /\ UNCHANGED <<grantVars, store, byDesc, kernel, notifier, sweep, rpc, spc,
                   wait, unseen>>

-----------------------------------------------------------------------------

NotifierStep == Read \/ Told \/ Poll \/ \E w \in WatchNo : Tell(w)
RevokerStep == RevokeSweep \/ \E w \in WatchNo : Withdraw(w)
WaiterStep(t) == NextEnter(t) \/ NextWake(t) \/ TaskHook(t)

WatchNext ==
    \/ \E ch \in Changes : Touch(ch[1], ch[2])
    \/ \E moved \in BOOLEAN : Vanish(moved)
    \/ Elapse \/ ReleaseDir \/ RevokeDir \/ NotifierStep \/ RevokerStep
    \/ \E w \in WatchNo :
          \/ StartCheck(w) \/ StartInsert(w) \/ StartRecord(w)
          \/ Cancel(w) \/ Dealloc(w)
          \/ \E t \in Waiter : NextCall(t, w)
    \/ \E t \in Waiter : WaiterStep(t) \/ TaskEnd(t)

\* Threads run and the clock goes on; what the application, the person and the
\* writers of the directory do is theirs.
WatchFairness ==
    /\ WF_watchVars(NotifierStep) /\ WF_watchVars(RevokerStep) /\ WF_watchVars(Elapse)
    /\ \A t \in Waiter : WF_watchVars(WaiterStep(t))
    /\ \A w \in WatchNo : WF_watchVars(StartRecord(w))

WatchSpec == WatchInit /\ [][WatchNext]_watchVars /\ WatchFairness

-----------------------------------------------------------------------------
(* Properties.                                                             *)

\* An event that tells a watch of a name, and one that still will.
Tells(w, n, e) ==
    e = Overflow \/ /\ e.desc = store[w].desc
                    /\ e.mask = "gone" \/ n \in Effect(store[w].target, e.child, e.mask)
InFlight(w, n) ==
    \/ \E i \in 1 .. Len(queue) : Tells(w, n, queue[i])
    \/ npc = "tell" /\ w \in todo /\ Tells(w, n, event)

\* No change is lost: while a watch goes on, every change it was started for
\* that no wait has reported is gathered, covered by the overflow, or on its
\* way, whatever waits were interrupted, refused or ended in between.
NothingMissed ==
    \A w \in WatchNo : Live(w) =>
        \A n \in unseen[w] : \/ n \in store[w].got.names
                             \/ store[w].got.overflowed
                             \/ InFlight(w, n)

\* When a withdrawal has returned, no watch of the directory that the
\* application holds goes on, also not one that was being started meanwhile.
WithdrawnAtOnce ==
    rpc = "sweep" /\ sweep = {} /\ Dir \in revokedRoots
        => \A w \in WatchNo : spc[w] = "held" => ~ Live(w)

\* The flag names exactly the one wait, what was gathered has its instants,
\* and nobody sleeps through an end.
WaitsAgree ==
    \A w \in Stored :
        /\ store[w].waiting <=> \E t \in Waiter : wait[t] = [at |-> "asleep", watch |-> w]
        /\ Cardinality(Sleepers(w)) <= 1
        /\ Pending(w) <=> store[w].got.first # -1
        /\ store[w].end # "none" => Sleepers(w) \subseteq notified

\* A change is reported although the writer never pauses, and a watch whose
\* directory was withdrawn or dropped ends.
ChangeReported ==
    \A t \in Waiter, w \in WatchNo :
        wait[t] = [at |-> "asleep", watch |-> w] /\ Pending(w) ~> wait[t].at # "asleep"
WatchEnds ==
    \A w \in WatchNo :
        spc[w] = "held" /\ (IsRevoked(WatchId(w)) \/ ~ IsHeld(Dir)) ~> ~ Live(w)
=============================================================================

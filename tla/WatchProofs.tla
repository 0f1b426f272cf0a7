----------------------------- MODULE WatchProofs ----------------------------
(***************************************************************************)
(* That a withdrawal which has returned leaves no watch behind, for every  *)
(* number of watches and waiting tasks.  A watch is in one of three places *)
(* when the sweep looks through the store: in it, and its grant descends   *)
(* from the directory; inserted but not yet recorded, and then the record  *)
(* is refused; or not inserted, and then it is refused as well, since the  *)
(* copy that `start` works on names the withdrawn root.                    *)
(*                                                                         *)
(* Then that no change of a directory that is not moved is lost, for which *)
(* the descriptors, the queue and the lists of watches have to agree, and  *)
(* that the waiting flag, the sleepers and the ends of the watches do.     *)
(***************************************************************************)

EXTENDS Watch, SequenceTheorems, FiniteSetTheorems, TLAPS

\* Entries have an end, and a watch that was inserted is stored from then on.
StoreOK ==
    /\ Stored \subseteq WatchNo
    /\ \A w \in Stored : "end" \in DOMAIN store[w]
    /\ DOMAIN spc = WatchNo
    /\ \A w \in WatchNo : spc[w] \in {"inserted", "held", "dropped"} => w \in Stored

\* What is being started descends from the directory, and so does what goes on.
FromDir ==
    /\ Recorded(Dir) => grants[Dir].root = Dir
    /\ \A w \in WatchNo :
          /\ spc[w] \in {"checked", "inserted"} => copy[w] # NoGrant /\ copy[w].root = Dir
          /\ spc[w] = "held" /\ Live(w)
               => Recorded(WatchId(w)) /\ grants[WatchId(w)].root = Dir

\* The sweep still has before it every watch that goes on.
Swept ==
    rpc = "sweep" /\ Dir \in revokedRoots
        => \A w \in WatchNo : spc[w] = "held" /\ Live(w) => w \in sweep

WithdrawInv == GrantsTypeOK /\ StoreOK /\ FromDir /\ Swept

\* A step that ends watches, or none, and revives none.
EndsKept ==
    /\ DOMAIN store' = DOMAIN store
    /\ \A w \in Stored : /\ "end" \in DOMAIN store'[w]
                         /\ store[w].end # "none" => store'[w].end # "none"

\* Watch handles are the handles of watches only.
LEMMA Handles ==
    /\ Dir \in GrantId
    /\ \A w \in WatchNo : WatchId(w) \in GrantId /\ WatchId(w) # Dir /\ w \in Client
    /\ \A v, w : WatchId(v) = WatchId(w) => v = w
<1>1. \A v, w : WatchId(v) = WatchId(w) => v = w
  BY DEF WatchId
<1>2. QED
  BY <1>1, WatchAssumption

\* end, for some of the watches.
LEMMA EndAllEnds ==
    ASSUME StoreOK, NEW S, NEW why, why # "none", EndAll(S, why)
    PROVE  EndsKept /\ \A w \in S \intersect Stored : store'[w].end # "none"
<1>1. \A w \in Stored : store'[w] = IF w \in S /\ store[w].end = "none"
                                     THEN [store[w] EXCEPT !.end = why, !.got = NoneGathered]
                                     ELSE store[w]
  BY DEF EndAll, Stored
<1>2. DOMAIN store' = DOMAIN store
  BY DEF EndAll, Stored
<1>3. \A w \in Stored : w \in S /\ store[w].end = "none" =>
         store'[w].end = why /\ "end" \in DOMAIN store'[w]
  BY <1>1 DEF StoreOK
<1>4. QED
  BY <1>1, <1>2, <1>3 DEF EndsKept, StoreOK

\* end_if_withdrawn.
LEMMA EndIfWithdrawnEnds ==
    ASSUME StoreOK, NEW w, EndIfWithdrawn(w)
    PROVE  EndsKept /\ (w \in Stored /\ IsRevoked(WatchId(w)) => store'[w].end # "none")
<1>1. CASE WhyWithdrawn(w) = "none"
  BY <1>1 DEF EndIfWithdrawn, EndsKept, StoreOK, Stored, WhyWithdrawn
<1>2. CASE WhyWithdrawn(w) # "none"
  BY <1>2, EndAllEnds DEF EndIfWithdrawn
<1>3. QED
  BY <1>1, <1>2

\* Most steps only end watches: the registry, the sweep and the starts are left.
LEMMA QuietKeeps ==
    ASSUME WithdrawInv, EndsKept, UNCHANGED <<grantVars, spc, rpc, sweep>>
    PROVE  WithdrawInv'
<1> USE DEF WithdrawInv
<1>1. GrantsTypeOK'
  BY DEF GrantsTypeOK, grantVars, registryVars
<1>2. \A w : Live(w)' => Live(w)
  BY DEF Live, EndsKept, Stored
<1>3. StoreOK'
  BY DEF StoreOK, EndsKept, Stored
<1>4. FromDir'
  BY <1>2 DEF FromDir, grantVars, registryVars, Recorded
<1>5. Swept'
  BY <1>2 DEF Swept, grantVars, registryVars
<1>6. QED
  BY <1>1, <1>3, <1>4, <1>5

\* The loop of `next` changes what was gathered and the waiting flag.
LEMMA LoopKeeps ==
    ASSUME StoreOK, NEW t, NEW w \in Stored, Loop(t, w)
    PROVE  EndsKept
BY DEF Loop, EndsKept, StoreOK, Stored

\* read, deliver, the notifier's sweep and the clock end watches, and start none.
LEMMA NotifierKeeps ==
    ASSUME WithdrawInv, NotifierStep \/ Elapse
    PROVE  WithdrawInv'
<1> USE DEF WithdrawInv
<1>1. CASE Read
  BY <1>1, QuietKeeps DEF Read, EndsKept, StoreOK, Stored
<1>2. CASE Told
  BY <1>2, QuietKeeps DEF Told, EndsKept, StoreOK, Stored
<1>3. CASE Poll
  <2>1. EndsKept
    BY <1>3 DEF Poll, EndsKept, StoreOK, Stored, Live
  <2>2. QED
    BY <1>3, <2>1, QuietKeeps DEF Poll
<1>4. ASSUME NEW w \in WatchNo, Tell(w) PROVE WithdrawInv'
  <2>1. EndsKept
    <3>1. CASE EndAll({w}, "gone")
      BY <3>1, EndAllEnds
    <3>2. CASE UNCHANGED store
      BY <3>2 DEF EndsKept, StoreOK, Stored
    <3>3. CASE /\ Live(w)
               /\ store' = [store EXCEPT ![w].got = Gather(@, store[w].target, event)]
      BY <3>3 DEF EndsKept, StoreOK, Stored, Live
    <3>4. QED
      BY <1>4, <3>1, <3>2, <3>3 DEF Tell
  <2>2. QED
    BY <1>4, <2>1, QuietKeeps DEF Tell
<1>5. CASE Elapse
  <2>1. EndsKept
    BY <1>5 DEF Elapse, EndsKept, StoreOK, Stored, Live
  <2>2. QED
    BY <1>5, <2>1, QuietKeeps DEF Elapse
<1>6. QED
  BY <1>1, <1>2, <1>3, <1>4, <1>5 DEF NotifierStep

\* A task waits at a watch whose handle was given out.
WaitersHeld ==
    /\ DOMAIN wait = Waiter
    /\ \A t \in Waiter : wait[t].at # "idle" =>
          wait[t].watch \in WatchNo /\ spc[wait[t].watch] \in {"held", "dropped"}

\* next: its call, its loop and the end of its task leave the registry alone.
LEMMA WaiterKeeps ==
    ASSUME WithdrawInv, WaitersHeld, NEW t \in Waiter,
           WaiterStep(t) \/ TaskEnd(t) \/ \E w \in WatchNo : NextCall(t, w)
    PROVE  WithdrawInv'
<1> USE DEF WithdrawInv
<1>1. CASE NextEnter(t)
  <2>1. wait[t].watch \in Stored
    BY <1>1 DEF NextEnter, WaitersHeld, StoreOK
  <2>2. EndsKept
    BY <1>1, <2>1, LoopKeeps DEF NextEnter, EndsKept, StoreOK, Stored
  <2>3. QED
    BY <1>1, <2>2, QuietKeeps DEF NextEnter
<1>2. CASE NextWake(t)
  <2>1. wait[t].watch \in Stored
    BY <1>2 DEF NextWake, WaitersHeld, StoreOK
  <2>2. EndsKept
    BY <1>2, <2>1, LoopKeeps DEF NextWake
  <2>3. QED
    BY <1>2, <2>2, QuietKeeps DEF NextWake
<1>3. CASE TaskHook(t)
  BY <1>3, QuietKeeps DEF TaskHook, EndsKept, StoreOK, Stored
<1>4. CASE TaskEnd(t)
  BY <1>4, QuietKeeps DEF TaskEnd, EndsKept, StoreOK, Stored
<1>5. ASSUME NEW w \in WatchNo, NextCall(t, w) PROVE WithdrawInv'
  BY <1>5, EndIfWithdrawnEnds, QuietKeeps DEF NextCall
<1>6. QED
  BY <1>1, <1>2, <1>3, <1>4, <1>5 DEF WaiterStep

\* A change, the end of the directory, or a cancel ends watches, and starts none.
LEMMA DirectoryKeeps ==
    ASSUME WithdrawInv,
           \/ \E ch \in Changes : Touch(ch[1], ch[2])
           \/ \E moved \in BOOLEAN : Vanish(moved)
           \/ \E w \in WatchNo : Cancel(w)
    PROVE  WithdrawInv'
<1> USE DEF WithdrawInv
<1>1. ASSUME NEW ch \in Changes, Touch(ch[1], ch[2]) PROVE WithdrawInv'
  BY <1>1, QuietKeeps DEF Touch, EndsKept, StoreOK, Stored
<1>2. ASSUME NEW moved \in BOOLEAN, Vanish(moved) PROVE WithdrawInv'
  BY <1>2, QuietKeeps DEF Vanish, EndsKept, StoreOK, Stored
<1>3. ASSUME NEW w \in WatchNo, Cancel(w) PROVE WithdrawInv'
  BY <1>3, EndAllEnds, QuietKeeps DEF Cancel
<1>4. QED
  BY <1>1, <1>2, <1>3

-----------------------------------------------------------------------------
(* start and the release of handles.                                       *)

\* start accepts the directory only while it is not withdrawn.
LEMMA StartCheckKeeps ==
    ASSUME WithdrawInv, NEW w \in WatchNo, StartCheck(w)
    PROVE  WithdrawInv'
<1> USE DEF WithdrawInv
<1>1. /\ Recorded(Dir) /\ copy' = [copy EXCEPT ![w] = grants[Dir]]
      /\ spc' = [spc EXCEPT ![w] = "checked"]
      /\ UNCHANGED <<registryVars, issued, store, rpc, sweep>>
  BY DEF StartCheck, Accepted
<1>2. GrantsTypeOK'
  BY <1>1, Handles DEF GrantsTypeOK, registryVars
<1>3. StoreOK'
  BY <1>1 DEF StoreOK, Stored
<1>4. \A v \in WatchNo : /\ spc'[v] = IF v = w THEN "checked" ELSE spc[v]
                         /\ copy'[v] = IF v = w THEN grants[Dir] ELSE copy[v]
  BY <1>1, Handles DEF StoreOK, GrantsTypeOK
<1>5. FromDir'
  BY <1>1, <1>4 DEF FromDir, registryVars, Recorded, Live, Stored
<1>6. Swept'
  BY <1>1, <1>4 DEF Swept, registryVars, Live, Stored
<1>7. QED
  BY <1>2, <1>3, <1>5, <1>6

\* The entry is in the store, but its handle is not out yet.
LEMMA StartInsertKeeps ==
    ASSUME WithdrawInv, NEW w \in WatchNo, StartInsert(w)
    PROVE  WithdrawInv'
<1> USE DEF WithdrawInv
<1>1. /\ spc[w] = "checked" /\ UNCHANGED <<grantVars, rpc, sweep>>
      /\ \/ spc' = [spc EXCEPT ![w] = "refused"] /\ UNCHANGED store
         \/ /\ spc' = [spc EXCEPT ![w] = "inserted"]
            /\ \E d : store' = [v \in Stored \union {w} |->
                                  IF v # w THEN store[v]
                                  ELSE [target |-> TargetOf[w], desc |-> d, end |-> "none",
                                        waiting |-> FALSE, got |-> NoneGathered]]
  BY DEF StartInsert
<1>2. \A v \in WatchNo : v # w => spc'[v] = spc[v]
  BY <1>1 DEF StoreOK
<1>3. spc'[w] \in {"refused", "inserted"}
  BY <1>1 DEF StoreOK
<1>4. \A v \in WatchNo \ {w} : Live(v)' <=> Live(v)
  BY <1>1 DEF Live, Stored
<1>5. GrantsTypeOK'
  BY <1>1 DEF GrantsTypeOK, grantVars, registryVars
<1>6. StoreOK'
  BY <1>1, <1>2 DEF StoreOK, Stored
<1>7. FromDir'
  BY <1>1, <1>2, <1>3, <1>4 DEF FromDir, grantVars, registryVars, Recorded
<1>8. Swept'
  BY <1>1, <1>2, <1>3, <1>4 DEF Swept, grantVars, registryVars
<1>9. QED
  BY <1>5, <1>6, <1>7, <1>8

\* The record is refused exactly when the directory has been withdrawn.
LEMMA StartRecordKeeps ==
    ASSUME WithdrawInv, NEW w \in WatchNo, StartRecord(w)
    PROVE  WithdrawInv'
<1> USE DEF WithdrawInv
<1> DEFINE new == [copy[w] EXCEPT !.id = WatchId(w), !.rights = {"read"},
                                  !.parent = copy[w].id, !.revoked = FALSE]
<1>1. /\ spc[w] = "inserted" /\ spc' = [spc EXCEPT ![w] = "held"]
      /\ copy' = [copy EXCEPT ![w] = NoGrant] /\ issued' = issued \union {WatchId(w)}
      /\ UNCHANGED <<revokedRoots, withdrawn, rpc, sweep>>
      /\ IF MayDerive(copy[w]) THEN UNCHANGED store ELSE EndAll({w}, "revoked")
      /\ grants' = IF MayDerive(copy[w]) THEN [grants EXCEPT ![WatchId(w)] = new] ELSE grants
  BY DEF StartRecord, RecordDescendant
<1>2. copy[w] \in Grant /\ copy[w].root = Dir /\ w \in Stored
  BY <1>1, Handles DEF FromDir, GrantsTypeOK, StoreOK
<1>3. new \in Grant /\ new.root = Dir
  BY <1>2, Handles DEF Grant, Right
<1>4. new # NoGrant
  BY <1>3, NoGrantAssumption
<1> HIDE DEF new
<1>5. EndsKept /\ (~ MayDerive(copy[w]) => store'[w].end # "none")
  BY <1>1, <1>2, EndAllEnds DEF EndsKept, StoreOK, Stored
<1>6. \A v \in WatchNo : /\ Live(v)' => Live(v)
                         /\ v # w => spc'[v] = spc[v] /\ copy'[v] = copy[v]
                         /\ spc'[w] = "held"
  BY <1>1, <1>5, Handles DEF Live, EndsKept, Stored, StoreOK, GrantsTypeOK
<1>7. GrantsTypeOK'
  BY <1>1, <1>3, Handles DEF GrantsTypeOK
<1>8. StoreOK'
  BY <1>1, <1>2, <1>5, <1>6 DEF StoreOK, EndsKept, Stored
<1>9. /\ Live(w)' => grants'[WatchId(w)] = new
      /\ \A id \in GrantId \ {WatchId(w)} : grants'[id] = grants[id]
  BY <1>1, <1>5, Handles DEF Live, GrantsTypeOK
<1>10. FromDir'
  <2>1. Recorded(Dir)' => grants'[Dir].root = Dir
    BY <1>9, Handles DEF FromDir, Recorded
  <2>2. ASSUME NEW v \in WatchNo, spc'[v] \in {"checked", "inserted"}
        PROVE  copy'[v] # NoGrant /\ copy'[v].root = Dir
    BY <1>6, <2>2 DEF FromDir
  <2>3. ASSUME NEW v \in WatchNo, spc'[v] = "held", Live(v)'
        PROVE  Recorded(WatchId(v))' /\ grants'[WatchId(v)].root = Dir
    <3>1. CASE v = w
      BY <1>3, <1>4, <1>9, <2>3, <3>1 DEF Recorded
    <3>2. CASE v # w
      BY <1>6, <1>9, <2>3, <3>2, Handles DEF FromDir, Recorded
    <3>3. QED
      BY <3>1, <3>2
  <2>4. QED
    BY <2>1, <2>2, <2>3 DEF FromDir
<1>11. Swept'
  BY <1>1, <1>2, <1>5, <1>6 DEF Swept, Live, MayDerive
<1>12. QED
  BY <1>7, <1>8, <1>10, <1>11

\* route_dealloc: the dropped watch counts as ended, and its grant goes.
LEMMA DeallocKeeps ==
    ASSUME WithdrawInv, NEW w \in WatchNo, Dealloc(w)
    PROVE  WithdrawInv'
<1> USE DEF WithdrawInv
<1>1. /\ spc[w] = "held" /\ spc' = [spc EXCEPT ![w] = "dropped"] /\ store' = Dropped(w)
      /\ grants' = [grants EXCEPT ![WatchId(w)] = NoGrant]
      /\ UNCHANGED <<revokedRoots, withdrawn, issued, copy, rpc, sweep>>
  BY DEF Dealloc, Release
<1>2. EndsKept
  BY <1>1 DEF Dropped, EndsKept, StoreOK, Stored
<1>3. \A v \in WatchNo : /\ Live(v)' => Live(v)
                         /\ v # w => spc'[v] = spc[v]
                         /\ spc'[w] = "dropped"
  BY <1>1, <1>2 DEF Live, EndsKept, Stored, StoreOK
<1>4. GrantsTypeOK'
  BY <1>1, Handles DEF GrantsTypeOK
<1>5. StoreOK'
  BY <1>1, <1>2, <1>3 DEF StoreOK, EndsKept, Stored
<1>6. \A id \in GrantId \ {WatchId(w)} : grants'[id] = grants[id]
  BY <1>1 DEF GrantsTypeOK
<1>7. FromDir'
  BY <1>1, <1>3, <1>6, Handles DEF FromDir, Recorded
<1>8. Swept'
  BY <1>1, <1>3 DEF Swept
<1>9. QED
  BY <1>4, <1>5, <1>7, <1>8

\* release of the directory: what descends from it keeps its root.
LEMMA ReleaseDirKeeps ==
    ASSUME WithdrawInv, ReleaseDir
    PROVE  WithdrawInv'
<1> USE DEF WithdrawInv
<1>1. /\ grants' = [grants EXCEPT ![Dir] = NoGrant]
      /\ UNCHANGED <<revokedRoots, withdrawn, issued, copy, store, spc, rpc, sweep>>
  BY DEF ReleaseDir, Release, watchState
<1>2. GrantsTypeOK'
  BY <1>1 DEF GrantsTypeOK
<1>3. StoreOK'
  BY <1>1 DEF StoreOK, Stored
<1>4. FromDir'
  BY <1>1, Handles DEF FromDir, Recorded, Live, Stored, GrantsTypeOK
<1>5. Swept'
  BY <1>1 DEF Swept, Live, Stored
<1>6. QED
  BY <1>2, <1>3, <1>4, <1>5

-----------------------------------------------------------------------------
(* The withdrawal.                                                         *)

\* revoke, its critical section: every record of the directory is flagged.
LEMMA RevokeDirKeeps ==
    ASSUME WithdrawInv, RevokeDir
    PROVE  WithdrawInv'
<1> USE DEF WithdrawInv
<1>1. /\ Recorded(Dir) /\ rpc' = "revoked" /\ grants' = Flagged({grants[Dir].root})
      /\ revokedRoots' = revokedRoots \union {grants[Dir].root}
      /\ withdrawn' \in {withdrawn, withdrawn \union {grants[Dir].root}}
      /\ UNCHANGED <<issued, copy, store, spc, sweep>>
  BY DEF RevokeDir, Revoke
<1>2. grants[Dir].root \in GrantId
  BY <1>1, Handles DEF FromDir
<1>3. \A i \in GrantId : Recorded(i) =>
         /\ grants[i] \in Grant /\ grants'[i] \in Grant
         /\ grants'[i].root = grants[i].root
  BY <1>1 DEF GrantsTypeOK, Recorded, Flagged, Grant
<1>4. \A i \in GrantId : Recorded(i)' <=> Recorded(i)
  BY <1>1, <1>3, NoGrantAssumption DEF Flagged, Recorded
<1>5. GrantsTypeOK'
  <2>1. \A i \in GrantId : grants'[i] \in Grant \union {NoGrant}
    BY <1>3, <1>4 DEF Recorded
  <2>2. grants' \in [GrantId -> Grant \union {NoGrant}]
    BY <1>1, <2>1 DEF Flagged
  <2>3. QED
    BY <1>1, <1>2, <2>2 DEF GrantsTypeOK
<1>6. StoreOK'
  BY <1>1 DEF StoreOK, Stored
<1>7. FromDir'
  BY <1>1, <1>3, <1>4, Handles DEF FromDir, Live, Stored
<1>8. Swept'
  BY <1>1 DEF Swept
<1>9. QED
  BY <1>5, <1>6, <1>7, <1>8

\* end_withdrawn takes its list of watches after the registry's section.
LEMMA RevokeSweepKeeps ==
    ASSUME WithdrawInv, RevokeSweep
    PROVE  WithdrawInv'
<1> USE DEF WithdrawInv
<1>1. sweep' = InStore /\ UNCHANGED <<grantVars, store, spc>>
  BY DEF RevokeSweep
<1>2. GrantsTypeOK' /\ StoreOK' /\ FromDir'
  BY <1>1 DEF GrantsTypeOK, StoreOK, FromDir, grantVars, registryVars, Stored, Recorded,
              Live
<1>3. Swept'
  BY <1>1 DEF Swept, InStore, StoreOK, Live, Stored
<1>4. QED
  BY <1>2, <1>3

\* The watch the sweep comes to ends, if it goes on and its handle is out.
LEMMA WithdrawKeeps ==
    ASSUME WithdrawInv, NEW w \in WatchNo, Withdraw(w)
    PROVE  WithdrawInv'
<1> USE DEF WithdrawInv
<1>1. /\ sweep' = sweep \ {w} /\ EndIfWithdrawn(w)
      /\ UNCHANGED <<grantVars, spc, rpc>>
  BY DEF Withdraw
<1>2. EndsKept /\ (w \in Stored /\ IsRevoked(WatchId(w)) => store'[w].end # "none")
  BY <1>1, EndIfWithdrawnEnds
<1>3. \A v : Live(v)' => Live(v)
  BY <1>2 DEF Live, EndsKept, Stored
<1>4. GrantsTypeOK' /\ StoreOK'
  BY <1>1, <1>2 DEF GrantsTypeOK, StoreOK, EndsKept, grantVars, registryVars, Stored
<1>5. FromDir'
  BY <1>1, <1>3 DEF FromDir, grantVars, registryVars, Recorded
<1>6. Swept'
  <2> SUFFICES ASSUME rpc = "sweep", Dir \in revokedRoots,
                      NEW v \in WatchNo, spc[v] = "held", Live(v)'
               PROVE  v \in sweep'
    BY <1>1 DEF Swept, grantVars, registryVars
  <2>1. v \in sweep
    BY <1>3 DEF Swept
  <2>2. v # w
    <3>1. IsRevoked(WatchId(v))
      BY <1>3 DEF FromDir, IsRevoked
    <3>2. QED
      BY <1>2, <1>3, <3>1 DEF Live, Stored
  <2>3. QED
    BY <1>1, <2>1, <2>2
<1>7. QED
  BY <1>4, <1>5, <1>6

-----------------------------------------------------------------------------

\* next waits only at a watch it found, and a stored watch stays in the model.
LEMMA WaitersKeep ==
    ASSUME StoreOK, WaitersHeld, [WatchNext]_watchVars
    PROVE  WaitersHeld'
<1>1. CASE UNCHANGED <<spc, wait>>
  BY <1>1 DEF WaitersHeld
<1>2. ASSUME NEW w \in WatchNo,
             StartCheck(w) \/ StartInsert(w) \/ StartRecord(w) \/ Dealloc(w)
      PROVE  WaitersHeld'
  <2>1. /\ UNCHANGED wait
        /\ \E s : spc' = [spc EXCEPT ![w] = s]
                  /\ (spc[w] \in {"held", "dropped"} => s = "dropped")
    BY <1>2 DEF StartCheck, StartInsert, StartRecord, Dealloc, waits
  <2>2. QED
    BY <2>1 DEF WaitersHeld, StoreOK
<1>3. ASSUME NEW t \in Waiter, NEW w \in WatchNo, NextCall(t, w) PROVE WaitersHeld'
  BY <1>3 DEF NextCall, WaitersHeld
<1>4. ASSUME NEW t \in Waiter, NextEnter(t) \/ NextWake(t) PROVE WaitersHeld'
  <2>1. /\ UNCHANGED spc /\ wait[t].at # "idle"
        /\ wait' \in {[wait EXCEPT ![t].at = "asleep"],
                      [wait EXCEPT ![t] = [at |-> "idle", watch |-> 0]]}
    BY <1>4 DEF NextEnter, NextWake, Loop
  <2>2. CASE wait' = [wait EXCEPT ![t].at = "asleep"]
    <3>1. \A u \in Waiter : u # t => wait'[u] = wait[u]
      BY <2>2 DEF WaitersHeld
    <3>2. wait'[t] = [wait[t] EXCEPT !.at = "asleep"]
      BY <2>2 DEF WaitersHeld
    <3>3. wait'[t].watch = wait[t].watch
      BY <3>2 DEF WaitersHeld
    <3>4. QED
      BY <2>1, <2>2, <3>1, <3>3 DEF WaitersHeld
  <2>3. CASE wait' = [wait EXCEPT ![t] = [at |-> "idle", watch |-> 0]]
    BY <2>1, <2>3 DEF WaitersHeld
  <2>4. QED
    BY <2>1, <2>2, <2>3
<1>5. QED
  BY <1>1, <1>2, <1>3, <1>4
     DEF WatchNext, NotifierStep, RevokerStep, WaiterStep, watchVars, watchState, waits,
         Touch, Vanish, Elapse, ReleaseDir, RevokeDir, Read, Told, Poll, Tell, RevokeSweep,
         Withdraw, Cancel, TaskEnd, TaskHook

\* At the start nothing is watched.
LEMMA InitialWatch == WatchInit => WithdrawInv /\ WaitersHeld
<1> SUFFICES ASSUME WatchInit PROVE WithdrawInv /\ WaitersHeld
  OBVIOUS
<1>1. [id |-> Dir, rights |-> Right, origin |-> "chosen", lifetime |-> "session",
       parent |-> NoGrant, root |-> Dir, revoked |-> FALSE] \in Grant
  BY Handles DEF Grant, Right, Origin, Lifetime
<1>2. GrantsTypeOK
  BY <1>1, Handles DEF WatchInit, GrantsTypeOK
<1>3. StoreOK /\ FromDir /\ Swept /\ WaitersHeld
  BY Handles DEF WatchInit, StoreOK, FromDir, Swept, WaitersHeld, Stored, Recorded, Live
<1>4. QED
  BY <1>2, <1>3 DEF WithdrawInv

\* Every step of the notifier, of a withdrawal, of a start, of a wait and of the
\* application keeps what WithdrawnAtOnce rests on.
THEOREM Inductive == WatchSpec => [](WithdrawInv /\ WaitersHeld)
<1>1. WithdrawInv /\ WaitersHeld /\ [WatchNext]_watchVars => WithdrawInv' /\ WaitersHeld'
  <2> SUFFICES ASSUME WithdrawInv, WaitersHeld, [WatchNext]_watchVars
               PROVE  WithdrawInv' /\ WaitersHeld'
    OBVIOUS
  <2>1. WaitersHeld'
    BY WaitersKeep DEF WithdrawInv
  <2>2. WithdrawInv'
    <3>1. CASE UNCHANGED watchVars
      BY <3>1, QuietKeeps DEF watchVars, watchState, EndsKept, WithdrawInv, StoreOK, Stored
    <3>2. CASE WatchNext
      BY <3>2, NotifierKeeps, WaiterKeeps, DirectoryKeeps, StartCheckKeeps, StartInsertKeeps,
         StartRecordKeeps, DeallocKeeps, ReleaseDirKeeps, RevokeDirKeeps, RevokeSweepKeeps,
         WithdrawKeeps
         DEF WatchNext, RevokerStep
    <3>3. QED
      BY <3>1, <3>2
  <2>3. QED
    BY <2>1, <2>2
<1>2. QED
  BY <1>1, InitialWatch, PTL DEF WatchSpec

\* revoke and start: when a withdrawal has returned, no watch that the
\* application holds goes on, also not one that was being started meanwhile.
THEOREM WithdrawnAtOnceHolds == WatchSpec => []WithdrawnAtOnce
<1>1. WithdrawInv => WithdrawnAtOnce
  BY DEF WithdrawInv, Swept, WithdrawnAtOnce
<1>2. QED
  BY <1>1, Inductive, PTL

-----------------------------------------------------------------------------
(* That no change is lost.  A live watch is in the list of its descriptor, *)
(* until an event that its directory is gone has reached it; descriptors   *)
(* are not handed out twice, so such an event never reaches a watch that   *)
(* was started later.                                                      *)

Mask == {"name", "written", "overflow", "gone"}
Event == [desc : 0 .. MaxWd, child : Name, mask : Mask]
WhyEnd == {"gone", "revoked", "canceled"}
Entry == [target : {"directory", "database"}, desc : 0 .. MaxWd,
          end : {"none"} \union WhyEnd, waiting : BOOLEAN, got : Gathered]
StartPC == {"idle", "checked", "refused", "inserted", "held", "dropped"}

EntriesOK ==
    /\ Stored \subseteq WatchNo /\ store \in [Stored -> Entry]
    /\ spc \in [WatchNo -> StartPC]
    /\ \A w \in WatchNo : spc[w] \in {"inserted", "held", "dropped"} <=> w \in Stored

\* A step that keeps the entries, and of those that go on the directory.
StoreStep ==
    /\ Stored' = Stored /\ store' \in [Stored -> Entry]
    /\ \A w \in Stored : store'[w].end = "none" =>
          /\ store[w].end = "none" /\ store'[w].desc = store[w].desc
          /\ store'[w].target = store[w].target
    /\ \A w \in Stored : spc'[w] # "dropped" => store'[w].desc = store[w].desc

\* What was gathered of a watch that goes on stays gathered.
GatheredKept ==
    \A w \in Stored : store'[w].end = "none" =>
        /\ store[w].got.names \subseteq store'[w].got.names
        /\ store[w].got.overflowed => store'[w].got.overflowed

\* The bounds are numbers.
LEMMA Bounds ==
    /\ Settle \in Nat /\ SettleLimit \in Nat /\ MaxNames \in Nat /\ MaxQueue \in Nat
    /\ MaxWd \in Nat
BY WatchAssumption

\* Nothing gathered is a state of what a watch gathers.
LEMMA NoneTyped ==
    /\ NoneGathered \in Gathered /\ NoneGathered.names = {} /\ NoneGathered.first = -1
    /\ NoneGathered.overflowed = FALSE
BY Bounds DEF NoneGathered, Gathered, Limit, Quiet

\* An entry that ends is an entry that has ended.
LEMMA EntryEnds ==
    ASSUME NEW x \in Entry, NEW why \in WhyEnd
    PROVE  LET y == [x EXCEPT !.end = why, !.got = NoneGathered]
           IN  /\ y \in Entry /\ y.end = why /\ y.got = NoneGathered
               /\ y.desc = x.desc /\ y.waiting = x.waiting
BY NoneTyped DEF Entry

\* Only what is named of an entry changes.
SameWatch(x, y) == y.end = x.end /\ y.desc = x.desc /\ y.target = x.target

\* An entry that has gathered something else is the entry of the same watch.
LEMMA EntryGathers ==
    ASSUME NEW x \in Entry, NEW g \in Gathered
    PROVE  LET y == [x EXCEPT !.got = g]
           IN  y \in Entry /\ y.got = g /\ SameWatch(x, y) /\ y.waiting = x.waiting
BY DEF Entry, SameWatch

\* So is one that a task waits at.
LEMMA EntryWaits ==
    ASSUME NEW x \in Entry, NEW b \in BOOLEAN
    PROVE  LET y == [x EXCEPT !.waiting = b]
           IN  y \in Entry /\ y.waiting = b /\ SameWatch(x, y) /\ y.got = x.got
BY DEF Entry, SameWatch

\* And one whose changes are reported to the task.
LEMMA EntryReports ==
    ASSUME NEW x \in Entry
    PROVE  LET y == [x EXCEPT !.waiting = FALSE, !.got = NoneGathered]
           IN  y \in Entry /\ y.got = NoneGathered /\ SameWatch(x, y) /\ y.waiting = FALSE
BY NoneTyped DEF Entry, SameWatch

\* end, for some of the watches.
LEMMA EndAllStep ==
    ASSUME EntriesOK, NEW S, NEW why \in WhyEnd, EndAll(S, why)
    PROVE  StoreStep /\ GatheredKept
<1>1. \A w \in Stored : store'[w] = IF w \in S /\ store[w].end = "none"
                                     THEN [store[w] EXCEPT !.end = why, !.got = NoneGathered]
                                     ELSE store[w]
  BY DEF EndAll
<1>2. DOMAIN store' = Stored /\ store' = [w \in Stored |-> store'[w]]
  BY DEF EndAll
<1>3. \A w \in Stored : store[w] \in Entry
  BY DEF EntriesOK
<1>4. \A w \in Stored : w \in S /\ store[w].end = "none" =>
         store'[w] \in Entry /\ store'[w].end # "none" /\ store'[w].desc = store[w].desc
  <2> SUFFICES ASSUME NEW w \in Stored, w \in S, store[w].end = "none"
               PROVE  /\ store'[w] \in Entry /\ store'[w].end # "none"
                      /\ store'[w].desc = store[w].desc
    OBVIOUS
  <2>1. store'[w] = [store[w] EXCEPT !.end = why, !.got = NoneGathered]
    BY <1>1
  <2>2. store[w] \in Entry /\ NoneGathered \in Gathered
    BY <1>3, NoneTyped
  <2>3. store'[w] \in Entry /\ store'[w].end = why /\ store'[w].desc = store[w].desc
    <3> DEFINE x == store[w]
    <3>1. x \in Entry
      BY <2>2
    <3>2. /\ [x EXCEPT !.end = why, !.got = NoneGathered] \in Entry
          /\ [x EXCEPT !.end = why, !.got = NoneGathered].end = why
          /\ [x EXCEPT !.end = why, !.got = NoneGathered].desc = x.desc
      <4> HIDE DEF x
      <4> QED
        BY <3>1, EntryEnds
    <3> QED
      BY <2>1, <3>2
  <2> QED
    BY <2>3 DEF WhyEnd
<1>5. \A w \in Stored : /\ store'[w] \in Entry /\ store'[w].desc = store[w].desc
                        /\ store'[w].end = "none" => store'[w] = store[w]
  BY <1>1, <1>3, <1>4
<1> QED
  BY <1>2, <1>5 DEF StoreStep, GatheredKept, Stored

\* Nothing is stored anew.
LEMMA SameStore ==
    ASSUME EntriesOK, UNCHANGED store
    PROVE  StoreStep /\ GatheredKept
BY DEF EntriesOK, StoreStep, GatheredKept, Stored

\* end_if_withdrawn.
LEMMA EndIfWithdrawnStep ==
    ASSUME EntriesOK, NEW w, EndIfWithdrawn(w)
    PROVE  StoreStep /\ GatheredKept
BY EndAllStep, SameStore DEF EndIfWithdrawn, WhyWithdrawn, WhyEnd

\* Target::effect names children of the directory.
LEMMA EffectNames ==
    ASSUME NEW target, NEW child \in Name, NEW mask
    PROVE  Effect(target, child, mask) \subseteq Name
BY DEF Effect, Name

\* deliver: what an event adds, and that what it does not add it counts as lost.
LEMMA GatherAdds ==
    ASSUME NEW got \in Gathered, NEW target, NEW e \in Event
    PROVE  LET g == Gather(got, target, e)
               told == Effect(target, e.child, e.mask)
           IN  /\ g \in Gathered
               /\ got.names \subseteq g.names /\ (got.overflowed => g.overflowed)
               /\ IF e = Overflow THEN g.overflowed ELSE g.overflowed \/ told \subseteq g.names
               /\ g.first # -1
               /\ e = Overflow \/ told # {} => g.names # {} \/ g.overflowed
<1> DEFINE told == Effect(target, e.child, e.mask)
           fits == Cardinality(got.names) < MaxNames
           names == IF fits THEN got.names \union told ELSE got.names
           first == IF got.first = -1 THEN 0 ELSE got.first
<1>1. told \subseteq Name
  BY EffectNames DEF Event
<1>2. /\ first \in -1 .. Limit /\ first # -1 /\ 0 \in -1 .. Quiet
      /\ got.names \subseteq Name /\ got.overflowed \in BOOLEAN
  BY Bounds DEF Gathered, Limit, Quiet
<1> HIDE DEF first
<1>3. CASE e = Overflow
  <2>1. Gather(got, target, e) = [got EXCEPT !.overflowed = TRUE, !.first = first, !.last = 0]
    BY <1>3 DEF Gather, first, Gathered
  <2> QED
    BY <1>2, <1>3, <2>1 DEF Gathered
<1>4. CASE e # Overflow
  <2> DEFINE full == got.overflowed \/ ~ (fits \/ told \subseteq got.names)
  <2>1. Gather(got, target, e) = [got EXCEPT !.names = names, !.overflowed = full,
                                             !.first = first, !.last = 0]
    BY <1>4 DEF Gather, first, Gathered
  <2>2. /\ names \subseteq Name /\ got.names \subseteq names /\ full \in BOOLEAN
        /\ got.overflowed => full
        /\ full \/ told \subseteq names
        /\ told # {} => names # {} \/ full
    BY <1>1, <1>2
  <2> HIDE DEF full, names, told
  <2>3. LET g == Gather(got, target, e)
        IN  /\ g \in Gathered /\ g.names = names /\ g.overflowed = full /\ g.first = first
    BY <1>2, <2>1, <2>2 DEF Gathered
  <2> QED
    BY <1>2, <1>4, <2>2, <2>3 DEF told
<1> QED
  BY <1>3, <1>4

\* The disjuncts of the next-state relation, by name.
LEMMA WatchSteps ==
    ASSUME WatchNext
    PROVE  \/ \E ch \in Changes : Touch(ch[1], ch[2])
           \/ \E moved \in BOOLEAN : Vanish(moved)
           \/ Elapse \/ ReleaseDir \/ RevokeDir \/ Read \/ Told \/ Poll
           \/ \E w \in WatchNo : Tell(w)
           \/ RevokeSweep
           \/ \E w \in WatchNo : Withdraw(w)
           \/ \E w \in WatchNo : StartCheck(w)
           \/ \E w \in WatchNo : StartInsert(w)
           \/ \E w \in WatchNo : StartRecord(w)
           \/ \E w \in WatchNo : Cancel(w)
           \/ \E w \in WatchNo : Dealloc(w)
           \/ \E w \in WatchNo, t \in Waiter : NextCall(t, w)
           \/ \E t \in Waiter : NextEnter(t)
           \/ \E t \in Waiter : NextWake(t)
           \/ \E t \in Waiter : TaskHook(t)
           \/ \E t \in Waiter : TaskEnd(t)
BY DEF WatchNext, NotifierStep, RevokerStep, WaiterStep

\* The clock: a live watch's changes grow older.
LEMMA ElapseStep ==
    ASSUME EntriesOK, Elapse
    PROVE  StoreStep /\ GatheredKept
<1>1. ASSUME NEW w \in Stored
      PROVE  /\ store'[w] \in Entry /\ SameWatch(store[w], store'[w])
             /\ store'[w].got.names = store[w].got.names
             /\ store'[w].got.overflowed = store[w].got.overflowed
  <2>1. store[w] \in Entry /\ store[w].got \in Gathered
    BY DEF EntriesOK, Entry
  <2> DEFINE g == [store[w].got EXCEPT !.first = Older(@, Limit), !.last = Older(@, Quiet)]
  <2>2. \A bound \in Nat : \A age \in -1 .. bound : Older(age, bound) \in -1 .. bound
    BY DEF Older
  <2>3. /\ g \in Gathered /\ g.names = store[w].got.names
        /\ g.overflowed = store[w].got.overflowed
    BY <2>1, <2>2, Bounds DEF Gathered, Limit, Quiet
  <2>4. store'[w] \in {store[w], [store[w] EXCEPT !.got = g]}
    BY <2>1 DEF Elapse, Entry, Gathered
  <2> HIDE DEF g
  <2> QED
    <3>1. CASE store'[w] = store[w]
      BY <2>1, <3>1 DEF SameWatch
    <3>2. CASE store'[w] = [store[w] EXCEPT !.got = g]
      <4>1. store'[w] \in Entry /\ store'[w].got = g /\ SameWatch(store[w], store'[w])
        BY <2>1, <2>3, <3>2, EntryGathers
      <4> QED
        BY <2>3, <4>1
    <3> QED
      BY <2>4, <3>1, <3>2
<1>2. DOMAIN store' = Stored /\ store' = [w \in Stored |-> store'[w]]
  BY DEF Elapse
<1> QED
  BY <1>1, <1>2 DEF StoreStep, GatheredKept, SameWatch, Stored

\* deliver: a watch is told of an event.
LEMMA TellStep ==
    ASSUME EntriesOK, event \in Event, NEW w \in WatchNo, Tell(w)
    PROVE  StoreStep /\ GatheredKept
<1>1. CASE EndAll({w}, "gone")
  BY <1>1, EndAllStep DEF WhyEnd
<1>2. CASE UNCHANGED store
  BY <1>2, SameStore
<1>3. CASE Live(w) /\ store' = [store EXCEPT ![w].got = Gather(@, store[w].target, event)]
  <2> DEFINE g == Gather(store[w].got, store[w].target, event)
  <2>1. w \in Stored /\ store[w] \in Entry /\ store[w].got \in Gathered
    BY <1>3 DEF Live, EntriesOK, Entry
  <2>2. /\ g \in Gathered /\ store[w].got.names \subseteq g.names
        /\ store[w].got.overflowed => g.overflowed
    BY <2>1, GatherAdds
  <2>3. store' = [store EXCEPT ![w] = [store[w] EXCEPT !.got = g]]
    BY <1>3, <2>1 DEF EntriesOK
  <2> HIDE DEF g
  <2> QED
    BY <2>1, <2>2, <2>3, EntryGathers DEF StoreStep, GatheredKept, SameWatch, EntriesOK, Stored
<1> QED
  BY <1>1, <1>2, <1>3 DEF Tell

\* The notifier's sweep ends watches.
LEMMA PollStep ==
    ASSUME EntriesOK, Poll
    PROVE  StoreStep /\ GatheredKept
<1>1. ASSUME NEW w \in Stored
      PROVE  /\ store'[w] \in Entry /\ store'[w].desc = store[w].desc
             /\ store'[w].end = "none" => store'[w] = store[w]
  <2>1. store[w] \in Entry
    BY DEF EntriesOK
  <2>2. \/ store'[w] = store[w]
        \/ \E why \in WhyEnd : store'[w] = [store[w] EXCEPT !.end = why, !.got = NoneGathered]
    BY DEF Poll, WhyWithdrawn, WhyEnd
  <2>3. ASSUME NEW why \in WhyEnd,
               store'[w] = [store[w] EXCEPT !.end = why, !.got = NoneGathered]
        PROVE  /\ store'[w] \in Entry /\ store'[w].end # "none"
               /\ store'[w].desc = store[w].desc
    <3> DEFINE x == store[w]
    <3>1. x \in Entry
      BY <2>1
    <3>2. /\ [x EXCEPT !.end = why, !.got = NoneGathered] \in Entry
          /\ [x EXCEPT !.end = why, !.got = NoneGathered].end = why
          /\ [x EXCEPT !.end = why, !.got = NoneGathered].desc = x.desc
      <4> HIDE DEF x
      <4> QED
        BY <3>1, EntryEnds
    <3> QED
      BY <2>3, <3>2 DEF WhyEnd
  <2> QED
    BY <2>1, <2>2, <2>3
<1>2. DOMAIN store' = Stored /\ store' = [w \in Stored |-> store'[w]]
  BY DEF Poll
<1> QED
  BY <1>1, <1>2 DEF StoreStep, GatheredKept, Stored

\* The loop of next: the watch it is at is given a flag, or its changes reported.
LEMMA LoopStep ==
    ASSUME EntriesOK, NEW t, NEW w \in Stored, Loop(t, w)
    PROVE  /\ StoreStep
           /\ \A v \in Stored : v # w => store'[v] = store[v]
           /\ \/ store'[w].got = store[w].got /\ UNCHANGED unseen
              \/ unseen' = [unseen EXCEPT ![w] = IF store[w].got.overflowed THEN {}
                                                ELSE @ \ store[w].got.names]
<1>1. store[w] \in Entry
  BY DEF EntriesOK
<1>2. /\ \/ \E b \in BOOLEAN : store' = [store EXCEPT ![w] = [store[w] EXCEPT !.waiting = b]]
                               /\ UNCHANGED unseen
         \/ /\ store' = [store EXCEPT ![w] = [store[w] EXCEPT !.waiting = FALSE,
                                                             !.got = NoneGathered]]
            /\ unseen' = [unseen EXCEPT ![w] = IF store[w].got.overflowed THEN {}
                                              ELSE @ \ store[w].got.names]
  BY <1>1 DEF Loop, EntriesOK
<1>3. CASE \E b \in BOOLEAN : store' = [store EXCEPT ![w] = [store[w] EXCEPT !.waiting = b]]
                              /\ UNCHANGED unseen
  <2> PICK b \in BOOLEAN : store' = [store EXCEPT ![w] = [store[w] EXCEPT !.waiting = b]]
    BY <1>3
  <2> DEFINE y == [store[w] EXCEPT !.waiting = b]
  <2>1. y \in Entry /\ SameWatch(store[w], y) /\ y.got = store[w].got
    BY <1>1, EntryWaits
  <2>2. store' = [store EXCEPT ![w] = y]
    OBVIOUS
  <2> HIDE DEF y
  <2> QED
    BY <1>3, <2>1, <2>2 DEF StoreStep, SameWatch, EntriesOK, Stored
<1>4. CASE /\ store' = [store EXCEPT ![w] = [store[w] EXCEPT !.waiting = FALSE,
                                                            !.got = NoneGathered]]
           /\ unseen' = [unseen EXCEPT ![w] = IF store[w].got.overflowed THEN {}
                                             ELSE @ \ store[w].got.names]
  BY <1>1, <1>4, EntryReports DEF StoreStep, SameWatch, EntriesOK, Stored
<1> QED
  BY <1>2, <1>3, <1>4

-----------------------------------------------------------------------------
(* The entries of the store, step by step.                                 *)

\* What one step does to the store, but for a start and a drop, and what was
\* gathered is kept but by a wait that reports it.
LEMMA StoreSteps ==
    ASSUME EntriesOK, event \in Event, WaitersHeld, [WatchNext]_watchVars,
           \A w \in WatchNo : ~ StartInsert(w) /\ ~ Dealloc(w)
    PROVE  /\ StoreStep
           /\ (\A t \in Waiter : ~ NextEnter(t) /\ ~ NextWake(t)) => GatheredKept
<1>1. CASE UNCHANGED store
  BY <1>1, SameStore
<1>2. CASE \/ Elapse \/ Poll
           \/ \E w \in WatchNo : Tell(w) \/ Withdraw(w) \/ Cancel(w) \/ StartRecord(w)
           \/ \E w \in WatchNo, t \in Waiter : NextCall(t, w)
  <2>1. "revoked" \in WhyEnd /\ "canceled" \in WhyEnd
    BY DEF WhyEnd
  <2>2. ASSUME NEW w \in WatchNo, Withdraw(w) \/ Cancel(w) \/ StartRecord(w)
        PROVE  StoreStep /\ GatheredKept
    BY <2>1, <2>2, EndIfWithdrawnStep, EndAllStep, SameStore DEF Withdraw, Cancel, StartRecord
  <2>3. ASSUME NEW w \in WatchNo, NEW t \in Waiter, NextCall(t, w)
        PROVE  StoreStep /\ GatheredKept
    BY <2>3, EndIfWithdrawnStep DEF NextCall
  <2> QED
    BY <1>2, <2>2, <2>3, ElapseStep, PollStep, TellStep
<1>3. ASSUME NEW t \in Waiter, NextEnter(t) \/ NextWake(t) PROVE StoreStep
  <2>1. wait[t].watch \in Stored
    BY <1>3 DEF NextEnter, NextWake, WaitersHeld, EntriesOK
  <2>2. UNCHANGED store \/ Loop(t, wait[t].watch)
    BY <1>3 DEF NextEnter, NextWake
  <2> QED
    BY <2>1, <2>2, SameStore, LoopStep
<1>4. CASE ~ UNCHANGED store /\ WatchNext
  <2>1. \/ Elapse \/ Poll
        \/ \E w \in WatchNo : Tell(w) \/ Withdraw(w) \/ Cancel(w) \/ StartRecord(w)
        \/ \E w \in WatchNo, t \in Waiter : NextCall(t, w)
        \/ \E t \in Waiter : NextEnter(t) \/ NextWake(t)
    BY <1>4, WatchSteps
       DEF Touch, Vanish, ReleaseDir, RevokeDir, Read, Told, RevokeSweep, StartCheck, TaskHook,
           TaskEnd, watchState
  <2> QED
    BY <1>2, <1>3, <2>1
<1> QED
  BY <1>1, <1>4 DEF watchVars, watchState

\* start enters a watch that was not in the store, with nothing gathered.
LEMMA InsertStep ==
    ASSUME EntriesOK, nextWd \in 1 .. MaxWd + 1, wd \in 0 .. nextWd - 1,
           NEW w \in WatchNo, StartInsert(w), ~ UNCHANGED store
    PROVE  \E d \in 1 .. MaxWd :
              /\ d = IF wd # 0 THEN wd ELSE nextWd
              /\ wd' = d /\ nextWd' = (IF wd # 0 THEN nextWd ELSE nextWd + 1)
              /\ w \notin Stored /\ Stored' = Stored \union {w}
              /\ store' \in [Stored' -> Entry]
              /\ \A v \in Stored : store'[v] = store[v]
              /\ store'[w].end = "none" /\ store'[w].desc = d
              /\ store'[w].waiting = FALSE /\ store'[w].got = NoneGathered
              /\ byDesc' = [byDesc EXCEPT ![d] = @ \union {w}]
              /\ spc' = [spc EXCEPT ![w] = "inserted"]
<1> DEFINE d == IF wd # 0 THEN wd ELSE nextWd
           x == [target |-> TargetOf[w], desc |-> d, end |-> "none",
                 waiting |-> FALSE, got |-> NoneGathered]
<1>1. /\ spc[w] = "checked" /\ ~ (wd = 0 /\ nextWd > MaxWd)
      /\ wd' = d /\ nextWd' = (IF wd # 0 THEN nextWd ELSE nextWd + 1)
      /\ store' = [v \in Stored \union {w} |-> IF v # w THEN store[v] ELSE x]
      /\ byDesc' = [byDesc EXCEPT ![d] = @ \union {w}]
      /\ spc' = [spc EXCEPT ![w] = "inserted"]
  BY DEF StartInsert
<1>2. w \notin Stored
  BY <1>1 DEF EntriesOK
<1>3. d \in 1 .. MaxWd
  BY <1>1, Bounds
<1>4. x \in Entry
  BY <1>3, NoneTyped, WatchAssumption, Bounds DEF Entry
<1>5. x.end = "none" /\ x.desc = d /\ x.waiting = FALSE /\ x.got = NoneGathered
  OBVIOUS
<1> HIDE DEF d, x
<1>6. /\ Stored' = Stored \union {w} /\ store' \in [Stored' -> Entry]
      /\ store'[w] = x /\ \A v \in Stored : store'[v] = store[v]
  BY <1>1, <1>2, <1>4 DEF Stored, EntriesOK
<1> QED
  BY <1>1, <1>2, <1>3, <1>5, <1>6 DEF d

\* A dropped watch keeps its entry, as one that has ended.
LEMMA DroppedStep ==
    ASSUME EntriesOK, NEW w \in WatchNo, Dealloc(w)
    PROVE  /\ StoreStep /\ w \in Stored /\ spc[w] = "held" /\ store'[w].end # "none"
           /\ \A v \in Stored : v # w => store'[v] = store[v]
           /\ store'[w].got = NoneGathered /\ store'[w].waiting = store[w].waiting
           /\ spc' = [spc EXCEPT ![w] = "dropped"]
<1> DEFINE why == IF store[w].end = "none" THEN "canceled" ELSE store[w].end
           x == [store[w] EXCEPT !.end = why, !.desc = 0, !.got = NoneGathered]
<1>1. spc[w] = "held" /\ w \in Stored /\ store[w] \in Entry
  BY DEF Dealloc, EntriesOK
<1>2. why \in WhyEnd
  BY <1>1 DEF Entry, WhyEnd
<1>3. store' = [store EXCEPT ![w] = x]
  BY <1>1 DEF Dealloc, Dropped, EntriesOK, Entry
<1> HIDE DEF why
<1>4. x \in Entry /\ x.end = why /\ x.got = NoneGathered /\ x.waiting = store[w].waiting
  <2> DEFINE y == store[w]
  <2>1. y \in Entry /\ 0 \in 0 .. MaxWd
    BY <1>1, Bounds
  <2>2. LET z == [y EXCEPT !.end = why, !.desc = 0, !.got = NoneGathered]
        IN  z \in Entry /\ z.end = why /\ z.got = NoneGathered /\ z.waiting = y.waiting
    <3> HIDE DEF y
    <3> QED
      BY <1>2, <2>1, NoneTyped DEF Entry
  <2> QED
    BY <2>2
<1> HIDE DEF x
<1>5. why # "none" /\ spc' = [spc EXCEPT ![w] = "dropped"]
  BY <1>2 DEF WhyEnd, Dealloc
<1> QED
  BY <1>1, <1>3, <1>4, <1>5 DEF StoreStep, EntriesOK, Stored

\* The store holds entries, of the watches whose start came that far.
LEMMA EntriesKeep ==
    ASSUME EntriesOK, event \in Event, WaitersHeld, nextWd \in 1 .. MaxWd + 1,
           wd \in 0 .. nextWd - 1, [WatchNext]_watchVars
    PROVE  EntriesOK'
<1>1. ASSUME NEW w \in WatchNo, StartInsert(w) PROVE EntriesOK'
  <2>1. CASE UNCHANGED store
    <3>1. spc[w] = "checked" /\ spc' \in {[spc EXCEPT ![w] = "refused"], [spc EXCEPT ![w] = "inserted"]}
      BY <1>1 DEF StartInsert
    <3>2. spc' = [spc EXCEPT ![w] = "refused"]
      <4>1. spc' = [spc EXCEPT ![w] = "refused"] \/ w \in Stored'
        BY <1>1 DEF StartInsert, Stored
      <4> QED
        BY <2>1, <3>1, <4>1 DEF EntriesOK, Stored
    <3> QED
      BY <2>1, <3>1, <3>2 DEF EntriesOK, Stored, StartPC
  <2>2. CASE ~ UNCHANGED store
    <3>1. /\ Stored' = Stored \union {w} /\ store' \in [Stored' -> Entry]
          /\ spc' = [spc EXCEPT ![w] = "inserted"]
      BY <1>1, <2>2, InsertStep
    <3> QED
      BY <3>1 DEF EntriesOK, StartPC
  <2> QED
    BY <2>1, <2>2
<1>2. ASSUME NEW w \in WatchNo, Dealloc(w) PROVE EntriesOK'
  BY <1>2, DroppedStep DEF EntriesOK, StoreStep, StartPC
<1>3. CASE \A w \in WatchNo : ~ StartInsert(w) /\ ~ Dealloc(w)
  <2>1. StoreStep
    BY <1>3, StoreSteps
  <2>2. \/ UNCHANGED spc
        \/ \E w \in WatchNo : \/ spc[w] = "idle" /\ spc' = [spc EXCEPT ![w] = "checked"]
                              \/ spc[w] = "inserted" /\ spc' = [spc EXCEPT ![w] = "held"]
    <3>1. CASE UNCHANGED watchVars
      BY <3>1 DEF watchVars, watchState
    <3>2. CASE WatchNext
      BY <1>3, <3>2, WatchSteps
         DEF Touch, Vanish, Elapse, ReleaseDir, RevokeDir, Read, Told, Poll, Tell, RevokeSweep,
             Withdraw, StartCheck, StartRecord, Cancel, NextCall, NextEnter, NextWake, TaskHook,
             TaskEnd, watchState
    <3> QED
      BY <3>1, <3>2
  <2> QED
    BY <2>1, <2>2 DEF EntriesOK, StoreStep, StartPC
<1> QED
  BY <1>1, <1>2, <1>3

-----------------------------------------------------------------------------
(* Events and descriptors.                                                 *)

EventsOK ==
    /\ queue \in Seq(Event) /\ event \in Event
    /\ byDesc \in [1 .. MaxWd -> SUBSET WatchNo]
    /\ nextWd \in 1 .. MaxWd + 1 /\ wd \in 0 .. nextWd - 1

\* A directory that is gone is not watched under its descriptor, then or later.
GoneFor(e) == e.mask = "gone" => e.desc \in 1 .. nextWd - 1 /\ e.desc # wd

Listed ==
    \A w \in WatchNo : Live(w) => spc[w] \in {"inserted", "held"} /\ w \in byDesc[store[w].desc]
\* Until it is dropped a watch has a descriptor that was handed out.
Described ==
    \A w \in WatchNo : spc[w] \in {"inserted", "held"} => store[w].desc \in 1 .. nextWd - 1
GoneLast ==
    /\ (\A i \in 1 .. Len(queue) : GoneFor(queue[i])) /\ GoneFor(event)
    /\ npc = "tell" /\ event.mask = "gone" =>
         \A w \in WatchNo : Live(w) /\ store[w].desc = event.desc => w \in todo

\* The events there are.
LEMMA EventTypes ==
    ASSUME EventsOK
    PROVE  /\ Overflow \in Event /\ Overflow.mask # "gone"
           /\ \A ch \in Changes : wd # 0 => /\ Change(ch[1], ch[2]) \in Event
                                            /\ Change(ch[1], ch[2]).mask # "gone"
                                            /\ ch[1] \in Name
           /\ wd # 0 => Gone(wd) \in Event /\ Gone(wd).mask = "gone" /\ Gone(wd).desc = wd
<1>1. Overflow \in Event /\ Overflow.mask # "gone"
  BY Bounds DEF Overflow, Event, Name, Mask
<1>2. ASSUME NEW ch \in Changes, wd # 0
      PROVE  Change(ch[1], ch[2]) \in Event /\ Change(ch[1], ch[2]).mask # "gone" /\ ch[1] \in Name
  <2>1. ch[1] \in Name /\ ch[2] \in {"name", "written"}
    BY WatchAssumption DEF Name
  <2>2. wd \in 0 .. MaxWd
    BY Bounds DEF EventsOK
  <2> QED
    BY <2>1, <2>2 DEF Change, Event, Mask
<1>3. ASSUME wd # 0 PROVE Gone(wd) \in Event /\ Gone(wd).mask = "gone" /\ Gone(wd).desc = wd
  <2>1. wd \in 0 .. MaxWd
    BY Bounds DEF EventsOK
  <2> QED
    BY <2>1 DEF Gone, Event, Mask, Name
<1> QED
  BY <1>1, <1>2, <1>3

\* The kernel's queue: what was queued stays where it is, and the event is in it or
\* an overflow is.
LEMMA QueuedKeeps ==
    ASSUME EventsOK, NEW e \in Event
    PROVE  LET q == Queued(e)
           IN  /\ q \in Seq(Event) /\ Len(queue) <= Len(q)
               /\ \A i \in 1 .. Len(queue) : q[i] = queue[i]
               /\ \A i \in 1 .. Len(q) : i \in 1 .. Len(queue) \/ q[i] \in {e, Overflow}
               /\ \E i \in 1 .. Len(q) : q[i] \in {e, Overflow}
<1>1. queue \in Seq(Event) /\ Overflow \in Event /\ Len(queue) \in Nat
  BY EventTypes, LenProperties DEF EventsOK
<1>2. \E x \in {e, Overflow} :
         Queued(e) = IF queue # <<>> /\ queue[Len(queue)] = x THEN queue ELSE Append(queue, x)
  BY DEF Queued
<1> PICK x \in {e, Overflow} :
         Queued(e) = IF queue # <<>> /\ queue[Len(queue)] = x THEN queue ELSE Append(queue, x)
  BY <1>2
<1>3. CASE queue # <<>> /\ queue[Len(queue)] = x
  <2>1. Len(queue) \in 1 .. Len(queue) /\ queue = Queued(e)
    BY <1>1, <1>3, EmptySeq
  <2> QED
    BY <1>1, <1>3, <2>1
<1>4. CASE ~ (queue # <<>> /\ queue[Len(queue)] = x)
  <2>1. Queued(e) = Append(queue, x) /\ x \in Event
    BY <1>1, <1>4
  <2>2. /\ Append(queue, x) \in Seq(Event) /\ Len(Append(queue, x)) = Len(queue) + 1
        /\ \A i \in 1 .. Len(queue) : Append(queue, x)[i] = queue[i]
        /\ Append(queue, x)[Len(queue) + 1] = x
    BY <1>1, <2>1, AppendProperties
  <2>3. Len(queue) + 1 \in 1 .. Len(queue) + 1 /\ Len(queue) <= Len(queue) + 1
    BY <1>1
  <2>4. \A i \in 1 .. Len(queue) + 1 : i \in 1 .. Len(queue) \/ i = Len(queue) + 1
    BY <1>1
  <2> QED
    BY <2>1, <2>2, <2>3, <2>4
<1> QED
  BY <1>3, <1>4

EventInv == EventsOK /\ Listed /\ Described /\ GoneLast

\* A step that neither queues, reads nor delivers an event, and starts no watch.
LEMMA EventFrame ==
    ASSUME EntriesOK, EventInv, StoreStep, UNCHANGED <<byDesc, kernel, event, todo>>,
           npc' = npc \/ npc' # "tell",
           \A w \in WatchNo : spc[w] \in {"inserted", "held"} <=> spc'[w] \in {"inserted", "held"}
    PROVE  EventInv'
<1> USE DEF EventInv, kernel
<1>1. EventsOK'
  BY DEF EventsOK
<1>2. \A w \in WatchNo : Live(w)' => Live(w) /\ store'[w].desc = store[w].desc
  BY DEF Live, StoreStep
<1>3. Listed'
  BY <1>2 DEF Listed
<1>4. GoneLast'
  BY <1>2 DEF GoneLast, GoneFor
<1>5. Described'
  BY DEF Described, StoreStep, EntriesOK
<1> QED
  BY <1>1, <1>3, <1>4, <1>5

\* An event is queued, at most of a directory that is not watched any more.
LEMMA QueueKeeps ==
    ASSUME EntriesOK, EventInv, StoreStep, UNCHANGED <<nextWd, event, todo, npc>>,
           NEW e \in Event, queue' = Queued(e), wd' \in {wd, 0},
           e.mask = "gone" => e.desc = wd /\ wd # 0 /\ wd' = 0,
           byDesc' \in [1 .. MaxWd -> SUBSET WatchNo],
           \A w \in WatchNo : spc'[w] \in {spc[w], "dropped"},
           \A w \in WatchNo : Live(w)' =>
              /\ spc'[w] = spc[w]
              /\ w \in byDesc[store[w].desc] => w \in byDesc'[store[w].desc]
    PROVE  EventInv'
<1> USE DEF EventInv
<1>1. /\ queue' \in Seq(Event) /\ Len(queue) <= Len(queue')
      /\ \A i \in 1 .. Len(queue) : queue'[i] = queue[i]
      /\ \A i \in 1 .. Len(queue') : i \in 1 .. Len(queue) \/ queue'[i] \in {e, Overflow}
  BY QueuedKeeps
<1>2. EventsOK'
  BY <1>1 DEF EventsOK
<1>3. \A w \in WatchNo : Live(w)' => Live(w) /\ store'[w].desc = store[w].desc
  BY DEF Live, StoreStep
<1>4. Listed'
  BY <1>3 DEF Listed
<1>5. \A x : GoneFor(x) => GoneFor(x)'
  BY DEF GoneFor, EventsOK
<1>6. GoneFor(e)' /\ GoneFor(Overflow)'
  BY EventTypes DEF GoneFor, EventsOK
<1>7. GoneLast'
  BY <1>1, <1>3, <1>5, <1>6 DEF GoneLast
<1>8. Described'
  BY DEF Described, StoreStep, EntriesOK
<1> QED
  BY <1>2, <1>4, <1>7, <1>8

\* The directory changes, is deleted, or loses its last watch.
LEMMA DirectoryEvents ==
    ASSUME EntriesOK, EventInv, ~ Renames,
           \/ \E ch \in Changes : Touch(ch[1], ch[2])
           \/ \E moved \in BOOLEAN : Vanish(moved)
           \/ \E w \in WatchNo : Dealloc(w)
    PROVE  EventInv'
<1> USE DEF EventInv
<1>1. ASSUME NEW ch \in Changes, Touch(ch[1], ch[2]) PROVE EventInv'
  <2>1. /\ queue' = Queued(Change(ch[1], ch[2])) /\ wd # 0
        /\ UNCHANGED <<store, byDesc, wd, nextWd, event, todo, npc, spc>>
    BY <1>1 DEF Touch, notifier
  <2>2. Change(ch[1], ch[2]) \in Event /\ Change(ch[1], ch[2]).mask # "gone"
    BY <2>1, EventTypes
  <2>3. byDesc' \in [1 .. MaxWd -> SUBSET WatchNo]
    BY <2>1 DEF EventsOK
  <2> QED
    BY <2>1, <2>2, <2>3, SameStore, QueueKeeps
<1>2. ASSUME NEW moved \in BOOLEAN, Vanish(moved) PROVE EventInv'
  <2>1. /\ queue' = Queued(Gone(wd)) /\ wd # 0 /\ wd' = 0
        /\ UNCHANGED <<store, byDesc, nextWd, event, todo, npc, spc>>
    BY <1>2 DEF Vanish, notifier
  <2>2. Gone(wd) \in Event /\ Gone(wd).desc = wd
    BY <2>1, EventTypes
  <2>3. byDesc' \in [1 .. MaxWd -> SUBSET WatchNo]
    BY <2>1 DEF EventsOK
  <2> QED
    BY <2>1, <2>2, <2>3, SameStore, QueueKeeps
<1>3. ASSUME NEW w \in WatchNo, Dealloc(w) PROVE EventInv'
  <2> DEFINE d == store[w].desc
             last == byDesc[d] # {} /\ byDesc[d] \ {w} = {}
  <2>1. /\ byDesc' = [byDesc EXCEPT ![d] = @ \ {w}]
        /\ wd' = IF last /\ wd = d THEN 0 ELSE wd
        /\ queue' = IF last /\ wd = d THEN Queued(Gone(d)) ELSE queue
        /\ UNCHANGED <<nextWd, event, todo, npc>>
    BY <1>3 DEF Dealloc, notifier
  <2>2. /\ StoreStep /\ w \in Stored /\ store'[w].end # "none"
        /\ \A v \in WatchNo : v # w => spc'[v] = spc[v]
        /\ spc'[w] = "dropped" /\ d \in 1 .. nextWd - 1
    BY <1>3, DroppedStep DEF EntriesOK, Described
  <2>3. byDesc' \in [1 .. MaxWd -> SUBSET WatchNo]
    BY <2>1 DEF EventsOK
  <2>4. \A v \in WatchNo : Live(v)' => /\ v # w /\ spc'[v] = spc[v] /\ Live(v)
                                      /\ store'[v].desc = store[v].desc
    BY <2>2 DEF Live, StoreStep
  <2>5. \A v \in WatchNo : v # w /\ v \in byDesc[store[v].desc] /\ Live(v)
                            => v \in byDesc'[store[v].desc]
    <3>1. \A v \in WatchNo : Live(v) => store[v].desc \in 1 .. MaxWd
      BY Bounds DEF Listed, Described, EventsOK
    <3> QED
      BY <2>1, <3>1 DEF EventsOK
  <2> HIDE DEF last, d
  <2>6. CASE last /\ wd = d
    <3>1. wd # 0
      BY <2>2, <2>6 DEF EventsOK
    <3>2. Gone(wd) \in Event /\ Gone(wd).desc = wd
      BY <3>1, EventTypes
    <3> QED
      BY <2>1, <2>2, <2>3, <2>4, <2>5, <2>6, <3>1, <3>2, QueueKeeps DEF d
  <2>7. CASE ~ (last /\ wd = d)
    <3>1. EventsOK'
      BY <2>1, <2>3, <2>7 DEF EventsOK
    <3>2. Listed'
      BY <2>1, <2>4, <2>5 DEF Listed, d
    <3>3. GoneLast'
      BY <2>1, <2>4, <2>7 DEF GoneLast, GoneFor
    <3>4. Described'
      BY <2>1, <2>2 DEF Described, StoreStep, EntriesOK
    <3> QED
      BY <3>1, <3>2, <3>3, <3>4
  <2> QED
    BY <2>6, <2>7
<1> QED
  BY <1>1, <1>2, <1>3

\* The head of the queue and what is left of it.
LEMMA ReadQueue ==
    ASSUME EventsOK, queue # <<>>
    PROVE  /\ Head(queue) \in Event /\ Head(queue) = queue[1] /\ 1 \in 1 .. Len(queue)
           /\ Tail(queue) \in Seq(Event)
           /\ \A i \in 1 .. Len(Tail(queue)) : /\ i + 1 \in 1 .. Len(queue)
                                               /\ Tail(queue)[i] = queue[i + 1]
           /\ \A i \in 1 .. Len(queue) : i # 1 => /\ i - 1 \in 1 .. Len(Tail(queue))
                                                  /\ Tail(queue)[i - 1] = queue[i]
<1>1. queue \in Seq(Event) /\ Len(queue) \in Nat /\ Len(queue) # 0
  BY LenProperties, EmptySeq DEF EventsOK
<1>2. /\ Head(queue) \in Event /\ Head(queue) = queue[1] /\ Tail(queue) \in Seq(Event)
      /\ Len(Tail(queue)) = Len(queue) - 1
      /\ \A i \in 1 .. Len(Tail(queue)) : Tail(queue)[i] = queue[i + 1]
  BY <1>1, HeadTailProperties
<1>3. \A i \in 1 .. Len(queue) - 1 : i + 1 \in 1 .. Len(queue)
  BY <1>1
<1>4. \A i \in 1 .. Len(queue) : i # 1 => i - 1 \in 1 .. Len(queue) - 1 /\ (i - 1) + 1 = i
  BY <1>1
<1> QED
  BY <1>1, <1>2, <1>3, <1>4

\* The entries are what the withdrawal asks of them.
LEMMA EntriesStored == EntriesOK => StoreOK
BY DEF EntriesOK, StoreOK, Entry

\* Every watch that goes on, and has the descriptor of the event read, is to be told.
LEMMA ReadTells ==
    ASSUME EntriesOK, EventInv, Read
    PROVE  \A w \in WatchNo :
              Live(w) /\ (Head(queue) = Overflow \/ Head(queue).desc = store[w].desc) => w \in todo'
BY DEF Read, EventInv, Listed, InStore, Live

\* read and deliver, and the starts.
LEMMA NotifierEvents ==
    ASSUME EntriesOK, EventInv,
           Read \/ Told \/ (\E w \in WatchNo : Tell(w)) \/ (\E w \in WatchNo : StartInsert(w))
    PROVE  EventInv'
<1> USE DEF EventInv
<1>1. CASE Read
  <2>1. /\ event' = Head(queue) /\ queue' = Tail(queue) /\ queue # <<>>
        /\ UNCHANGED <<store, byDesc, wd, nextWd, spc>>
    BY <1>1 DEF Read
  <2>2. EventsOK'
    BY <2>1, ReadQueue DEF EventsOK
  <2>3. Listed' /\ Described'
    BY <2>1 DEF Listed, Described, Live, Stored
  <2>4. GoneLast'
    <3>1. \A x : GoneFor(x)' <=> GoneFor(x)
      BY <2>1 DEF GoneFor
    <3>2. /\ \A i \in 1 .. Len(Tail(queue)) : GoneFor(Tail(queue)[i])
          /\ GoneFor(Head(queue))
      BY <2>1, ReadQueue DEF GoneLast
    <3>3. \A w \in WatchNo : Live(w)' /\ store'[w].desc = event'.desc => w \in todo'
      BY <1>1, <2>1, ReadTells DEF Live, Stored
    <3> QED
      BY <2>1, <3>1, <3>2, <3>3 DEF GoneLast
  <2> QED
    BY <2>2, <2>3, <2>4
<1>2. CASE Told
  <2>1. /\ npc = "tell" /\ todo = {} /\ npc' = "sweep" /\ event' = Overflow
        /\ byDesc' = (IF event.mask = "gone" THEN [byDesc EXCEPT ![event.desc] = {}] ELSE byDesc)
        /\ UNCHANGED <<store, kernel, spc>>
    BY <1>2 DEF Told
  <2>2. EventsOK'
    BY <2>1, EventTypes DEF EventsOK, kernel
  <2>3. \A w \in WatchNo : Live(w) /\ event.mask = "gone" => store[w].desc # event.desc
    BY <2>1 DEF GoneLast
  <2>4. Listed' /\ Described'
    <3>1. \A w \in WatchNo : Live(w) => byDesc'[store[w].desc] = byDesc[store[w].desc]
      BY <2>1, <2>3 DEF EventsOK
    <3> QED
      BY <2>1, <3>1 DEF Listed, Described, Live, Stored, kernel
  <2>5. GoneLast'
    BY <2>1, EventTypes DEF GoneLast, GoneFor, kernel
  <2> QED
    BY <2>2, <2>4, <2>5
<1>3. ASSUME NEW w \in WatchNo, Tell(w) PROVE EventInv'
  <2>1. /\ todo' = todo \ {w} /\ npc = "tell"
        /\ UNCHANGED <<byDesc, wd, nextWd, queue, event, npc, spc>>
    BY <1>3 DEF Tell, kernel
  <2>2. StoreStep
    BY <1>3, TellStep DEF EventsOK
  <2>3. EventsOK'
    BY <2>1 DEF EventsOK
  <2>4. \A v \in WatchNo : Live(v)' => Live(v) /\ store'[v].desc = store[v].desc
    BY <2>2 DEF Live, StoreStep
  <2>5. Listed'
    BY <2>1, <2>4 DEF Listed
  <2>6. Described'
    BY <2>1, <2>2 DEF Described, StoreStep, EntriesOK
  <2>7. event.mask = "gone" => ~ Live(w)'
    BY <1>3, EndAllEnds, EntriesStored DEF Tell, Live, Stored, EndsKept
  <2>8. GoneLast'
    BY <2>1, <2>4, <2>7 DEF GoneLast, GoneFor
  <2> QED
    BY <2>3, <2>5, <2>6, <2>8
<1>4. ASSUME NEW w \in WatchNo, StartInsert(w) PROVE EventInv'
  <2>1. CASE UNCHANGED store
    <3>1. spc[w] = "checked" /\ w \notin Stored
      BY <1>4 DEF StartInsert, EntriesOK
    <3>2. spc' = [spc EXCEPT ![w] = "refused"] /\ UNCHANGED <<byDesc, wd, nextWd>>
      BY <1>4, <2>1, <3>1 DEF StartInsert, Stored
    <3> QED
      BY <1>4, <2>1, <3>1, <3>2, SameStore, EventFrame DEF StartInsert, notifier, kernel, EntriesOK
  <2>2. CASE ~ UNCHANGED store
    <3> PICK d \in 1 .. MaxWd :
              /\ d = IF wd # 0 THEN wd ELSE nextWd
              /\ wd' = d /\ nextWd' = (IF wd # 0 THEN nextWd ELSE nextWd + 1)
              /\ w \notin Stored /\ Stored' = Stored \union {w}
              /\ store' \in [Stored' -> Entry]
              /\ \A v \in Stored : store'[v] = store[v]
              /\ store'[w].end = "none" /\ store'[w].desc = d
              /\ store'[w].waiting = FALSE /\ store'[w].got = NoneGathered
              /\ byDesc' = [byDesc EXCEPT ![d] = @ \union {w}]
              /\ spc' = [spc EXCEPT ![w] = "inserted"]
      BY <1>4, <2>2, InsertStep DEF EventsOK
    <3>1. UNCHANGED <<queue, event, todo, npc>>
      BY <1>4 DEF StartInsert, notifier
    <3>2. EventsOK'
      BY <3>1, Bounds DEF EventsOK
    <3>3. \A v \in WatchNo : v # w => /\ Live(v)' <=> Live(v)
                                      /\ Live(v) => store'[v] = store[v]
                                      /\ spc'[v] = spc[v]
      BY DEF Live, EntriesOK
    <3>4. d \in 1 .. nextWd' - 1 /\ nextWd - 1 <= nextWd' - 1
      BY DEF EventsOK
    <3>5. Described'
      <4>1. \A v \in WatchNo : v # w /\ spc[v] \in {"inserted", "held"} => store'[v] = store[v]
        BY DEF EntriesOK
      <4>2. 1 .. nextWd - 1 \subseteq 1 .. nextWd' - 1
        BY <3>4 DEF EventsOK
      <4> QED
        BY <3>3, <3>4, <4>1, <4>2 DEF Described
    <3>6. Listed'
      <4>1. \A i \in 1 .. MaxWd : byDesc[i] \subseteq byDesc'[i]
        BY DEF EventsOK
      <4>2. \A v \in WatchNo : Live(v) => store[v].desc \in 1 .. MaxWd
        BY Bounds DEF Listed, Described, EventsOK
      <4>3. w \in byDesc'[d] /\ spc'[w] = "inserted"
        BY DEF EventsOK, EntriesOK
      <4> QED
        BY <3>3, <4>1, <4>2, <4>3 DEF Listed
    <3>7. \A x : GoneFor(x) => GoneFor(x)' /\ (x.mask = "gone" => x.desc # d)
      BY DEF GoneFor, EventsOK
    <3>8. GoneLast'
      BY <3>1, <3>3, <3>7 DEF GoneLast
    <3> QED
      BY <3>2, <3>5, <3>6, <3>8
  <2> QED
    BY <2>1, <2>2
<1> QED
  BY <1>1, <1>2, <1>3, <1>4

\* The steps that concern neither the events nor the list of a descriptor.
EventQuiet ==
    /\ \A ch \in Changes : ~ Touch(ch[1], ch[2])
    /\ \A moved \in BOOLEAN : ~ Vanish(moved)
    /\ \A w \in WatchNo : ~ Dealloc(w) /\ ~ StartInsert(w) /\ ~ Tell(w)
    /\ ~ Read /\ ~ Told

\* What such a step leaves as it is.
LEMMA QuietEvents ==
    ASSUME [WatchNext]_watchVars, EventQuiet
    PROVE  /\ UNCHANGED <<byDesc, kernel, event, todo>>
           /\ npc' = npc \/ (npc # "tell" /\ npc' = "poll")
           /\ \/ UNCHANGED spc
              \/ \E w \in WatchNo : spc[w] = "idle" /\ spc' = [spc EXCEPT ![w] = "checked"]
              \/ \E w \in WatchNo : spc[w] = "inserted" /\ spc' = [spc EXCEPT ![w] = "held"]
           /\ (\A t \in Waiter : ~ NextEnter(t) /\ ~ NextWake(t)) => UNCHANGED unseen
<1>1. CASE UNCHANGED watchVars
  BY <1>1 DEF watchVars, watchState, notifier
<1>2. CASE WatchNext
  BY <1>2, WatchSteps
     DEF EventQuiet, Elapse, ReleaseDir, RevokeDir, Poll, RevokeSweep, Withdraw, StartCheck,
         StartRecord, Cancel, NextCall, NextEnter, NextWake, TaskHook, TaskEnd, watchState,
         notifier
<1> QED
  BY <1>1, <1>2

\* Whatever happens, but a move of the directory, events and descriptors agree.
LEMMA EventKeeps ==
    ASSUME EntriesOK, WaitersHeld, EventInv, ~ Renames, [WatchNext]_watchVars
    PROVE  EventInv'
<1>1. CASE EventQuiet
  <2>1. StoreStep
    BY <1>1, StoreSteps DEF EventInv, EventsOK, EventQuiet
  <2>2. \A w \in WatchNo : spc[w] \in {"inserted", "held"} <=> spc'[w] \in {"inserted", "held"}
    BY <1>1, QuietEvents DEF EntriesOK
  <2> QED
    BY <1>1, <2>1, <2>2, QuietEvents, EventFrame
<1>2. CASE ~ EventQuiet
  BY <1>2, DirectoryEvents, NotifierEvents DEF EventQuiet
<1> QED
  BY <1>1, <1>2

-----------------------------------------------------------------------------
(* What is not reported is gathered, or on its way.                        *)

UnseenOK ==
    /\ unseen \in [WatchNo -> SUBSET Name]
    /\ \A w \in WatchNo \ Stored : unseen[w] = {}

\* The two places an event on its way may be in.
Queueing(w, n) == \E i \in 1 .. Len(queue) : Tells(w, n, queue[i])
Telling(w, n) == npc = "tell" /\ w \in todo /\ Tells(w, n, event)

\* One change that a watch has not reported is not missed.
NotMissed(w, n) ==
    n \in store[w].got.names \/ store[w].got.overflowed \/ Queueing(w, n) \/ Telling(w, n)

\* That is what NothingMissed says of it.
LEMMA MissedNot == NothingMissed <=> \A w \in WatchNo : Live(w) => \A n \in unseen[w] : NotMissed(w, n)
BY DEF NothingMissed, NotMissed, InFlight, Queueing, Telling

\* A step after which every unreported change was unreported before, of a watch
\* that has forgotten nothing, and no event was taken out on its way.
LEMMA MissedFrame ==
    ASSUME NothingMissed,
           \A w \in WatchNo : Live(w)' =>
              /\ Live(w)
              /\ \A n \in unseen'[w] : n \in unseen[w] /\ (NotMissed(w, n) => NotMissed(w, n)')
    PROVE  NothingMissed'
<1>1. \A w \in WatchNo : Live(w)' => \A n \in unseen'[w] : NotMissed(w, n)'
  BY MissedNot
<1>2. NothingMissed' <=> (\A w \in WatchNo : Live(w) => \A n \in unseen[w] : NotMissed(w, n))'
  BY DEF NothingMissed, NotMissed, InFlight, Queueing, Telling
<1> QED
  BY <1>1, <1>2

\* The same event tells a watch the same as long as it goes on.
LEMMA TellsSame ==
    ASSUME NEW w \in Stored, store'[w].desc = store[w].desc, store'[w].target = store[w].target
    PROVE  \A n, e : Tells(w, n, e)' <=> Tells(w, n, e)
BY DEF Tells, Overflow

\* What is unreported are names, of watches that were started.
LEMMA UnseenKeeps ==
    ASSUME EntriesOK, WaitersHeld, EventInv, UnseenOK, [WatchNext]_watchVars
    PROVE  UnseenOK'
<1>1. CASE UNCHANGED unseen
  <2>1. Stored \subseteq Stored'
    <3>1. ASSUME NEW w \in WatchNo, StartInsert(w) PROVE Stored \subseteq Stored'
      <4>1. CASE UNCHANGED store
        BY <4>1 DEF Stored
      <4>2. CASE ~ UNCHANGED store
        BY <3>1, <4>2, InsertStep DEF EventInv, EventsOK
      <4> QED
        BY <4>1, <4>2
    <3>2. ASSUME NEW w \in WatchNo, Dealloc(w) PROVE Stored \subseteq Stored'
      BY <3>2, DroppedStep DEF StoreStep
    <3>3. CASE \A w \in WatchNo : ~ StartInsert(w) /\ ~ Dealloc(w)
      BY <3>3, StoreSteps DEF StoreStep, EventInv, EventsOK
    <3> QED
      BY <3>1, <3>2, <3>3
  <2> QED
    BY <1>1, <2>1 DEF UnseenOK
<1>2. ASSUME NEW ch \in Changes, Touch(ch[1], ch[2]) PROVE UnseenOK'
  <2>1. /\ wd # 0 /\ UNCHANGED store
        /\ unseen' = [w \in WatchNo |->
                        IF Live(w) /\ store[w].desc = wd
                          THEN unseen[w] \union Effect(store[w].target, ch[1], ch[2])
                          ELSE IF Live(w) THEN unseen[w] ELSE {}]
    BY <1>2 DEF Touch, Unreported
  <2>2. \A w \in WatchNo : Effect(store[w].target, ch[1], ch[2]) \subseteq Name
    BY <2>1, EventTypes, EffectNames DEF EventInv
  <2> QED
    BY <2>1, <2>2 DEF UnseenOK, Live, Stored
<1>3. ASSUME NEW t \in Waiter, NextEnter(t) \/ NextWake(t) PROVE UnseenOK'
  <2> DEFINE w == wait[t].watch
  <2>1. w \in Stored /\ w \in WatchNo
    BY <1>3 DEF NextEnter, NextWake, WaitersHeld, EntriesOK
  <2> HIDE DEF w
  <2>2. CASE UNCHANGED unseen
    BY <1>1, <2>2
  <2>3. CASE Loop(t, w) /\ ~ UNCHANGED unseen
    BY <2>1, <2>3, LoopStep DEF UnseenOK, StoreStep
  <2> QED
    BY <1>3, <2>2, <2>3 DEF NextEnter, NextWake, w
<1> QED
  <2>1. ASSUME WatchNext, ~ UNCHANGED unseen
        PROVE  \/ \E ch \in Changes : Touch(ch[1], ch[2])
               \/ \E t \in Waiter : NextEnter(t) \/ NextWake(t)
    BY <2>1, WatchSteps
       DEF Vanish, Elapse, ReleaseDir, RevokeDir, Read, Told, Poll, Tell, RevokeSweep, Withdraw,
           StartCheck, StartInsert, StartRecord, Cancel, Dealloc, NextCall, TaskHook, TaskEnd,
           watchState
  <2> QED
    BY <1>1, <1>2, <1>3, <2>1 DEF watchVars, watchState

\* A queued event is on its way, and so is everything that was before.
LEMMA QueueTells ==
    ASSUME EventsOK, NEW e \in Event, queue' = Queued(e),
           NEW w \in Stored, store'[w].desc = store[w].desc, store'[w].target = store[w].target,
           NEW n
    PROVE  Queueing(w, n) \/ Tells(w, n, e) => Queueing(w, n)'
<1>1. \A x : Tells(w, n, x)' <=> Tells(w, n, x)
  BY TellsSame
<1>2. Len(queue) \in Nat /\ Len(queue') \in Nat
  BY QueuedKeeps, LenProperties DEF EventsOK
<1>3. CASE Queueing(w, n)
  <2> PICK i \in 1 .. Len(queue) : Tells(w, n, queue[i])
    BY <1>3 DEF Queueing
  <2>1. Len(queue) <= Len(queue') /\ queue'[i] = queue[i]
    BY QueuedKeeps
  <2>2. i \in 1 .. Len(queue')
    BY <1>2, <2>1
  <2> QED
    BY <1>1, <2>1, <2>2 DEF Queueing
<1>4. CASE Tells(w, n, e)
  <2> PICK i \in 1 .. Len(queue') : queue'[i] \in {e, Overflow}
    BY QueuedKeeps
  <2>1. Tells(w, n, Overflow)
    BY DEF Tells
  <2>2. Tells(w, n, queue'[i])
    BY <1>4, <2>1
  <2> QED
    BY <1>1, <2>2 DEF Queueing
<1> QED
  BY <1>3, <1>4

\* Where the events stay as they are, what was on its way still is.
LEMMA StillTells ==
    ASSUME NEW w \in Stored, store'[w].desc = store[w].desc, store'[w].target = store[w].target,
           UNCHANGED <<queue, event, todo>>, npc' = npc \/ npc # "tell", NEW n
    PROVE  /\ Queueing(w, n) => Queueing(w, n)'
           /\ Telling(w, n) => Telling(w, n)'
BY TellsSame DEF Queueing, Telling

\* The directory changes, is deleted, or loses its last watch.
LEMMA DirectoryMissed ==
    ASSUME EntriesOK, EventInv, NothingMissed,
           \/ \E ch \in Changes : Touch(ch[1], ch[2])
           \/ \E moved \in BOOLEAN : Vanish(moved)
           \/ \E w \in WatchNo : Dealloc(w)
    PROVE  NothingMissed'
<1> USE DEF EventInv
<1>1. ASSUME NEW ch \in Changes, Touch(ch[1], ch[2]) PROVE NothingMissed'
  <2> DEFINE e == Change(ch[1], ch[2])
  <2>1. /\ queue' = Queued(e) /\ wd # 0 /\ UNCHANGED <<store, event, todo, npc>>
        /\ e \in Event /\ e.desc = wd /\ e.child = ch[1] /\ e.mask = ch[2]
    BY <1>1, EventTypes DEF Touch, notifier, Change
  <2> HIDE DEF e
  <2>2. ASSUME NEW w \in WatchNo, Live(w)', NEW n \in unseen'[w] PROVE NotMissed(w, n)'
    <3>1. Live(w) /\ w \in Stored
      BY <2>1, <2>2 DEF Live, Stored
    <3>2. CASE n \in unseen[w]
      <4>1. NotMissed(w, n)
        BY <3>1, <3>2, MissedNot
      <4>2. Queueing(w, n) => Queueing(w, n)'
        BY <2>1, <3>1, QueueTells
      <4>3. Telling(w, n) => Telling(w, n)'
        BY <2>1, <3>1, TellsSame DEF Telling
      <4> QED
        BY <2>1, <4>1, <4>2, <4>3 DEF NotMissed
    <3>3. CASE n \notin unseen[w]
      <4>1. store[w].desc = wd /\ n \in Effect(store[w].target, ch[1], ch[2])
        BY <1>1, <2>2, <3>1, <3>3 DEF Touch, Unreported
      <4>2. Tells(w, n, e)
        BY <2>1, <4>1 DEF Tells
      <4>3. Queueing(w, n)'
        BY <2>1, <3>1, <4>2, QueueTells
      <4> QED
        BY <4>3 DEF NotMissed
    <3> QED
      BY <3>2, <3>3
  <2>3. NothingMissed' <=> (\A w \in WatchNo : Live(w) => \A n \in unseen[w] : NotMissed(w, n))'
    BY DEF NothingMissed, NotMissed, InFlight, Queueing, Telling
  <2> QED
    BY <2>2, <2>3
<1>2. ASSUME NEW moved \in BOOLEAN, Vanish(moved) PROVE NothingMissed'
  <2>1. /\ queue' = Queued(Gone(wd)) /\ Gone(wd) \in Event
        /\ UNCHANGED <<store, event, todo, npc, unseen>>
    BY <1>2, EventTypes DEF Vanish, notifier
  <2>2. ASSUME NEW w \in Stored, NEW n PROVE NotMissed(w, n) => NotMissed(w, n)'
    <3>1. Queueing(w, n) => Queueing(w, n)'
      BY <2>1, QueueTells
    <3>2. Telling(w, n) => Telling(w, n)'
      BY <2>1, TellsSame DEF Telling
    <3> QED
      BY <2>1, <3>1, <3>2 DEF NotMissed
  <2> QED
    BY <2>1, <2>2, MissedFrame DEF Live, Stored
<1>3. ASSUME NEW v \in WatchNo, Dealloc(v) PROVE NothingMissed'
  <2>1. /\ queue' \in {queue, Queued(Gone(wd))} /\ UNCHANGED <<event, todo, npc, unseen>>
        /\ queue' # queue => wd = store[v].desc
    BY <1>3 DEF Dealloc, notifier
  <2>2. /\ StoreStep /\ v \in Stored /\ store'[v].end # "none" /\ spc[v] = "held"
        /\ \A w \in Stored : w # v => store'[w] = store[w]
    BY <1>3, DroppedStep
  <2>3. queue' = queue \/ (queue' = Queued(Gone(wd)) /\ Gone(wd) \in Event)
    <3>1. store[v].desc # 0
      BY <2>2 DEF Described, EventsOK
    <3> QED
      BY <2>1, <3>1, EventTypes
  <2>4. ASSUME NEW w \in Stored, w # v, NEW n PROVE NotMissed(w, n) => NotMissed(w, n)'
    <3>1. store'[w] = store[w]
      BY <2>2, <2>4
    <3>2. Queueing(w, n) => Queueing(w, n)'
      BY <2>1, <2>3, <3>1, QueueTells, StillTells
    <3>3. Telling(w, n) => Telling(w, n)'
      BY <2>1, <3>1, TellsSame DEF Telling
    <3> QED
      BY <3>1, <3>2, <3>3 DEF NotMissed
  <2>5. \A w \in WatchNo : Live(w)' => w # v /\ w \in Stored /\ Live(w)
    BY <2>2 DEF Live, StoreStep
  <2> QED
    BY <2>1, <2>4, <2>5, MissedFrame
<1> QED
  BY <1>1, <1>2, <1>3

\* read: the head of the queue is told to every watch it concerns.
LEMMA ReadMissed ==
    ASSUME EntriesOK, EventInv, NothingMissed, Read
    PROVE  NothingMissed'
<1>1. /\ npc = "poll" /\ npc' = "tell" /\ queue # <<>>
      /\ event' = Head(queue) /\ queue' = Tail(queue) /\ UNCHANGED <<store, unseen>>
  BY DEF Read
<1>2. ASSUME NEW w \in WatchNo, Live(w), NEW n, Queueing(w, n)
      PROVE  Queueing(w, n)' \/ Telling(w, n)'
  <2>1. \A x : Tells(w, n, x)' <=> Tells(w, n, x)
    BY <1>1, <1>2, TellsSame DEF Live
  <2> PICK i \in 1 .. Len(queue) : Tells(w, n, queue[i])
    BY <1>2 DEF Queueing
  <2>2. CASE i = 1
    <3>1. Tells(w, n, Head(queue))
      BY <1>1, <2>2, ReadQueue DEF EventInv
    <3>2. w \in todo'
      BY <1>2, <3>1, ReadTells DEF Tells
    <3> QED
      BY <1>1, <2>1, <3>1, <3>2 DEF Telling
  <2>3. CASE i # 1
    <3>1. i - 1 \in 1 .. Len(Tail(queue)) /\ Tail(queue)[i - 1] = queue[i]
      BY <1>1, <2>3, ReadQueue DEF EventInv
    <3> PICK k \in 1 .. Len(Tail(queue)) : Tail(queue)[k] = queue[i]
      BY <3>1
    <3>2. k \in 1 .. Len(queue') /\ queue'[k] = queue[i]
      BY <1>1
    <3>3. Tells(w, n, queue[k])'
      BY <2>1, <3>2
    <3> QED
      BY <3>2, <3>3 DEF Queueing
  <2> QED
    BY <2>2, <2>3
<1>3. ASSUME NEW w \in WatchNo, Live(w), NEW n PROVE NotMissed(w, n) => NotMissed(w, n)'
  BY <1>1, <1>2, <1>3 DEF NotMissed, Telling
<1> QED
  BY <1>1, <1>3, MissedFrame DEF Live, Stored

\* deliver: a watch that is told gathers what it is told, or ends.
LEMMA TellMissed ==
    ASSUME EntriesOK, EventInv, NothingMissed, NEW v \in WatchNo, Tell(v)
    PROVE  NothingMissed'
<1>1. /\ npc = "tell" /\ todo' = todo \ {v} /\ UNCHANGED <<queue, event, npc, unseen>>
      /\ StoreStep /\ GatheredKept /\ event \in Event
  BY TellStep DEF Tell, kernel, EventInv, EventsOK
<1>2. ASSUME NEW w \in WatchNo, Live(w)', NEW n, NotMissed(w, n) PROVE NotMissed(w, n)'
  <2>1. /\ w \in Stored /\ Live(w) /\ store'[w].end = "none"
        /\ store'[w].desc = store[w].desc /\ store'[w].target = store[w].target
    BY <1>1, <1>2 DEF Live, StoreStep
  <2>2. \A x : Tells(w, n, x)' <=> Tells(w, n, x)
    BY <2>1, TellsSame
  <2>3. CASE n \in store[w].got.names \/ store[w].got.overflowed
    BY <1>1, <2>1, <2>3 DEF GatheredKept, NotMissed
  <2>4. CASE Queueing(w, n)
    BY <1>1, <2>2, <2>4 DEF Queueing, NotMissed
  <2>5. CASE Telling(w, n) /\ w # v
    BY <1>1, <2>2, <2>5 DEF Telling, NotMissed
  <2>6. CASE Telling(w, n) /\ w = v
    <3>1. event.mask # "gone"
      <4>1. event.mask = "gone" => EndAll({v}, "gone")
        BY DEF Tell
      <4>2. EndAll({v}, "gone") => store'[v].end # "none"
        BY <2>1, <2>6, EndAllEnds, EntriesStored
      <4> QED
        BY <2>1, <2>6, <4>1, <4>2
    <3>2. event = Overflow \/ n \in Effect(store[v].target, event.child, event.mask)
      BY <2>6, <3>1 DEF Telling, Tells
    <3>3. store' = [store EXCEPT ![v].got = Gather(@, store[v].target, event)]
      BY <2>1, <2>6, <3>1, <3>2 DEF Tell
    <3> DEFINE g == Gather(store[v].got, store[v].target, event)
    <3>4. store'[v].got = g
      BY <2>1, <2>6, <3>3 DEF EntriesOK, Entry
    <3>5. store[v].got \in Gathered
      BY <2>1, <2>6 DEF EntriesOK, Entry
    <3>6. n \in g.names \/ g.overflowed
      BY <1>1, <3>2, <3>5, GatherAdds
    <3> QED
      BY <2>6, <3>4, <3>6 DEF NotMissed
  <2> QED
    BY <1>2, <2>3, <2>4, <2>5, <2>6 DEF NotMissed
<1> QED
  BY <1>1, <1>2, MissedFrame DEF Live, StoreStep

\* The event is delivered, and nobody is left to be told of it.
LEMMA ToldMissed ==
    ASSUME NothingMissed, Told
    PROVE  NothingMissed'
<1>1. todo = {} /\ UNCHANGED <<store, queue, unseen>>
  BY DEF Told, kernel
<1>2. ASSUME NEW w \in WatchNo, Live(w), NEW n, NotMissed(w, n) PROVE NotMissed(w, n)'
  BY <1>1, <1>2, TellsSame DEF NotMissed, Queueing, Telling, Live
<1> QED
  BY <1>1, <1>2, MissedFrame DEF Live, Stored

\* A watch starts with nothing to report.
LEMMA InsertMissed ==
    ASSUME EntriesOK, EventInv, UnseenOK, NothingMissed, NEW v \in WatchNo, StartInsert(v)
    PROVE  NothingMissed'
<1>1. UNCHANGED <<queue, event, todo, npc, unseen>>
  BY DEF StartInsert, notifier
<1>2. ASSUME NEW w \in Stored, store'[w] = store[w], NEW n, NotMissed(w, n)
      PROVE  NotMissed(w, n)'
  BY <1>1, <1>2, StillTells DEF NotMissed
<1>3. CASE UNCHANGED store
  BY <1>1, <1>2, <1>3, MissedFrame DEF Live, Stored
<1>4. CASE ~ UNCHANGED store
  <2>1. /\ v \notin Stored /\ Stored' = Stored \union {v}
        /\ \A w \in Stored : store'[w] = store[w]
    BY <1>4, InsertStep DEF EventInv, EventsOK
  <2>2. unseen'[v] = {}
    BY <1>1, <2>1 DEF UnseenOK
  <2>3. ASSUME NEW w \in WatchNo, Live(w)', NEW n \in unseen'[w] PROVE NotMissed(w, n)'
    <3>1. w \in Stored /\ Live(w) /\ n \in unseen[w]
      BY <1>1, <2>1, <2>2, <2>3 DEF Live
    <3>2. NotMissed(w, n)
      BY <3>1, MissedNot
    <3> QED
      BY <1>2, <2>1, <3>1, <3>2
  <2>4. NothingMissed' <=> (\A w \in WatchNo : Live(w) => \A n \in unseen[w] : NotMissed(w, n))'
    BY DEF NothingMissed, NotMissed, InFlight, Queueing, Telling
  <2> QED
    BY <2>3, <2>4
<1> QED
  BY <1>3, <1>4

\* next reports what was gathered, and that only.
LEMMA NextMissed ==
    ASSUME EntriesOK, WaitersHeld, UnseenOK, NothingMissed, [WatchNext]_watchVars,
           NEW t \in Waiter, NextEnter(t) \/ NextWake(t)
    PROVE  NothingMissed'
<1> DEFINE v == wait[t].watch
<1>1. v \in Stored /\ v \in WatchNo /\ UNCHANGED <<queue, event, todo, npc>>
  BY DEF NextEnter, NextWake, WaitersHeld, EntriesOK, kernel, notifier
<1>2. (UNCHANGED store /\ UNCHANGED unseen) \/ Loop(t, v)
  BY DEF NextEnter, NextWake
<1> HIDE DEF v
<1>3. CASE UNCHANGED store /\ UNCHANGED unseen
  BY <1>1, <1>3, StillTells, MissedFrame DEF Live, Stored, NotMissed
<1>4. CASE Loop(t, v)
  <2>1. /\ StoreStep /\ \A w \in Stored : w # v => store'[w] = store[w]
        /\ \/ store'[v].got = store[v].got /\ UNCHANGED unseen
           \/ unseen' = [unseen EXCEPT ![v] = IF store[v].got.overflowed THEN {}
                                             ELSE @ \ store[v].got.names]
    BY <1>1, <1>4, LoopStep
  <2>2. ASSUME NEW w \in WatchNo, Live(w)'
        PROVE  /\ Live(w) /\ w \in Stored
               /\ store'[w].desc = store[w].desc /\ store'[w].target = store[w].target
    BY <2>1, <2>2 DEF Live, StoreStep
  <2>3. ASSUME NEW w \in WatchNo, Live(w)', NEW n \in unseen'[w]
        PROVE  n \in unseen[w] /\ (NotMissed(w, n) => NotMissed(w, n)')
    <3>1. /\ Queueing(w, n) => Queueing(w, n)'
          /\ Telling(w, n) => Telling(w, n)'
      BY <1>1, <2>2, <2>3, StillTells
    <3>2. CASE store'[w].got = store[w].got /\ n \in unseen[w]
      BY <3>1, <3>2 DEF NotMissed
    <3>3. CASE w = v /\ n \in (IF store[v].got.overflowed THEN {}
                               ELSE unseen[v] \ store[v].got.names)
      BY <3>1, <3>3 DEF NotMissed
    <3> QED
      BY <1>1, <2>1, <2>2, <2>3, <3>2, <3>3 DEF UnseenOK
  <2> QED
    BY <2>2, <2>3, MissedFrame
<1> QED
  BY <1>2, <1>3, <1>4

\* Whatever happens to a directory that is not moved, no change is lost.
LEMMA MissedKeeps ==
    ASSUME EntriesOK, WaitersHeld, EventInv, UnseenOK, NothingMissed, [WatchNext]_watchVars
    PROVE  NothingMissed'
<1>1. CASE EventQuiet /\ \A t \in Waiter : ~ NextEnter(t) /\ ~ NextWake(t)
  <2>1. StoreStep /\ GatheredKept
    BY <1>1, StoreSteps DEF EventInv, EventsOK, EventQuiet
  <2>2. UNCHANGED <<queue, event, todo, unseen>> /\ (npc' = npc \/ npc # "tell")
    BY <1>1, QuietEvents DEF kernel
  <2>3. ASSUME NEW w \in WatchNo, Live(w)', NEW n
        PROVE  Live(w) /\ (NotMissed(w, n) => NotMissed(w, n)')
    <3>1. /\ w \in Stored /\ Live(w) /\ store'[w].end = "none"
          /\ store'[w].desc = store[w].desc /\ store'[w].target = store[w].target
      BY <2>1, <2>3 DEF Live, StoreStep
    <3>2. /\ Queueing(w, n) => Queueing(w, n)'
          /\ Telling(w, n) => Telling(w, n)'
      BY <2>2, <3>1, StillTells
    <3> QED
      BY <2>1, <3>1, <3>2 DEF NotMissed, GatheredKept
  <2> QED
    BY <2>2, <2>3, MissedFrame
<1>2. CASE ~ (EventQuiet /\ \A t \in Waiter : ~ NextEnter(t) /\ ~ NextWake(t))
  BY <1>2, DirectoryMissed, ReadMissed, TellMissed, ToldMissed, InsertMissed, NextMissed
     DEF EventQuiet
<1> QED
  BY <1>1, <1>2

-----------------------------------------------------------------------------
(* The invariant, for a directory that stays where it is.                  *)

MissedInv == EntriesOK /\ EventInv /\ UnseenOK /\ NothingMissed

\* At the start there is no watch, and no event.
LEMMA InitialMissed == WatchInit => MissedInv
<1> SUFFICES ASSUME WatchInit PROVE MissedInv
  OBVIOUS
<1>1. /\ Stored = {} /\ queue = <<>> /\ event = Overflow /\ npc = "poll"
      /\ byDesc = [d \in 1 .. MaxWd |-> {}] /\ wd = 0 /\ nextWd = 1
      /\ spc = [w \in WatchNo |-> "idle"] /\ unseen = [w \in WatchNo |-> {}]
      /\ store = [w \in {} |-> {}]
  BY DEF WatchInit, Stored
<1>2. EntriesOK
  BY <1>1 DEF EntriesOK, StartPC
<1>3. queue \in Seq(Event) /\ Len(queue) = 0
  BY <1>1, EmptySeq
<1>4. Overflow \in Event /\ Overflow.mask # "gone"
  BY Bounds DEF Overflow, Event, Name, Mask
<1>5. EventsOK
  BY <1>1, <1>3, <1>4, Bounds DEF EventsOK
<1>6. Listed /\ Described /\ GoneLast
  BY <1>1, <1>3, <1>4 DEF Listed, Described, GoneLast, GoneFor, Live
<1>7. UnseenOK /\ NothingMissed
  BY <1>1 DEF UnseenOK, NothingMissed, Live
<1> QED
  BY <1>2, <1>5, <1>6, <1>7 DEF MissedInv, EventInv

\* No change of a directory that is not moved is lost to a watch that goes on: every
\* reachable state has the entries, the descriptors and the events agreeing.
THEOREM MissedInductive == ASSUME ~ Renames PROVE WatchSpec => []MissedInv
<1>1. WatchInit => MissedInv
  BY InitialMissed
<1>2. MissedInv /\ WaitersHeld /\ [WatchNext]_watchVars => MissedInv'
  <2> SUFFICES ASSUME MissedInv, WaitersHeld, [WatchNext]_watchVars PROVE MissedInv'
    OBVIOUS
  <2>1. EntriesOK'
    BY EntriesKeep DEF MissedInv, EventInv, EventsOK
  <2> QED
    BY <2>1, EventKeeps, UnseenKeeps, MissedKeeps DEF MissedInv
<1> QED
  BY <1>1, <1>2, Inductive, PTL DEF WatchSpec

\* While the directory is not moved, every change a live watch has not reported is
\* gathered, covered by the overflow, or on its way (watch.rs: deliver, next).
THEOREM NothingMissedHolds == ASSUME ~ Renames PROVE WatchSpec => []NothingMissed
<1>1. MissedInv => NothingMissed
  BY DEF MissedInv
<1> QED
  BY <1>1, MissedInductive, PTL

-----------------------------------------------------------------------------
(* Who waits.  Nothing here depends on whether the directory is moved.     *)

\* The entries and the events are what they should be, also of a directory that is
\* moved.
LEMMA EventsKeep ==
    ASSUME EntriesOK, EventsOK, [WatchNext]_watchVars
    PROVE  EventsOK'
<1>1. CASE UNCHANGED <<queue, event, byDesc, nextWd, wd>>
  BY <1>1 DEF EventsOK
<1>2. ASSUME NEW e \in Event, queue' = Queued(e), wd' \in {wd, 0}, UNCHANGED <<nextWd, event>>,
             byDesc' \in [1 .. MaxWd -> SUBSET WatchNo]
      PROVE  EventsOK'
  <2>1. queue' \in Seq(Event)
    BY <1>2, QueuedKeeps
  <2>2. nextWd' \in 1 .. MaxWd + 1 /\ wd' \in 0 .. nextWd' - 1
    BY <1>2, Bounds DEF EventsOK
  <2> QED
    BY <1>2, <2>1, <2>2 DEF EventsOK
<1>3. ASSUME NEW ch \in Changes, Touch(ch[1], ch[2]) PROVE EventsOK'
  BY <1>2, <1>3, EventTypes DEF Touch, notifier, EventsOK
<1>4. ASSUME NEW moved \in BOOLEAN, Vanish(moved) PROVE EventsOK'
  BY <1>2, <1>4, EventTypes DEF Vanish, notifier, EventsOK
<1>5. ASSUME NEW w \in WatchNo, Dealloc(w) PROVE EventsOK'
  <2>1. /\ queue' \in {queue, Queued(Gone(wd))} /\ wd' \in {wd, 0} /\ UNCHANGED <<nextWd, event>>
        /\ byDesc' = [byDesc EXCEPT ![store[w].desc] = @ \ {w}]
    BY <1>5 DEF Dealloc, notifier
  <2>2. byDesc' \in [1 .. MaxWd -> SUBSET WatchNo]
    BY <2>1 DEF EventsOK
  <2>3. Gone(wd) \in Event
    <3>1. wd \in 0 .. MaxWd
      BY Bounds DEF EventsOK
    <3> QED
      BY <3>1 DEF Gone, Event, Mask, Name
  <2> QED
    BY <1>2, <2>1, <2>2, <2>3 DEF EventsOK
<1>6. CASE Read
  BY <1>6, ReadQueue DEF Read, EventsOK
<1>7. CASE Told
  BY <1>7, EventTypes DEF Told, kernel, EventsOK
<1>8. ASSUME NEW w \in WatchNo, StartInsert(w) PROVE EventsOK'
  <2>1. CASE UNCHANGED store
    <3>1. UNCHANGED <<byDesc, nextWd, wd>>
      BY <1>8, <2>1 DEF StartInsert, EntriesOK, Stored
    <3> QED
      BY <1>1, <1>8, <3>1 DEF StartInsert, notifier
  <2>2. CASE ~ UNCHANGED store
    <3>1. UNCHANGED <<queue, event>>
      BY <1>8 DEF StartInsert, notifier
    <3> PICK d \in 1 .. MaxWd :
              /\ d = IF wd # 0 THEN wd ELSE nextWd
              /\ wd' = d /\ nextWd' = (IF wd # 0 THEN nextWd ELSE nextWd + 1)
              /\ byDesc' = [byDesc EXCEPT ![d] = @ \union {w}]
      BY <1>8, <2>2, InsertStep DEF EventsOK
    <3> QED
      BY <3>1, Bounds DEF EventsOK
  <2> QED
    BY <2>1, <2>2
<1> QED
  <2>1. CASE UNCHANGED watchVars
    BY <1>1, <2>1 DEF watchVars, watchState, notifier, kernel
  <2>2. CASE WatchNext
    <3>1. ASSUME ~ UNCHANGED <<queue, event, byDesc, nextWd, wd>>
          PROVE  \/ \E ch \in Changes : Touch(ch[1], ch[2])
                 \/ \E moved \in BOOLEAN : Vanish(moved)
                 \/ \E w \in WatchNo : Dealloc(w) \/ StartInsert(w)
                 \/ Read \/ Told
      BY <2>2, <3>1, WatchSteps
         DEF Elapse, ReleaseDir, RevokeDir, Poll, Tell, RevokeSweep, Withdraw, StartCheck,
             StartRecord, Cancel, NextCall, NextEnter, NextWake, TaskHook, TaskEnd, watchState,
             notifier, kernel
    <3> QED
      BY <1>1, <1>3, <1>4, <1>5, <1>6, <1>7, <1>8, <3>1
  <2> QED
    BY <2>1, <2>2

\* Every reachable state has entries and events of their types, and the entries are
\* those of the watches whose start inserted one.
THEOREM EntriesInductive == WatchSpec => [](EntriesOK /\ EventsOK)
<1>1. WatchInit => EntriesOK /\ EventsOK
  BY InitialMissed DEF MissedInv, EventInv
<1>2. EntriesOK /\ EventsOK /\ WaitersHeld /\ [WatchNext]_watchVars => (EntriesOK /\ EventsOK)'
  <2> SUFFICES ASSUME EntriesOK, EventsOK, WaitersHeld, [WatchNext]_watchVars
               PROVE  (EntriesOK /\ EventsOK)'
    OBVIOUS
  <2>1. EntriesOK'
    BY EntriesKeep DEF EventsOK
  <2>2. EventsOK'
    BY EventsKeep
  <2> QED
    BY <2>1, <2>2
<1> QED
  BY <1>1, <1>2, Inductive, PTL DEF WatchSpec

\* Of one watch: the flag says that a task sleeps at it, only one does, what was
\* gathered has its instants, and its end has notified who sleeps.
FlagOK(w) ==
    /\ store[w].waiting <=> Sleepers(w) # {}
    /\ \A t, u \in Sleepers(w) : t = u
GotOK(w) == Pending(w) <=> store[w].got.first # -1
EndTold(w) == store[w].end # "none" => Sleepers(w) \subseteq notified

WaitTyped == wait \in [Waiter -> [at : {"idle", "armed", "asleep"}, watch : WatchNo \union {0}]]
WaitInv == WaitTyped /\ \A w \in Stored : FlagOK(w) /\ GotOK(w) /\ EndTold(w)

\* One watch is left with its flag, and ends only if its sleepers are notified.
WaitKept(w) ==
    /\ store'[w].waiting = store[w].waiting
    /\ Pending(w)' <=> store'[w].got.first # -1
    /\ store'[w].end # "none" => store[w].end # "none" \/ Sleepers(w) \subseteq notified'

\* A step that leaves who sleeps where it is, and notifies at most more of them.
LEMMA WaitFrame ==
    ASSUME WaitInv, WaitTyped', Stored' = Stored,
           \A w \in Stored : WaitKept(w) /\ Sleepers(w)' = Sleepers(w),
           notified \subseteq notified'
    PROVE  WaitInv'
BY DEF WaitInv, WaitKept, FlagOK, GotOK, EndTold

\* end, for some of the watches, notifies who sleeps at them.
LEMMA EndAllWaits ==
    ASSUME EntriesOK, WaitInv, NEW S, NEW why \in WhyEnd, EndAll(S, why)
    PROVE  /\ Stored' = Stored /\ notified \subseteq notified'
           /\ \A w \in Stored : WaitKept(w)
<1>1. \A w \in Stored : store'[w] = IF w \in S /\ store[w].end = "none"
                                     THEN [store[w] EXCEPT !.end = why, !.got = NoneGathered]
                                     ELSE store[w]
  BY DEF EndAll
<1>2. Stored' = Stored /\ notified \subseteq notified'
  BY DEF EndAll, Stored
<1>3. ASSUME NEW w \in Stored, w \in S, store[w].end = "none"
      PROVE  /\ store'[w].waiting = store[w].waiting /\ store'[w].got = NoneGathered
             /\ Sleepers(w) \subseteq notified'
  <2>1. Sleepers(w) \subseteq notified'
    BY <1>3 DEF EndAll, Live
  <2> DEFINE x == store[w]
  <2>2. x \in Entry /\ store'[w] = [x EXCEPT !.end = why, !.got = NoneGathered]
    BY <1>1, <1>3 DEF EntriesOK
  <2>3. store'[w].waiting = x.waiting /\ store'[w].got = NoneGathered
    <3>1. /\ [x EXCEPT !.end = why, !.got = NoneGathered].got = NoneGathered
          /\ [x EXCEPT !.end = why, !.got = NoneGathered].waiting = x.waiting
      <4> HIDE DEF x
      <4> QED
        BY <2>2, EntryEnds
    <3> QED
      BY <2>2, <3>1
  <2> QED
    BY <2>1, <2>3 DEF x
<1>4. ASSUME NEW w \in Stored PROVE WaitKept(w)
  <2>1. CASE w \in S /\ store[w].end = "none"
    BY <1>3, <2>1, NoneTyped DEF WaitKept, Pending
  <2>2. CASE ~ (w \in S /\ store[w].end = "none")
    BY <1>1, <2>2 DEF WaitKept, Pending, WaitInv, GotOK
  <2> QED
    BY <2>1, <2>2
<1> QED
  BY <1>2, <1>4

\* Nothing is stored anew, and nobody is notified less.
LEMMA SameWaits ==
    ASSUME WaitInv, UNCHANGED store, notified \subseteq notified'
    PROVE  Stored' = Stored /\ \A w \in Stored : WaitKept(w)
BY DEF WaitInv, WaitKept, GotOK, Pending, Stored

\* end_if_withdrawn.
LEMMA EndIfWithdrawnWaits ==
    ASSUME EntriesOK, WaitInv, NEW w, EndIfWithdrawn(w)
    PROVE  /\ Stored' = Stored /\ notified \subseteq notified'
           /\ \A v \in Stored : WaitKept(v)
BY EndAllWaits, SameWaits DEF EndIfWithdrawn, WhyWithdrawn, WhyEnd

\* The clock, which starts no instant and drops none.
LEMMA ElapseWaits ==
    ASSUME EntriesOK, WaitInv, Elapse
    PROVE  Stored' = Stored /\ \A w \in Stored : WaitKept(w)
<1>1. ASSUME NEW w \in Stored PROVE WaitKept(w)
  <2> DEFINE x == store[w]
             f == Older(x.got.first, Limit)
             l == Older(x.got.last, Quiet)
             y == [x EXCEPT !.got = [x.got EXCEPT !.first = f, !.last = l]]
  <2>1. x \in Entry /\ x.got \in Gathered
    BY DEF EntriesOK, Entry
  <2>2. f # -1 <=> x.got.first # -1
    <3>1. \A bound \in Nat : \A age \in -1 .. bound : Older(age, bound) # -1 <=> age # -1
      BY DEF Older
    <3>2. x.got.first \in -1 .. Limit /\ Limit \in Nat
      BY <2>1, Bounds DEF Gathered, Limit
    <3> QED
      BY <3>1, <3>2
  <2>3. store'[w] \in {x, y}
    BY <2>1 DEF Elapse, Entry, Gathered
  <2> HIDE DEF x, f, l
  <2>4. /\ y.waiting = x.waiting /\ y.end = x.end
        /\ y.got.names = x.got.names /\ y.got.overflowed = x.got.overflowed
        /\ y.got.first = f
    BY <2>1 DEF Entry, Gathered
  <2> HIDE DEF y
  <2>5. x = store[w] /\ (x.got.names # {} \/ x.got.overflowed <=> x.got.first # -1)
    BY DEF x, WaitInv, GotOK, Pending
  <2> QED
    BY <2>2, <2>3, <2>4, <2>5 DEF WaitKept, Pending
<1>2. Stored' = Stored
  BY DEF Elapse, Stored
<1> QED
  BY <1>1, <1>2

\* deliver: what a watch gathers has its instants; a watch that is gone has ended.
LEMMA TellWaits ==
    ASSUME EntriesOK, EventsOK, WaitInv, NEW w \in WatchNo, Tell(w)
    PROVE  /\ Stored' = Stored /\ notified \subseteq notified'
           /\ \A v \in Stored : WaitKept(v)
<1>1. CASE EndAll({w}, "gone")
  BY <1>1, EndAllWaits DEF WhyEnd
<1>2. CASE UNCHANGED <<store, notified>>
  BY <1>2, SameWaits
<1>3. CASE /\ Live(w) /\ notified' = notified \union Sleepers(w)
           /\ event = Overflow \/ Effect(store[w].target, event.child, event.mask) # {}
           /\ store' = [store EXCEPT ![w].got = Gather(@, store[w].target, event)]
  <2> DEFINE x == store[w]
             g == Gather(x.got, x.target, event)
             y == [x EXCEPT !.got = g]
  <2>1. x \in Entry /\ x.got \in Gathered /\ store' = [store EXCEPT ![w] = y] /\ w \in Stored
    BY <1>3 DEF EntriesOK, Entry, Live
  <2>2. g \in Gathered /\ g.first # -1 /\ (g.names # {} \/ g.overflowed)
    BY <1>3, <2>1, GatherAdds DEF EventsOK
  <2>3. y.waiting = x.waiting /\ y.end = x.end /\ y.got = g
    <3> HIDE DEF x, g
    <3> QED
      BY <2>1, <2>2, EntryGathers DEF SameWatch
  <2>4. /\ Stored' = Stored /\ store'[w] = y
        /\ \A v \in Stored : v # w => store'[v] = store[v]
    BY <2>1 DEF EntriesOK, Stored
  <2> HIDE DEF y, g
  <2>5. WaitKept(w)
    BY <1>3, <2>2, <2>3, <2>4 DEF WaitKept, Pending, Live
  <2>6. \A v \in Stored : v # w => WaitKept(v)
    BY <2>4 DEF WaitKept, Pending, WaitInv, GotOK
  <2> QED
    BY <1>3, <2>4, <2>5, <2>6
<1> QED
  BY <1>1, <1>2, <1>3 DEF Tell

\* The notifier's sweep notifies who sleeps at the watches it ends.
LEMMA PollWaits ==
    ASSUME EntriesOK, WaitInv, Poll
    PROVE  /\ Stored' = Stored /\ notified \subseteq notified'
           /\ \A w \in Stored : WaitKept(w)
<1> DEFINE over == {w \in InStore : Live(w) /\ WhyWithdrawn(w) # "none"}
<1>1. /\ store' = [w \in Stored |-> IF w \in over
                                      THEN [store[w] EXCEPT !.end = WhyWithdrawn(w),
                                                            !.got = NoneGathered]
                                      ELSE store[w]]
      /\ notified' = notified \union UNION {Sleepers(w) : w \in over}
  BY DEF Poll
<1> HIDE DEF over
<1>2. ASSUME NEW w \in Stored PROVE WaitKept(w)
  <2>1. CASE w \notin over
    BY <1>1, <2>1 DEF WaitKept, Pending, WaitInv, GotOK
  <2>2. CASE w \in over
    <3>1. Sleepers(w) \subseteq notified'
      BY <1>1, <2>2
    <3>2. WhyWithdrawn(w) \in WhyEnd
      BY <2>2 DEF over, WhyWithdrawn, WhyEnd
    <3> PICK why \in WhyEnd : why = WhyWithdrawn(w)
      BY <3>2
    <3> DEFINE x == store[w]
    <3>3. x \in Entry /\ store'[w] = [x EXCEPT !.end = why, !.got = NoneGathered]
      BY <1>1, <2>2 DEF EntriesOK
    <3>4. store'[w].waiting = x.waiting /\ store'[w].got = NoneGathered
      <4>1. /\ [x EXCEPT !.end = why, !.got = NoneGathered].got = NoneGathered
            /\ [x EXCEPT !.end = why, !.got = NoneGathered].waiting = x.waiting
        <5> HIDE DEF x
        <5> QED
          BY <3>3, EntryEnds
      <4> QED
        BY <3>3, <4>1
    <3> QED
      BY <3>1, <3>4, NoneTyped DEF WaitKept, Pending
  <2> QED
    BY <2>1, <2>2
<1>3. Stored' = Stored /\ notified \subseteq notified'
  BY <1>1 DEF Stored
<1> QED
  BY <1>2, <1>3

\* A drop notifies who sleeps at the watch.
LEMMA DeallocWaits ==
    ASSUME EntriesOK, WaitInv, NEW w \in WatchNo, Dealloc(w)
    PROVE  /\ Stored' = Stored /\ notified \subseteq notified'
           /\ \A v \in Stored : WaitKept(v)
<1>1. /\ StoreStep /\ w \in Stored
      /\ \A v \in Stored : v # w => store'[v] = store[v]
      /\ store'[w].got = NoneGathered /\ store'[w].waiting = store[w].waiting
      /\ notified' = notified \union Sleepers(w)
  BY DroppedStep DEF Dealloc
<1>2. WaitKept(w)
  BY <1>1, NoneTyped DEF WaitKept, Pending
<1>3. \A v \in Stored : v # w => WaitKept(v)
  BY <1>1 DEF WaitKept, Pending, WaitInv, GotOK
<1> QED
  BY <1>1, <1>2, <1>3 DEF StoreStep

\* A start enters a watch at which nobody can wait yet.
LEMMA InsertWaits ==
    ASSUME EntriesOK, EventsOK, WaitersHeld, WaitInv, NEW w \in WatchNo, StartInsert(w)
    PROVE  WaitInv'
<1>1. UNCHANGED <<wait, notified>>
  BY DEF StartInsert, waits
<1>2. \A v : Sleepers(v)' = Sleepers(v)
  BY <1>1 DEF Sleepers
<1>3. CASE UNCHANGED store
  BY <1>1, <1>2, <1>3 DEF WaitInv, WaitTyped, FlagOK, GotOK, EndTold, Pending, Stored
<1>4. CASE ~ UNCHANGED store
  <2>1. /\ w \notin Stored /\ Stored' = Stored \union {w}
        /\ \A v \in Stored : store'[v] = store[v]
        /\ store'[w].end = "none" /\ store'[w].waiting = FALSE /\ store'[w].got = NoneGathered
    BY <1>4, InsertStep DEF EventsOK
  <2>2. Sleepers(w) = {}
    BY <2>1 DEF Sleepers, WaitersHeld, EntriesOK
  <2>3. (FlagOK(w) /\ GotOK(w) /\ EndTold(w))'
    BY <1>2, <2>1, <2>2, NoneTyped DEF FlagOK, GotOK, EndTold, Pending
  <2>4. \A v \in Stored : (FlagOK(v) /\ GotOK(v) /\ EndTold(v))'
    BY <1>1, <1>2, <2>1 DEF WaitInv, FlagOK, GotOK, EndTold, Pending
  <2> QED
    BY <1>1, <2>1, <2>3, <2>4 DEF WaitInv, WaitTyped
<1> QED
  BY <1>3, <1>4

\* The places a task can be put in.
LEMMA WaitMoves ==
    ASSUME WaitTyped, NEW t \in Waiter, NEW at \in {"idle", "armed", "asleep"},
           NEW v \in WatchNo \union {0}, wait' = [wait EXCEPT ![t] = [at |-> at, watch |-> v]]
    PROVE  /\ WaitTyped'
           /\ \A w : ~ (at = "asleep" /\ v = w) => Sleepers(w)' = Sleepers(w) \ {t}
           /\ at = "asleep" => Sleepers(v)' = Sleepers(v) \union {t}
<1>1. \A u \in Waiter : wait'[u] = IF u = t THEN [at |-> at, watch |-> v] ELSE wait[u]
  BY DEF WaitTyped
<1>2. WaitTyped'
  BY DEF WaitTyped
<1>3. ASSUME NEW w, ~ (at = "asleep" /\ v = w)
      PROVE  Sleepers(w)' = Sleepers(w) \ {t}
  <2>1. [at |-> at, watch |-> v] # [at |-> "asleep", watch |-> w]
    BY <1>3
  <2> QED
    BY <1>1, <2>1 DEF Sleepers
<1>4. at = "asleep" => Sleepers(v)' = Sleepers(v) \union {t}
  BY <1>1 DEF Sleepers
<1> QED
  BY <1>2, <1>3, <1>4

\* The loop of next, by the only task that may be asleep at the watch: it sleeps and
\* the flag says so, or it leaves and the flag goes.
LEMMA LoopWaits ==
    ASSUME EntriesOK, WaitInv, NEW t \in Waiter, NEW w \in Stored, wait[t].watch = w,
           Sleepers(w) \subseteq {t}, notified \ {t} \subseteq notified', Loop(t, w)
    PROVE  WaitInv'
<1> DEFINE x == store[w]
           r == wait'[t]
<1>1. /\ WaitTyped /\ x \in Entry /\ w \in WatchNo
      /\ wait[t] \in [at : {"idle", "armed", "asleep"}, watch : WatchNo \union {0}]
  BY DEF WaitInv, WaitTyped, EntriesOK
<1>2. \/ /\ x.end = "none" /\ wait' = [wait EXCEPT ![t] = [at |-> "asleep", watch |-> w]]
         /\ store' = [store EXCEPT ![w] = [x EXCEPT !.waiting = TRUE]]
      \/ /\ wait' = [wait EXCEPT ![t] = [at |-> "idle", watch |-> 0]]
         /\ store' \in {[store EXCEPT ![w] = [x EXCEPT !.waiting = FALSE]],
                        [store EXCEPT ![w] = [x EXCEPT !.waiting = FALSE, !.got = NoneGathered]]}
  BY <1>1 DEF Loop, EntriesOK, WaitTyped
<1> HIDE DEF x
<1>3. ASSUME NEW b \in BOOLEAN
      PROVE  /\ [x EXCEPT !.waiting = b].waiting = b /\ [x EXCEPT !.waiting = b].end = x.end
             /\ [x EXCEPT !.waiting = b].got = x.got
  BY <1>1, EntryWaits DEF SameWatch
<1>4. /\ [x EXCEPT !.waiting = FALSE, !.got = NoneGathered].waiting = FALSE
      /\ [x EXCEPT !.waiting = FALSE, !.got = NoneGathered].got = NoneGathered
  BY <1>1, EntryReports
<1>5. x.got.names # {} \/ x.got.overflowed <=> x.got.first # -1
  BY DEF x, WaitInv, GotOK, Pending
<1>6. Stored' = Stored /\ \A v \in Stored : v # w => store'[v] = store[v]
  BY <1>2 DEF EntriesOK, Stored
<1>7. \A v \in Stored : v # w => t \notin Sleepers(v)
  BY DEF Sleepers
<1>8. ASSUME NEW v \in Stored, v # w, Sleepers(v)' = Sleepers(v)
      PROVE  (FlagOK(v) /\ GotOK(v) /\ EndTold(v))'
  BY <1>6, <1>7, <1>8 DEF WaitInv, FlagOK, GotOK, EndTold, Pending
<1>9. CASE /\ x.end = "none" /\ wait' = [wait EXCEPT ![t] = [at |-> "asleep", watch |-> w]]
           /\ store' = [store EXCEPT ![w] = [x EXCEPT !.waiting = TRUE]]
  <2>1. /\ WaitTyped' /\ Sleepers(w)' = {t}
        /\ \A v \in Stored : v # w => Sleepers(v)' = Sleepers(v)
    <3>1. /\ WaitTyped' /\ \A v : v # w => Sleepers(v)' = Sleepers(v) \ {t}
          /\ Sleepers(w)' = Sleepers(w) \union {t}
      BY <1>1, <1>9, WaitMoves
    <3> QED
      BY <1>7, <3>1
  <2>2. store'[w] = [x EXCEPT !.waiting = TRUE]
    BY <1>9 DEF EntriesOK, Stored
  <2>3. store'[w].waiting = TRUE /\ store'[w].end = "none" /\ store'[w].got = x.got
    BY <1>3, <1>9, <2>2
  <2>4. (FlagOK(w) /\ GotOK(w) /\ EndTold(w))'
    BY <1>5, <2>1, <2>3 DEF FlagOK, GotOK, EndTold, Pending
  <2> QED
    BY <1>6, <1>8, <2>1, <2>4 DEF WaitInv
<1>10. CASE /\ wait' = [wait EXCEPT ![t] = [at |-> "idle", watch |-> 0]]
            /\ store' \in {[store EXCEPT ![w] = [x EXCEPT !.waiting = FALSE]],
                           [store EXCEPT ![w] = [x EXCEPT !.waiting = FALSE,
                                                          !.got = NoneGathered]]}
  <2>1. /\ WaitTyped' /\ Sleepers(w)' = {}
        /\ \A v \in Stored : v # w => Sleepers(v)' = Sleepers(v)
    <3>1. WaitTyped' /\ \A v : Sleepers(v)' = Sleepers(v) \ {t}
      BY <1>1, <1>10, WaitMoves
    <3> QED
      BY <1>7, <3>1
  <2>2. store'[w] \in {[x EXCEPT !.waiting = FALSE],
                       [x EXCEPT !.waiting = FALSE, !.got = NoneGathered]}
    BY <1>10 DEF EntriesOK, Stored
  <2>3. store'[w].waiting = FALSE /\ store'[w].got \in {x.got, NoneGathered}
    BY <1>3, <1>4, <2>2
  <2>4. (FlagOK(w) /\ GotOK(w) /\ EndTold(w))'
    BY <1>5, <2>1, <2>3, NoneTyped DEF FlagOK, GotOK, EndTold, Pending
  <2> QED
    BY <1>6, <1>8, <2>1, <2>4 DEF WaitInv
<1> QED
  BY <1>2, <1>9, <1>10

\* next, from its call to its end.
LEMMA NextWaits ==
    ASSUME EntriesOK, WaitersHeld, WaitInv, NEW t \in Waiter,
           NextEnter(t) \/ NextWake(t) \/ \E w \in WatchNo : NextCall(t, w)
    PROVE  WaitInv'
<1>1. /\ WaitTyped
      /\ wait[t] \in [at : {"idle", "armed", "asleep"}, watch : WatchNo \union {0}]
  BY DEF WaitInv, WaitTyped
<1>2. CASE NextEnter(t)
  <2> DEFINE w == wait[t].watch
  <2>1. w \in Stored /\ wait[t].at = "armed" /\ notified' = notified
    BY <1>2 DEF NextEnter, WaitersHeld, EntriesOK
  <2>2. \A v : t \notin Sleepers(v)
    BY <2>1 DEF Sleepers
  <2>3. CASE wait' = [wait EXCEPT ![t] = [at |-> "idle", watch |-> 0]] /\ UNCHANGED store
    <3>1. WaitTyped' /\ \A v : Sleepers(v)' = Sleepers(v) \ {t}
      BY <1>1, <2>3, WaitMoves
    <3>2. \A v : Sleepers(v)' = Sleepers(v)
      BY <2>2, <3>1
    <3> QED
      BY <2>1, <2>3, <3>1, <3>2, SameWaits, WaitFrame
  <2>4. CASE Loop(t, w) /\ ~ store[w].waiting
    <3>1. Sleepers(w) = {}
      BY <2>1, <2>4 DEF WaitInv, FlagOK
    <3> QED
      BY <2>1, <2>4, <3>1, LoopWaits
  <2> QED
    BY <1>2, <2>3, <2>4 DEF NextEnter
<1>3. CASE NextWake(t)
  <2> DEFINE w == wait[t].watch
  <2>1. /\ w \in Stored /\ wait[t].at = "asleep" /\ notified' = notified \ {t}
        /\ Loop(t, w)
    BY <1>3 DEF NextWake, WaitersHeld, EntriesOK
  <2>2. t \in Sleepers(w)
    BY <1>1, <2>1 DEF Sleepers
  <2>3. Sleepers(w) \subseteq {t}
    BY <2>1, <2>2 DEF WaitInv, FlagOK
  <2> QED
    BY <2>1, <2>3, LoopWaits
<1>4. ASSUME NEW w \in WatchNo, NextCall(t, w) PROVE WaitInv'
  <2>1. /\ wait[t].at = "idle" /\ EndIfWithdrawn(w)
        /\ wait' = [wait EXCEPT ![t] = [at |-> "armed", watch |-> w]]
    BY <1>4 DEF NextCall
  <2>2. \A v : t \notin Sleepers(v)
    BY <2>1 DEF Sleepers
  <2>3. WaitTyped' /\ \A v : Sleepers(v)' = Sleepers(v) \ {t}
    BY <1>1, <2>1, WaitMoves
  <2>4. \A v : Sleepers(v)' = Sleepers(v)
    BY <2>2, <2>3
  <2> QED
    BY <2>1, <2>3, <2>4, EndIfWithdrawnWaits, WaitFrame
<1> QED
  BY <1>2, <1>3, <1>4

\* Whatever happens, who waits agrees with the flags, the instants and the ends.
LEMMA WaitKeeps ==
    ASSUME EntriesOK, EventsOK, WaitersHeld, WaitInv, [WatchNext]_watchVars
    PROVE  WaitInv'
<1>1. ASSUME UNCHANGED wait, Stored' = Stored, notified \subseteq notified',
             \A w \in Stored : WaitKept(w)
      PROVE  WaitInv'
  <2>1. \A w : Sleepers(w)' = Sleepers(w)
    BY <1>1 DEF Sleepers
  <2>2. WaitTyped'
    BY <1>1 DEF WaitInv, WaitTyped
  <2> QED
    BY <1>1, <2>1, <2>2, WaitFrame
<1>2. ASSUME UNCHANGED <<store, wait>>, notified \subseteq notified' PROVE WaitInv'
  BY <1>1, <1>2, SameWaits
<1>3. ASSUME NEW w \in WatchNo, StartRecord(w) \/ Cancel(w) \/ Withdraw(w) PROVE WaitInv'
  <2>1. EndAll({w}, "revoked") \/ EndAll({w}, "canceled") => WaitInv'
    BY <1>1, <1>3, EndAllWaits DEF StartRecord, Cancel, Withdraw, waits, WhyEnd
  <2>2. EndIfWithdrawn(w) => WaitInv'
    BY <1>1, <1>3, EndIfWithdrawnWaits DEF StartRecord, Cancel, Withdraw, waits
  <2> QED
    BY <1>2, <1>3, <2>1, <2>2 DEF StartRecord, Cancel, Withdraw, waits
<1>4. CASE Elapse
  BY <1>1, <1>4, ElapseWaits DEF Elapse, waits
<1>5. CASE Poll
  BY <1>1, <1>5, PollWaits DEF Poll, waits
<1>6. ASSUME NEW w \in WatchNo, Tell(w) PROVE WaitInv'
  BY <1>1, <1>6, TellWaits DEF Tell, waits
<1>7. ASSUME NEW w \in WatchNo, Dealloc(w) PROVE WaitInv'
  BY <1>1, <1>7, DeallocWaits DEF Dealloc, waits
<1>8. ASSUME NEW t \in Waiter, TaskHook(t) \/ TaskEnd(t) PROVE WaitInv'
  BY <1>2, <1>8 DEF TaskHook, TaskEnd
<1>9. CASE UNCHANGED watchVars
  BY <1>2, <1>9 DEF watchVars, watchState, waits
<1>10. CASE /\ WatchNext
            /\ ~ Elapse /\ ~ Poll
            /\ \A w \in WatchNo : /\ ~ StartRecord(w) /\ ~ Cancel(w) /\ ~ Withdraw(w)
                                  /\ ~ Tell(w) /\ ~ Dealloc(w) /\ ~ StartInsert(w)
            /\ \A t \in Waiter : /\ ~ TaskHook(t) /\ ~ TaskEnd(t) /\ ~ NextEnter(t)
                                 /\ ~ NextWake(t) /\ \A w \in WatchNo : ~ NextCall(t, w)
  <2>1. UNCHANGED <<store, wait, notified>>
    BY <1>10, WatchSteps
       DEF Touch, Vanish, ReleaseDir, RevokeDir, Read, Told, RevokeSweep, StartCheck, watchState,
           waits
  <2> QED
    BY <1>2, <2>1
<1> QED
  BY <1>3, <1>4, <1>5, <1>6, <1>7, <1>8, <1>9, <1>10, InsertWaits, NextWaits

\* At the start nobody waits.
LEMMA InitialWaits == WatchInit => WaitInv
BY DEF WatchInit, WaitInv, WaitTyped, Stored

\* At most one task sleeps at a watch, in numbers.
LEMMA OneSleeper ==
    ASSUME NEW w \in Stored, FlagOK(w)
    PROVE  Cardinality(Sleepers(w)) <= 1
<1>1. CASE Sleepers(w) = {}
  BY <1>1, FS_EmptySet
<1>2. CASE Sleepers(w) # {}
  <2> PICK t \in Sleepers(w) : TRUE
    BY <1>2
  <2>1. Sleepers(w) = {t}
    BY DEF FlagOK
  <2>2. Cardinality({t}) = 1
    BY FS_Singleton
  <2> QED
    BY <2>1, <2>2
<1> QED
  BY <1>1, <1>2

\* The waiting flag of a watch is set exactly while one task sleeps at it, what was
\* gathered has its instants, and an end leaves nobody asleep that was not notified
\* (watch.rs: next, end, deliver), also of a directory that is moved.
THEOREM WaitsAgreeHolds == WatchSpec => []WaitsAgree
<1>1. WatchInit => WaitInv
  BY InitialWaits
<1>2. EntriesOK /\ EventsOK /\ WaitersHeld /\ WaitInv /\ [WatchNext]_watchVars => WaitInv'
  BY WaitKeeps
<1>3. WaitInv => WaitsAgree
  <2> SUFFICES ASSUME WaitInv, NEW w \in Stored
               PROVE  /\ store[w].waiting <=> \E t \in Waiter : wait[t] = [at |-> "asleep", watch |-> w]
                      /\ Cardinality(Sleepers(w)) <= 1
                      /\ Pending(w) <=> store[w].got.first # -1
                      /\ store[w].end # "none" => Sleepers(w) \subseteq notified
    BY DEF WaitsAgree
  <2>1. Cardinality(Sleepers(w)) <= 1
    BY OneSleeper DEF WaitInv
  <2>2. Sleepers(w) # {} <=> \E t \in Waiter : wait[t] = [at |-> "asleep", watch |-> w]
    BY DEF Sleepers
  <2> QED
    BY <2>1, <2>2 DEF WaitInv, FlagOK, GotOK, EndTold
<1> QED
  BY <1>1, <1>2, <1>3, Inductive, EntriesInductive, PTL DEF WatchSpec
=============================================================================

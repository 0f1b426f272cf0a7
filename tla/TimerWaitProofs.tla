-------------------------- MODULE TimerWaitProofs --------------------------
(* TimerWait for every set of tasks and every interval. *)
EXTENDS TimerWait, TLAPS

\* Who holds the state lock, and the flag that outlives its release.
LockInv ==
    /\ \A t \in Task : pc[t] \in {"enter", "loop", "leave"} <=> stateLock = t
    /\ OneWait

\* What the hook relies on: a sleeper is armed, and the stop that ended its
\* task is not over.
WakeInv ==
    /\ \A t \in sleeping : pc[t] = "asleep"
    /\ \A t \in Task : pc[t] \in {"lock", "enter", "loop", "asleep", "relock", "leave",
                                  "disarm"} => t \in armed
    /\ upc # "idle" => target \in stopped
    /\ NoLostWake

\* What a wait knows once it left the loop: the deadline, which lies an interval
\* after the last tick, has passed unless the wait ends unfired.
DueInv ==
    /\ next >= lastFired + Interval
    /\ \A t \in Task : pc[t] = "leave" => canceled \/ t \in stopped \/ now >= next

Inv == TypeOK /\ LockInv /\ WakeInv /\ DueInv

\* A timer starts in every part of the invariant.
LEMMA InvInit == Init => Inv
<1> SUFFICES ASSUME Init PROVE Inv
  OBVIOUS
<1> USE IntervalAssumption, HolderAssumption DEF Init
<1>1. TypeOK BY DEF TypeOK, PC, Answer
<1>2. LockInv BY DEF LockInv, OneWait, Waits
<1>3. WakeInv BY DEF WakeInv, NoLostWake
<1>4. DueInv BY DEF DueInv
<1> QED BY <1>1, <1>2, <1>3, <1>4 DEF Inv

\* Every step of `next`, `cancel`, `route_dealloc` and `stop` keeps the types.
LEMMA TypeOKNext == TypeOK /\ [Next]_vars => TypeOK'
<1> SUFFICES ASSUME TypeOK, [Next]_vars PROVE TypeOK'
  OBVIOUS
<1> USE IntervalAssumption, HolderAssumption
<1> USE DEF TypeOK, PC, Answer, timerVars, taskVars, uiVars, Goto, Return, Notify
<1>1. ASSUME NEW t \in Task, Call(t) \/ Lookup(t) \/ Arm(t) \/ Lock(t) \/ Enter(t)
      PROVE  TypeOK'
  BY <1>1 DEF Call, Lookup, Arm, Lock, Enter
<1>2. ASSUME NEW t \in Task, Loop(t) \/ Awake(t) \/ Spurious(t) \/ Relock(t)
      PROVE  TypeOK'
  BY <1>2 DEF Loop, Awake, Spurious, Relock
<1>3. ASSUME NEW t \in Task, Leave(t) \/ Disarm(t) \/ Stop(t)
      PROVE  TypeOK'
  <2>1. CASE Leave(t)
    <3>1. next' \in Nat /\ lastFired' \in Nat BY <2>1 DEF Leave
    <3> QED BY <2>1, <3>1 DEF Leave
  <2>2. CASE Disarm(t) BY <2>2 DEF Disarm
  <2>3. CASE Stop(t) BY <2>3 DEF Stop
  <2> QED BY <1>3, <2>1, <2>2, <2>3
<1>4. CASE StopLock \/ Hook \/ Cancel \/ Drop \/ DropCancels \/ Tick
  <2>1. CASE StopLock \/ Hook BY <2>1 DEF StopLock, Hook
  <2>2. CASE Cancel \/ Drop \/ DropCancels BY <2>2 DEF Cancel, Drop, DropCancels
  <2>3. CASE Tick BY <2>3 DEF Tick
  <2> QED BY <1>4, <2>1, <2>2, <2>3
<1>5. CASE UNCHANGED vars BY <1>5 DEF vars
<1> QED BY <1>1, <1>2, <1>3, <1>4, <1>5 DEF Next, NextStep, UiStep

\* A mutex is held by the thread that is inside it, and by no other; `waiting`
\* is set while exactly one wait is.
LEMMA LockInvNext == TypeOK /\ LockInv /\ [Next]_vars => LockInv'
<1> SUFFICES ASSUME TypeOK, LockInv, [Next]_vars PROVE LockInv'
  OBVIOUS
<1> USE IntervalAssumption, HolderAssumption
<1> USE DEF TypeOK, LockInv, OneWait, Waits, timerVars, taskVars, uiVars, Goto, Return, Notify
<1>1. ASSUME NEW t \in Task, Call(t) PROVE LockInv'
  BY <1>1 DEF Call
<1>2. ASSUME NEW t \in Task, Lookup(t) PROVE LockInv'
  BY <1>2 DEF Lookup
<1>3. ASSUME NEW t \in Task, Arm(t) PROVE LockInv'
  BY <1>3 DEF Arm
<1>4. ASSUME NEW t \in Task, Lock(t) PROVE LockInv'
  BY <1>4 DEF Lock
<1>5. ASSUME NEW t \in Task, Enter(t) PROVE LockInv'
  BY <1>5 DEF Enter
<1>6. ASSUME NEW t \in Task, Loop(t) PROVE LockInv'
  BY <1>6 DEF Loop
<1>7. ASSUME NEW t \in Task, Awake(t) PROVE LockInv'
  BY <1>7 DEF Awake
<1>8. ASSUME NEW t \in Task, Spurious(t) PROVE LockInv'
  BY <1>8 DEF Spurious
<1>9. ASSUME NEW t \in Task, Relock(t) PROVE LockInv'
  BY <1>9 DEF Relock
<1>10. ASSUME NEW t \in Task, Leave(t) PROVE LockInv'
  BY <1>10 DEF Leave
<1>11. ASSUME NEW t \in Task, Disarm(t) PROVE LockInv'
  BY <1>11 DEF Disarm
<1>12. ASSUME NEW t \in Task, Stop(t) PROVE LockInv'
  BY <1>12 DEF Stop
<1>13. CASE StopLock BY <1>13 DEF StopLock
<1>14. CASE Hook BY <1>14 DEF Hook
<1>15. CASE Cancel BY <1>15 DEF Cancel
<1>16. CASE Drop BY <1>16 DEF Drop
<1>17. CASE DropCancels BY <1>17 DEF DropCancels
<1>18. CASE Tick BY <1>18 DEF Tick
<1>19. CASE UNCHANGED vars BY <1>19 DEF vars
<1> QED
  BY <1>1, <1>2, <1>3, <1>4, <1>5, <1>6, <1>7, <1>8, <1>9, <1>10, <1>11,
     <1>12, <1>13, <1>14, <1>15, <1>16, <1>17, <1>18, <1>19
  DEF Next, NextStep, UiStep

\* Whoever decides to sleep has been neither stopped nor cancelled, or is about
\* to be notified: the notifier holds the lock the sleeper checks under.
LEMMA WakeInvNext == TypeOK /\ LockInv /\ WakeInv /\ [Next]_vars => WakeInv'
<1> SUFFICES ASSUME TypeOK, LockInv, WakeInv, [Next]_vars PROVE WakeInv'
  OBVIOUS
<1> USE IntervalAssumption, HolderAssumption
<1> USE DEF TypeOK, WakeInv, NoLostWake, timerVars, taskVars, uiVars, Goto, Return,
            Notify
<1>1. ASSUME NEW t \in Task, Call(t) PROVE WakeInv'
  BY <1>1 DEF Call
<1>2. ASSUME NEW t \in Task, Lookup(t) PROVE WakeInv'
  BY <1>2 DEF Lookup
<1>3. ASSUME NEW t \in Task, Arm(t) PROVE WakeInv'
  BY <1>3 DEF Arm
<1>4. ASSUME NEW t \in Task, Lock(t) PROVE WakeInv'
  BY <1>4 DEF Lock
<1>5. ASSUME NEW t \in Task, Enter(t) PROVE WakeInv'
  BY <1>5 DEF Enter
<1>6. ASSUME NEW t \in Task, Loop(t) PROVE WakeInv'
  BY <1>6 DEF Loop
<1>7. ASSUME NEW t \in Task, Awake(t) PROVE WakeInv'
  BY <1>7 DEF Awake
<1>8. ASSUME NEW t \in Task, Spurious(t) PROVE WakeInv'
  BY <1>8 DEF Spurious
<1>9. ASSUME NEW t \in Task, Relock(t) PROVE WakeInv'
  BY <1>9 DEF Relock
<1>10. ASSUME NEW t \in Task, Leave(t) PROVE WakeInv'
  BY <1>10 DEF Leave
<1>11. ASSUME NEW t \in Task, Disarm(t) PROVE WakeInv'
  BY <1>11 DEF Disarm
<1>12. ASSUME NEW t \in Task, Stop(t) PROVE WakeInv'
  BY <1>12 DEF Stop
<1>13. CASE StopLock BY <1>13 DEF StopLock
<1>14. CASE Hook BY <1>14 DEF Hook
<1>15. CASE Cancel BY <1>15 DEF Cancel
<1>16. CASE Drop BY <1>16 DEF Drop
<1>17. CASE DropCancels BY <1>17 DEF DropCancels
<1>18. CASE Tick BY <1>18 DEF Tick
<1>19. CASE UNCHANGED vars BY <1>19 DEF vars
<1> QED
  BY <1>1, <1>2, <1>3, <1>4, <1>5, <1>6, <1>7, <1>8, <1>9, <1>10, <1>11,
     <1>12, <1>13, <1>14, <1>15, <1>16, <1>17, <1>18, <1>19
  DEF Next, NextStep, UiStep

\* The next due time is later than the last tick, whenever the wait returns.
LEMMA DueInvNext == TypeOK /\ LockInv /\ DueInv /\ [Next]_vars => DueInv'
<1> SUFFICES ASSUME TypeOK, LockInv, DueInv, [Next]_vars PROVE DueInv'
  OBVIOUS
<1> USE IntervalAssumption, HolderAssumption
<1> USE DEF TypeOK, LockInv, DueInv, timerVars, taskVars, uiVars, Goto, Return, Notify
<1>1. ASSUME NEW t \in Task, Call(t) PROVE DueInv'
  BY <1>1 DEF Call
<1>2. ASSUME NEW t \in Task, Lookup(t) PROVE DueInv'
  BY <1>2 DEF Lookup
<1>3. ASSUME NEW t \in Task, Arm(t) PROVE DueInv'
  BY <1>3 DEF Arm
<1>4. ASSUME NEW t \in Task, Lock(t) PROVE DueInv'
  BY <1>4 DEF Lock
<1>5. ASSUME NEW t \in Task, Enter(t) PROVE DueInv'
  BY <1>5 DEF Enter
<1>6. ASSUME NEW t \in Task, Loop(t) PROVE DueInv'
  BY <1>6 DEF Loop
<1>7. ASSUME NEW t \in Task, Awake(t) PROVE DueInv'
  BY <1>7 DEF Awake
<1>8. ASSUME NEW t \in Task, Spurious(t) PROVE DueInv'
  BY <1>8 DEF Spurious
<1>9. ASSUME NEW t \in Task, Relock(t) PROVE DueInv'
  BY <1>9 DEF Relock
<1>10. ASSUME NEW t \in Task, Leave(t) PROVE DueInv'
  BY <1>10 DEF Leave
<1>11. ASSUME NEW t \in Task, Disarm(t) PROVE DueInv'
  BY <1>11 DEF Disarm
<1>12. ASSUME NEW t \in Task, Stop(t) PROVE DueInv'
  BY <1>12 DEF Stop
<1>13. CASE StopLock BY <1>13 DEF StopLock
<1>14. CASE Hook BY <1>14 DEF Hook
<1>15. CASE Cancel BY <1>15 DEF Cancel
<1>16. CASE Drop BY <1>16 DEF Drop
<1>17. CASE DropCancels BY <1>17 DEF DropCancels
<1>18. CASE Tick BY <1>18 DEF Tick
<1>19. CASE UNCHANGED vars BY <1>19 DEF vars
<1> QED
  BY <1>1, <1>2, <1>3, <1>4, <1>5, <1>6, <1>7, <1>8, <1>9, <1>10, <1>11,
     <1>12, <1>13, <1>14, <1>15, <1>16, <1>17, <1>18, <1>19
  DEF Next, NextStep, UiStep

\* The parts together are an invariant of one timer.
THEOREM Inductive == Spec => []Inv
<1>1. Inv /\ [Next]_vars => Inv'
  BY TypeOKNext, LockInvNext, WakeInvNext, DueInvNext DEF Inv
<1> QED BY <1>1, InvInit, PTL DEF Spec

\* Every variable of a timer keeps its type.
THEOREM TypeCorrect == Spec => []TypeOK
<1>1. Inv => TypeOK BY DEF Inv
<1> QED BY <1>1, Inductive, PTL

\* The waiting flag names exactly one wait, however waits end.
THEOREM OneWaitHolds == Spec => []OneWait
<1>1. Inv => OneWait BY DEF Inv, LockInv
<1> QED BY <1>1, Inductive, PTL

\* No wake falls between the check and the sleep.
THEOREM NoLostWakeHolds == Spec => []NoLostWake
<1>1. Inv => NoLostWake BY DEF Inv, WakeInv
<1> QED BY <1>1, Inductive, PTL

\* Ticks keep their distance, and none goes to an ended task or timer.
THEOREM CadenceHolds == Spec => Cadence
<1> DEFINE Keeps == \A t \in Task : answer[t] # "fired" /\ answer'[t] = "fired" =>
                      now >= lastFired + Interval /\ ~canceled /\ t \notin stopped
<1>1. Inv /\ [Next]_vars => [Keeps]_vars
  <2> SUFFICES ASSUME Inv, Next, NEW u \in Task, answer[u] # "fired",
                      answer'[u] = "fired"
               PROVE  now >= lastFired + Interval /\ ~canceled /\ u \notin stopped
    OBVIOUS
  <2> USE DEF Inv, TypeOK
  <2>1. ASSUME NEW t \in Task, Leave(t)
        PROVE  now >= lastFired + Interval /\ ~canceled /\ u \notin stopped
    <3>1. u = t /\ ~canceled /\ t \notin stopped
      BY <2>1 DEF Leave, Return
    <3>2. now >= next /\ next >= lastFired + Interval
      BY <2>1, <3>1 DEF Leave, DueInv
    <3> QED BY <3>1, <3>2, IntervalAssumption
  <2>2. ASSUME NEW t \in Task,
               \/ Call(t) \/ Lookup(t) \/ Arm(t) \/ Lock(t) \/ Enter(t) \/ Loop(t)
               \/ Awake(t) \/ Spurious(t) \/ Relock(t) \/ Disarm(t) \/ Stop(t)
        PROVE  FALSE
    BY <2>2 DEF Call, Lookup, Arm, Lock, Enter, Loop, Awake, Spurious, Relock,
       Disarm, Stop, Return
  <2>3. CASE StopLock \/ Hook \/ Cancel \/ Drop \/ DropCancels \/ Tick
    BY <2>3 DEF StopLock, Hook, Cancel, Drop, DropCancels, Tick
  <2> QED BY <2>1, <2>2, <2>3 DEF Next, NextStep, UiStep
<1> QED BY <1>1, Inductive, PTL DEF Spec, Cadence

=============================================================================

----------------------------- MODULE TimerWait -----------------------------
(***************************************************************************)
(* One timer of timers.rs and the tasks that wait for its ticks, with the  *)
(* two locks a wait and the end of its task meet at: the timer's state and *)
(* the interrupt of each task.  `next` arms the interrupt, then takes the  *)
(* state lock and sleeps on the condition variable; `tasks::stop` takes    *)
(* the interrupt lock, and its hook takes the state lock inside it.        *)
(***************************************************************************)
EXTENDS Integers, FiniteSets

CONSTANTS Task,      \* tasks that call `next` on this timer
          Ui,        \* the thread that stops tasks
          Nobody,    \* a lock nobody holds
          Interval,  \* the timer's interval
          MaxTime    \* bound: the clock stops here

ASSUME HolderAssumption == Ui \notin Task /\ Nobody \notin Task \union {Ui}
ASSUME IntervalAssumption == Interval \in Nat \ {0} /\ MaxTime \in Nat

VARIABLES
    now,        \* Instant::now()
    held,       \* the store still has the timer: a lookup finds it
    canceled,   \* TimerState.canceled
    waiting,    \* TimerState.waiting
    next,       \* TimerState.next
    stateLock,  \* who holds Timer.state
    sleeping,   \* tasks in Condvar::wait_timeout
    armed,      \* tasks whose interrupt holds this wait's hook
    intLock,    \* the tasks whose interrupt lock the Ui holds
    stopped,    \* tasks superseded or cancelled
    pc,         \* where each task is
    answer,     \* what its last `next` returned
    upc, target,\* where the Ui is in `stop`, and whom it stops
    lastFired   \* history: when the timer last fired

timerVars == <<held, canceled, waiting, next, stateLock, sleeping>>
taskVars == <<armed, intLock, stopped>>
uiVars == <<upc, target>>
vars == <<now, timerVars, taskVars, pc, answer, uiVars, lastFired>>

PC == {"run", "lookup", "arm", "lock", "enter", "loop", "asleep", "relock", "leave",
       "disarm"}
Answer == {"none", "fired", "canceled"}

\* timers::start
Init ==
    /\ now = 0 /\ held = TRUE /\ canceled = FALSE /\ waiting = FALSE
    /\ next = Interval
    /\ stateLock = Nobody /\ sleeping = {}
    /\ armed = {} /\ intLock = {} /\ stopped = {}
    /\ pc = [t \in Task |-> "run"] /\ answer = [t \in Task |-> "none"]
    /\ upc = "idle" /\ target \in Task
    /\ lastFired = 0

Goto(t, p) == pc' = [pc EXCEPT ![t] = p]
Return(t, a) == answer' = [answer EXCEPT ![t] = a]

-----------------------------------------------------------------------------
(* timers::next on a worker running task t.                                *)

Call(t) ==
    /\ pc[t] = "run"
    /\ Goto(t, "lookup") /\ Return(t, "none")
    /\ UNCHANGED <<now, timerVars, taskVars, uiVars, lastFired>>

\* The store has no such timer: false at once.
Lookup(t) ==
    /\ pc[t] = "lookup"
    /\ IF held THEN Goto(t, "arm") /\ UNCHANGED answer
               ELSE Goto(t, "run") /\ Return(t, "canceled")
    /\ UNCHANGED <<now, timerVars, taskVars, uiVars, lastFired>>

\* Interrupt::arm, a momentary hold of the task's interrupt lock.
Arm(t) ==
    /\ pc[t] = "arm" /\ t \notin intLock
    /\ armed' = armed \union {t}
    /\ Goto(t, "lock")
    /\ UNCHANGED <<now, timerVars, intLock, stopped, answer, uiVars, lastFired>>

Lock(t) ==
    /\ pc[t] = "lock" /\ stateLock = Nobody
    /\ stateLock' = t
    /\ Goto(t, "enter")
    /\ UNCHANGED <<now, held, canceled, waiting, next, sleeping, taskVars, answer,
                   uiVars, lastFired>>

\* One wait at a time.  The early return drops the state guard, then the
\* interrupt.  The mutant forgets that someone may be waiting.
EnterAlways(t) ==
    /\ pc[t] = "enter"
    /\ IF canceled
         THEN /\ stateLock' = Nobody /\ Goto(t, "disarm") /\ Return(t, "canceled")
              /\ UNCHANGED waiting
         ELSE waiting' = TRUE /\ Goto(t, "loop") /\ UNCHANGED <<stateLock, answer>>
    /\ UNCHANGED <<now, held, canceled, next, sleeping, taskVars, uiVars, lastFired>>

Enter(t) ==
    /\ pc[t] = "enter"
    /\ IF canceled \/ waiting
         THEN /\ stateLock' = Nobody /\ Goto(t, "disarm") /\ Return(t, "canceled")
              /\ UNCHANGED waiting
         ELSE waiting' = TRUE /\ Goto(t, "loop") /\ UNCHANGED <<stateLock, answer>>
    /\ UNCHANGED <<now, held, canceled, next, sleeping, taskVars, uiVars, lastFired>>

\* The loop's tests, and the wait that releases the state lock as it sleeps.
\* The mutant tests for the end of the task only once it is awake again.
LoopUnasked(t) ==
    /\ pc[t] = "loop"
    /\ IF canceled \/ now >= next
         THEN Goto(t, "leave") /\ UNCHANGED <<stateLock, sleeping>>
         ELSE /\ sleeping' = sleeping \union {t} /\ stateLock' = Nobody
              /\ Goto(t, "asleep")
    /\ UNCHANGED <<now, held, canceled, waiting, next, taskVars, answer, uiVars,
                   lastFired>>

Loop(t) ==
    /\ pc[t] = "loop"
    /\ IF canceled \/ t \in stopped \/ now >= next
         THEN Goto(t, "leave") /\ UNCHANGED <<stateLock, sleeping>>
         ELSE /\ sleeping' = sleeping \union {t} /\ stateLock' = Nobody
              /\ Goto(t, "asleep")
    /\ UNCHANGED <<now, held, canceled, waiting, next, taskVars, answer, uiVars,
                   lastFired>>

\* wait_timeout ends: notified, timed out.
Awake(t) ==
    /\ pc[t] = "asleep" /\ (t \notin sleeping \/ now >= next)
    /\ sleeping' = sleeping \ {t}
    /\ Goto(t, "relock")
    /\ UNCHANGED <<now, held, canceled, waiting, next, stateLock, taskVars, answer,
                   uiVars, lastFired>>

\* A condition variable may wake for no reason.
Spurious(t) ==
    /\ pc[t] = "asleep"
    /\ sleeping' = sleeping \ {t}
    /\ Goto(t, "relock")
    /\ UNCHANGED <<now, held, canceled, waiting, next, stateLock, taskVars, answer,
                   uiVars, lastFired>>

Relock(t) ==
    /\ pc[t] = "relock" /\ stateLock = Nobody
    /\ stateLock' = t
    /\ Goto(t, "loop")
    /\ UNCHANGED <<now, held, canceled, waiting, next, sleeping, taskVars, answer,
                   uiVars, lastFired>>

\* After the loop.  Four mutants come first: a stopped wait leaves the flag
\* behind; the next tick is due from when the last was instead of from now; the
\* deadline moves the wrong way; the interrupt is declared after the state guard
\* and so dropped under it.
LeaveWaiting(t) ==
    /\ pc[t] = "leave"
    /\ IF canceled \/ t \in stopped
         THEN Return(t, "canceled") /\ UNCHANGED <<next, lastFired, waiting>>
         ELSE /\ Return(t, "fired")
              /\ waiting' = FALSE /\ next' = now + Interval /\ lastFired' = now
    /\ stateLock' = Nobody
    /\ Goto(t, "disarm")
    /\ UNCHANGED <<now, held, canceled, sleeping, taskVars, uiVars>>

LeaveCatchingUp(t) ==
    /\ pc[t] = "leave"
    /\ waiting' = FALSE
    /\ IF canceled \/ t \in stopped
         THEN Return(t, "canceled") /\ UNCHANGED <<next, lastFired>>
         ELSE Return(t, "fired") /\ next' = next + Interval /\ lastFired' = now
    /\ stateLock' = Nobody
    /\ Goto(t, "disarm")
    /\ UNCHANGED <<now, held, canceled, sleeping, taskVars, uiVars>>

LeaveDisarmsFirst(t) ==
    /\ pc[t] = "leave" /\ t \notin intLock
    /\ waiting' = FALSE
    /\ IF canceled \/ t \in stopped
         THEN Return(t, "canceled") /\ UNCHANGED <<next, lastFired>>
         ELSE Return(t, "fired") /\ next' = now + Interval /\ lastFired' = now
    /\ armed' = armed \ {t}
    /\ stateLock' = Nobody
    /\ Goto(t, "run")
    /\ UNCHANGED <<now, held, canceled, sleeping, intLock, stopped, uiVars>>

Leave(t) ==
    /\ pc[t] = "leave"
    /\ waiting' = FALSE
    /\ IF canceled \/ t \in stopped
         THEN Return(t, "canceled") /\ UNCHANGED <<next, lastFired>>
         ELSE Return(t, "fired") /\ next' = now + Interval /\ lastFired' = now
    /\ stateLock' = Nobody
    /\ Goto(t, "disarm")
    /\ UNCHANGED <<now, held, canceled, sleeping, taskVars, uiVars>>

\* Interrupt::drop, after the state guard's.
Disarm(t) ==
    /\ pc[t] = "disarm" /\ t \notin intLock
    /\ armed' = armed \ {t}
    /\ Goto(t, "run")
    /\ UNCHANGED <<now, timerVars, intLock, stopped, answer, uiVars, lastFired>>

-----------------------------------------------------------------------------
(* The end of the timer, and of a task.                                    *)

Notify == sleeping' = {}

\* timers::cancel, with the handle: the whole of it is one critical section.
Cancel ==
    /\ held /\ stateLock = Nobody
    /\ canceled' = TRUE /\ Notify
    /\ UNCHANGED <<now, held, waiting, next, stateLock, taskVars, pc, answer, uiVars,
                   lastFired>>

\* timers::route_dealloc: the last reference to the handle is gone.  The timer
\* leaves the store first and is cancelled afterwards.
Drop ==
    /\ held
    /\ held' = FALSE
    /\ UNCHANGED <<now, canceled, waiting, next, stateLock, sleeping, taskVars, pc,
                   answer, uiVars, lastFired>>

DropCancels ==
    /\ ~held /\ ~canceled /\ stateLock = Nobody
    /\ canceled' = TRUE /\ Notify
    /\ UNCHANGED <<now, held, waiting, next, stateLock, taskVars, pc, answer, uiVars,
                   lastFired>>

\* tasks::stop: the exchange that ends the task,
Stop(t) ==
    /\ upc = "idle" /\ t \notin stopped
    /\ stopped' = stopped \union {t}
    /\ target' = t /\ upc' = "lock"
    /\ UNCHANGED <<now, timerVars, armed, intLock, pc, answer, lastFired>>

\* its interrupt lock, and the hook if there is one,
StopLock ==
    /\ upc = "lock"
    /\ IF target \in armed
         THEN intLock' = intLock \union {target} /\ upc' = "hook"
         ELSE upc' = "idle" /\ UNCHANGED intLock
    /\ UNCHANGED <<now, timerVars, armed, stopped, pc, answer, target, lastFired>>

\* which takes the state lock while the interrupt's is held, and notifies.
Hook ==
    /\ upc = "hook" /\ stateLock = Nobody
    /\ Notify
    /\ intLock' = intLock \ {target}
    /\ upc' = "idle"
    /\ UNCHANGED <<now, held, canceled, waiting, next, stateLock, armed, stopped, pc,
                   answer, target, lastFired>>

Tick ==
    /\ now < MaxTime
    /\ now' = now + 1
    /\ UNCHANGED <<timerVars, taskVars, pc, answer, uiVars, lastFired>>

\* What a thread inside `next` does of its own accord.
NextStep(t) ==
    \/ Lookup(t) \/ Arm(t) \/ Lock(t) \/ Enter(t) \/ Loop(t) \/ Awake(t)
    \/ Relock(t) \/ Leave(t) \/ Disarm(t)
UiStep == StopLock \/ Hook

Next ==
    \/ \E t \in Task : Call(t) \/ NextStep(t) \/ Spurious(t) \/ Stop(t)
    \/ UiStep \/ Cancel \/ Drop \/ DropCancels \/ Tick

Spec == Init /\ [][Next]_vars

\* The threads are scheduled and the operating system's mutexes are eventually
\* granted (strong for the three steps that contend for one); time and the
\* application promise nothing.
Fairness ==
    /\ \A t \in Task : WF_vars(NextStep(t)) /\ SF_vars(Lock(t)) /\ SF_vars(Relock(t))
    /\ WF_vars(StopLock) /\ SF_vars(Hook) /\ SF_vars(DropCancels)

FairSpec == Spec /\ Fairness

\* Tasks that wait on the timer under one supersede key: a task calls `next`
\* only once every earlier one has been stopped, and that stop has returned.
OneAtATime ==
    \A t \in Task : pc[t] = "run" /\ pc'[t] # "run" =>
        upc = "idle" /\ \A u \in Task \ {t} : u \in stopped \/ pc[u] = "run"

KeyedSpec == Init /\ [][Next /\ OneAtATime]_vars

-----------------------------------------------------------------------------
(* Properties.                                                             *)

Waits(t) == pc[t] \in {"loop", "asleep", "relock", "leave"}

\* Every variable has its type.
TypeOK ==
    /\ now \in Nat /\ next \in Nat /\ lastFired \in Nat
    /\ held \in BOOLEAN /\ canceled \in BOOLEAN /\ waiting \in BOOLEAN
    /\ stateLock \in Task \union {Nobody}
    /\ sleeping \subseteq Task /\ armed \subseteq Task /\ intLock \subseteq Task
    /\ stopped \subseteq Task
    /\ pc \in [Task -> PC] /\ answer \in [Task -> Answer]
    /\ upc \in {"idle", "lock", "hook"} /\ target \in Task

\* Exactly one `next` waits while the flag says so, and none otherwise: however
\* a wait ends, it neither leaves the timer refusing every later wait nor lets
\* a second one in.
OneWait ==
    /\ waiting <=> \E t \in Task : Waits(t)
    /\ \A t, u \in Task : Waits(t) /\ Waits(u) => t = u

\* A wait that sleeps on although its task ended, or the timer did, is one that
\* someone is about to wake.
NoLostWake ==
    /\ \A t \in Task : t \in sleeping /\ t \in stopped =>
         upc \in {"lock", "hook"} /\ target = t
    /\ canceled => sleeping = {}

\* Two ticks are at least an interval apart, and none follows the timer's end
\* or is given to a task that had ended when its wait began to look.
Cadence ==
    [][\A t \in Task : answer[t] # "fired" /\ answer'[t] = "fired" =>
          now >= lastFired + Interval /\ ~canceled /\ t \notin stopped]_vars

\* Neither lock order nor the condition variable can hold up the thread that
\* ends a task: a stop that began returns.
StopReturns == upc # "idle" ~> upc = "idle"

\* A wait whose task ended or whose timer was cancelled returns.
EndedWaitReturns ==
    \A t \in Task :
        pc[t] # "run" /\ (t \in stopped \/ canceled) ~> pc[t] = "run"

\* "The timer itself runs on for the next one": when each task starts to wait
\* only after the one before it was stopped, a wait is refused only because the
\* timer was cancelled or dropped or its own task ended.
RunsOnForTheNext ==
    [][\A t \in Task : answer[t] # "canceled" /\ answer'[t] = "canceled" =>
          canceled \/ ~held \/ t \in stopped]_vars

=============================================================================

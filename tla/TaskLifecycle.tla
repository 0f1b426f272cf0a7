--------------------------- MODULE TaskLifecycle ---------------------------
(***************************************************************************)
(* What the task runtime promises an application, with no threads, queues  *)
(* or locks: an issued task ends exactly once, by delivery of the result   *)
(* it produced, by supersession or by cancellation; and of one component's *)
(* tasks with one key at most one is outstanding.                          *)
(***************************************************************************)
CONSTANTS Task, Owner, Key, NoKey

VARIABLES phase,  \* what the application may know of each task
          who     \* the component that asked for it, and its supersede key

vars == <<phase, who>>

Outstanding == {"pending", "ready"}
Phase == {"fresh", "delivered", "superseded", "cancelled"} \union Outstanding

Init ==
    /\ phase = [t \in Task |-> "fresh"]
    /\ who \in [Task -> Owner \X (Key \union {NoKey})]

Issue(t, o, k) ==
    /\ phase[t] = "fresh"
    /\ k # NoKey => \A u \in Task : phase[u] \in Outstanding => who[u] # <<o, k>>
    /\ phase' = [phase EXCEPT ![t] = "pending"]
    /\ who' = [who EXCEPT ![t] = <<o, k>>]

Produce(t) ==
    /\ phase[t] = "pending"
    /\ phase' = [phase EXCEPT ![t] = "ready"]
    /\ UNCHANGED who

Deliver(t) ==
    /\ phase[t] = "ready"
    /\ phase' = [phase EXCEPT ![t] = "delivered"]
    /\ UNCHANGED who

\* Only a keyed task can be superseded.
Supersede(t) ==
    /\ phase[t] \in Outstanding /\ who[t][2] # NoKey
    /\ phase' = [phase EXCEPT ![t] = "superseded"]
    /\ UNCHANGED who

Cancel(t) ==
    /\ phase[t] \in Outstanding
    /\ phase' = [phase EXCEPT ![t] = "cancelled"]
    /\ UNCHANGED who

Next ==
    \E t \in Task :
        \/ \E o \in Owner, k \in Key \union {NoKey} : Issue(t, o, k)
        \/ Produce(t) \/ Deliver(t) \/ Supersede(t) \/ Cancel(t)

Spec == Init /\ [][Next]_vars

=============================================================================

----------------------------- MODULE MCRuntime ------------------------------
(* Three parts that share no state in a behaviour: Tasks, Session and        *)
(* Interaction.  `subject` says which of them a behaviour is about.          *)
EXTENDS MCTasks, MCSession, MCInteraction

VARIABLE subject

RuntimeInit ==
    /\ subject \in {"tasks", "session", "interaction"}
    /\ Init /\ SessionInit /\ InteractionInit

RuntimeNext ==
    /\ UNCHANGED subject
    /\ \/ subject = "tasks" /\ Next /\ UNCHANGED <<sessionVars, interactionVars>>
       \/ subject = "session" /\ SessionNext /\ UNCHANGED <<vars, interactionVars>>
       \/ subject = "interaction" /\ InteractionNext /\ UNCHANGED <<vars, sessionVars>>

runtimeVars == <<vars, sessionVars, interactionVars, subject>>

RuntimeSpec == RuntimeInit /\ [][RuntimeNext]_runtimeVars /\ Fairness
=============================================================================

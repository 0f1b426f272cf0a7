------------------------------ MODULE MCGrants ------------------------------
(* Recents and Process over one registry each: they share no state in a      *)
(* behaviour.  `subject` says which of them a behaviour is about.            *)
EXTENDS MCRecents, Process

VARIABLE subject

GrantUsersInit ==
    /\ subject \in {"recents", "process"}
    /\ RecentsInit /\ ProcessInit

recentsOnly == <<listVars, saved, op, run, history>>
processOnly == <<pty, call>>

GrantUsersNext ==
    /\ UNCHANGED subject
    /\ \/ subject = "recents" /\ RecentsNext /\ UNCHANGED processOnly
       \/ subject = "process" /\ ProcessNext /\ UNCHANGED recentsOnly

grantUsersVars == <<recentsVars, processOnly, subject>>

GrantUsersSpec == GrantUsersInit /\ [][GrantUsersNext]_grantUsersVars /\ ProcessFairness
=============================================================================

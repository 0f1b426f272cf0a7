------------------------------ MODULE MCLists -------------------------------
(* The linked order of a keyed column, and the list of recent places: they   *)
(* share no state in a behaviour.  `subject` says which of them a behaviour  *)
(* is about.                                                                 *)
EXTENDS MCKeyedOrder, MCRecents

VARIABLE subject

ListsInit ==
    /\ subject \in {"keyed", "recents"}
    /\ Init /\ RecentsInit
    /\ subject = "recents" => ~ keyed

ListsNext ==
    /\ UNCHANGED subject
    /\ \/ subject = "keyed" /\ Next /\ UNCHANGED recentsVars
       \/ subject = "recents" /\ RecentsNext /\ UNCHANGED vars

ListsSpec == ListsInit /\ [][ListsNext]_<<vars, recentsVars, subject>>
=============================================================================

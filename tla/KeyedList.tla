----------------------------- MODULE KeyedList -----------------------------
(***************************************************************************)
(* What a keyed column promises: an ordered list of rows, edited by        *)
(* transactions.  A transaction works on a copy; it is published as a      *)
(* whole, under a later revision, or not at all.                           *)
(***************************************************************************)
EXTENDS Integers, Sequences, SequencesExt

CONSTANTS Keys, None

VARIABLES rows,      \* the published rows, in order: [key, root, instance]
          revision,  \* their revision
          working,   \* the rows as the open transaction has edited them
          open       \* a transaction is open

listVars == <<rows, revision, working, open>>

KeysOf(s) == {s[i].key : i \in DOMAIN s}
IndexOf(s, k) == CHOOSE i \in DOMAIN s : s[i].key = k
Without(s, k) == RemoveAt(s, IndexOf(s, k))

\* The rows with r placed before the row of key `before`, or last.
Placed(s, r, before) ==
    IF before = None THEN Append(s, r) ELSE InsertAt(s, IndexOf(s, before), r)

Anchors(s) == KeysOf(s) \union {None}

\* No transaction is open, and no key names two rows.
ListInit ==
    /\ revision \in Nat /\ working = rows /\ open = FALSE
    /\ \A i, j \in DOMAIN rows : rows[i].key = rows[j].key => i = j

Opened == ~open /\ open' = TRUE /\ UNCHANGED <<rows, revision, working>>

Inserted(r, before) ==
    /\ open /\ r.key \notin KeysOf(working) /\ before \in Anchors(working)
    /\ working' = Placed(working, r, before)
    /\ UNCHANGED <<rows, revision, open>>

Removed(k) ==
    /\ open /\ k \in KeysOf(working)
    /\ working' = Without(working, k)
    /\ UNCHANGED <<rows, revision, open>>

\* A row moved before itself stays where it is.
Moved(k, before) ==
    /\ open /\ k \in KeysOf(working) /\ before \in Anchors(working) \ {k}
    /\ working' = Placed(Without(working, k), working[IndexOf(working, k)], before)
    /\ UNCHANGED <<rows, revision, open>>

\* A row rendered again keeps its key, its place and its instance.
Rerendered(k, root) ==
    /\ k \in KeysOf(working)
    /\ working' = [working EXCEPT ![IndexOf(working, k)].root = root]
    /\ UNCHANGED <<revision, open>>
    /\ IF open THEN UNCHANGED rows ELSE rows' = working'

Published ==
    /\ open /\ open' = FALSE
    /\ rows' = working
    /\ revision' \in Nat /\ revision' > revision
    /\ UNCHANGED working

Withdrawn == open /\ open' = FALSE /\ working' = rows /\ UNCHANGED <<rows, revision>>

ListNext ==
    \/ Opened \/ Published \/ Withdrawn
    \/ \E k \in Keys :
        \/ Removed(k)
        \/ \E before \in Keys \union {None} : Moved(k, before)
        \/ \E r \in {working'[i] : i \in DOMAIN working'} :
            \/ Rerendered(k, r.root)
            \/ \E before \in Keys \union {None} : r.key = k /\ Inserted(r, before)

ListSpec == ListInit /\ [][ListNext]_listVars
=============================================================================

---------------------------- MODULE KeyedOrder -----------------------------
(***************************************************************************)
(* The mounted graph's side of one keyed column: the linked order of       *)
(* bridge.rs (KeyedChildOrder, KeyedOrderJournal) and the transaction that *)
(* edits it in place, operation by operation, and rolls it back from a     *)
(* journal when any operation is refused (apply_keyed_inner).              *)
(*                                                                         *)
(* An item's fragment is one boundary node with its instance; the nodes    *)
(* below the boundary are left out, except the modal dialog an item may    *)
(* hold, of which the window allows one.                                   *)
(***************************************************************************)
EXTENDS Integers, FiniteSets, Sequences

CONSTANTS Keys,         \* KeyedChildKey
          None,         \* Option::None
          Modal,        \* keys whose item renders a dialog
          MaxNode,      \* bound: node ids issued
          MaxRevision,  \* bound: revisions proposed
          MaxOps        \* bound: operations of one transaction

ASSUME ModalAssumption == Modal \subseteq Keys
\* The column of two rows it starts with is within the bounds.
ASSUME BoundAssumption ==
    {MaxNode, MaxRevision, MaxOps} \subseteq Nat /\ MaxNode >= 2 /\ MaxRevision >= 1

VARIABLES
    keyed,       \* keyed_children is Some
    order,       \* KeyedChildOrder
    journal,     \* KeyedOrderJournal of the open transaction
    proposed,    \* new_revision of the open transaction, or None
    fragments,   \* Vec<FragmentPlan>: [key, root, instance]
    edits,       \* native_edits of the open or last committed transaction
    mounted,     \* the item roots in `nodes`
    instances,   \* boundary_instances: instance -> root
    dialog,      \* the root whose item holds the mounted dialog
    maxNode,     \* max_seen_node_id
    maxInstance  \* max_seen_instance

graphVars == <<keyed, mounted, instances, dialog, maxNode, maxInstance>>
txnVars == <<journal, proposed, fragments, edits>>
vars == <<order, graphVars, txnVars>>

Link == Keys \union {None}
Child == [root : 1..MaxNode, instance : 1..MaxNode, previous : Link, next : Link]
ASSUME NoneAssumption == None \notin Keys \union Nat \union Child

Open == proposed # None
Has(o, k) == k \in DOMAIN o.children

-----------------------------------------------------------------------------
(* KeyedOrderJournal: the edits of the linked order.                       *)

Linked(children, left, right) ==
    [k \in DOMAIN children |->
        [children[k] EXCEPT !.next = IF k = left THEN right ELSE @,
                            !.previous = IF k = right THEN left ELSE @]]

\* Mutant: the head is not moved when a child takes the first place.
JoinKeepsHead(o, left, right) ==
    [o EXCEPT
        !.tail = IF right = None THEN left ELSE @,
        !.children = Linked(@, left, right)]

\* Make `left` and `right` neighbours, where None is an end of the order.
Join(o, left, right) ==
    [o EXCEPT
        !.head = IF left = None THEN right ELSE @,
        !.tail = IF right = None THEN left ELSE @,
        !.children = Linked(@, left, right)]

Previous(o, before) == IF before = None THEN o.tail ELSE o.children[before].previous

InsertChild(o, k, root, instance, before) ==
    LET child == [root |-> root, instance |-> instance, previous |-> None, next |-> None]
        added == [o EXCEPT !.children = [x \in DOMAIN @ \union {k} |->
                                            IF x = k THEN child ELSE @[x]]]
    IN  Join(Join(added, Previous(o, before), k), k, before)

Unlink(o, k) == Join(o, o.children[k].previous, o.children[k].next)

RemoveChild(o, k) ==
    [Unlink(o, k) EXCEPT !.children = [x \in DOMAIN @ \ {k} |-> @[x]]]

Stays(o, k, before) == before = k \/ o.children[k].next = before

MoveChild(o, k, before) ==
    IF Stays(o, k, before) THEN o
    ELSE LET out == Unlink(o, k)
         IN  Join(Join(out, Previous(out, before), k), k, before)

ReplaceChild(o, k, root) == [o EXCEPT !.children[k].root = root]

\* touch: the original of each key, recorded the first time it is rewritten.
Touch(o, ks) ==
    journal' = [journal EXCEPT !.originals =
        [k \in DOMAIN @ \union (ks \ {None}) |->
            IF k \in DOMAIN @ THEN @[k]
            ELSE IF Has(o, k) THEN o.children[k] ELSE None]]

Neighbours(o, k) == {o.children[k].previous, o.children[k].next}

\* Mutant: the ends of the order are not rolled back.
RestoredChildrenOnly(o, j) ==
    LET absent == {k \in DOMAIN j.originals : j.originals[k] = None}
    IN  [head |-> o.head, tail |-> o.tail, revision |-> j.revision,
         children |-> [k \in (DOMAIN o.children \union DOMAIN j.originals) \ absent |->
             IF k \in DOMAIN j.originals THEN j.originals[k] ELSE o.children[k]]]

\* rollback
Restored(o, j) ==
    LET absent == {k \in DOMAIN j.originals : j.originals[k] = None}
    IN  [head |-> j.head, tail |-> j.tail, revision |-> j.revision,
         children |-> [k \in (DOMAIN o.children \union DOMAIN j.originals) \ absent |->
             IF k \in DOMAIN j.originals THEN j.originals[k] ELSE o.children[k]]]

NoJournal == [head |-> None, tail |-> None, revision |-> 0, originals |-> <<>>]

-----------------------------------------------------------------------------
(* MountedGraph.                                                           *)

\* KeyedChildOrder::from_seed: row i of the seed has node i and instance i.
FromSeed(seed, rev) ==
    LET n == Len(seed)
        at(i) == IF i \in 1..n THEN seed[i] ELSE None
        place(k) == CHOOSE i \in 1..n : seed[i] = k
    IN  [head |-> at(1), tail |-> at(n), revision |-> rev,
         children |-> [k \in {seed[i] : i \in 1..n} |->
             [root |-> place(k), instance |-> place(k),
              previous |-> at(place(k) - 1), next |-> at(place(k) + 1)]]]

Seeds ==
    {s \in UNION {[1..n -> Keys] : n \in 0..2} :
        /\ \A i, j \in DOMAIN s : s[i] = s[j] => i = j
        /\ \A i, j \in DOMAIN s : {s[i], s[j]} \subseteq Modal => i = j}

\* A column mounted with its seed, or an empty column no edit has reached yet.
Init ==
    /\ \E seed \in Seeds, k \in BOOLEAN :
        /\ k \/ seed = <<>>
        /\ keyed = k
        /\ order = FromSeed(seed, IF k THEN 1 ELSE 0)
        /\ mounted = 1..Len(seed) /\ maxNode = Len(seed) /\ maxInstance = Len(seed)
        /\ instances = [i \in 1..Len(seed) |-> i]
        /\ dialog = IF \E i \in DOMAIN seed : seed[i] \in Modal
                    THEN CHOOSE i \in DOMAIN seed : seed[i] \in Modal ELSE None
    /\ journal = NoJournal /\ proposed = None /\ fragments = {} /\ edits = <<>>

\* A stale base or a revision that does not advance leaves everything as it was.
Begin(base, new) ==
    /\ ~Open
    /\ base = order.revision /\ new > base
    /\ proposed' = new
    /\ journal' = [head |-> order.head, tail |-> order.tail,
                   revision |-> order.revision, originals |-> <<>>]
    /\ fragments' = {} /\ edits' = <<>>
    /\ UNCHANGED <<order, graphVars>>

Reject ==
    /\ order' = Restored(order, journal)
    /\ journal' = NoJournal /\ proposed' = None /\ fragments' = {} /\ edits' = <<>>
    /\ UNCHANGED graphVars

\* Mutant: an instance that was retired is accepted again.
FreshReusing(root, instance, replacing) ==
    /\ root > maxNode /\ \A f \in fragments : f.root # root
    /\ \A f \in fragments : f.instance # instance

\* validate_keyed_staged_fragment
FreshIds(root, instance, replacing) ==
    /\ root > maxNode /\ \A f \in fragments : f.root # root
    /\ \A f \in fragments : f.instance # instance
    /\ instance = replacing \/ instance > maxInstance

Edit(e) == edits' = Append(edits, e)
Stage(k, root, instance) ==
    fragments' = fragments \union {[key |-> k, root |-> root, instance |-> instance]}

AcceptsInsert(k, before, root, instance) ==
    /\ FreshIds(root, instance, None)
    /\ ~Has(order, k)
    /\ before = None \/ Has(order, before)

Insert(k, before, root, instance) ==
    /\ Open
    /\ \/ /\ AcceptsInsert(k, before, root, instance)
          /\ order' = InsertChild(order, k, root, instance, before)
          /\ Touch(order, {k, Previous(order, before), before})
          /\ Stage(k, root, instance)
          /\ Edit([op |-> "insert", key |-> k, before |-> before, root |-> root])
          /\ UNCHANGED <<graphVars, proposed>>
       \/ ~AcceptsInsert(k, before, root, instance) /\ Reject

Remove(k) ==
    /\ Open
    /\ \/ /\ Has(order, k)
          /\ order' = RemoveChild(order, k)
          /\ Touch(order, Neighbours(order, k) \union {k})
          /\ Edit([op |-> "remove", key |-> k, root |-> order.children[k].root])
          /\ UNCHANGED <<graphVars, proposed, fragments>>
       \/ ~Has(order, k) /\ Reject

\* A move before itself is answered before the anchor is looked at.
AcceptsMove(k, before) ==
    Has(order, k) /\ (Stays(order, k, before) \/ before = None \/ Has(order, before))

Move(k, before) ==
    /\ Open
    /\ \/ /\ AcceptsMove(k, before)
          /\ order' = MoveChild(order, k, before)
          /\ IF Stays(order, k, before) THEN UNCHANGED journal
             ELSE Touch(order, Neighbours(order, k) \union
                               {Previous(Unlink(order, k), before), before, k})
          /\ Edit([op |-> "move", key |-> k, before |-> before])
          /\ UNCHANGED <<graphVars, proposed, fragments>>
       \/ ~AcceptsMove(k, before) /\ Reject

AcceptsSet(k, root, instance) ==
    /\ Has(order, k) /\ instance = order.children[k].instance
    /\ FreshIds(root, instance, instance)

Set(k, root, instance) ==
    /\ Open
    /\ \/ /\ AcceptsSet(k, root, instance)
          /\ order' = ReplaceChild(order, k, root)
          /\ Touch(order, {k})
          /\ Stage(k, root, instance)
          /\ Edit([op |-> "set", key |-> k, root |-> root])
          /\ UNCHANGED <<graphVars, proposed>>
       \/ ~AcceptsSet(k, root, instance) /\ Reject

\* The roots the transaction takes out, and the fragments it leaves in place.
RemovedRoots ==
    {journal.originals[k].root : k \in
        {x \in DOMAIN journal.originals :
            /\ journal.originals[x] # None
            /\ Has(order, x) => order.children[x].root # journal.originals[x].root}}
\* Mutant: a fragment that a later operation superseded is mounted all the same.
KeptAll == fragments
Kept == {f \in fragments : Has(order, f.key) /\ order.children[f.key].root = f.root}
KeptModal == {f \in Kept : f.key \in Modal}

Mountable ==
    /\ \A f, g \in KeptModal : f = g
    /\ KeptModal # {} => dialog \in RemovedRoots \union {None}
    /\ \A f \in Kept : f.instance \in DOMAIN instances =>
                        instances[f.instance] \in RemovedRoots

Largest(n, S) == CHOOSE m \in S \union {n} : \A x \in S \union {n} : x <= m

Commit ==
    /\ Open
    /\ \/ /\ Mountable
          /\ order' = [order EXCEPT !.revision = proposed]
          /\ keyed' = TRUE
          /\ mounted' = (mounted \ RemovedRoots) \union {f.root : f \in Kept}
          /\ instances' =
                LET stay == {i \in DOMAIN instances : instances[i] \notin RemovedRoots}
                IN  [i \in stay \union {f.instance : f \in Kept} |->
                        IF \E f \in Kept : f.instance = i
                        THEN (CHOOSE f \in Kept : f.instance = i).root
                        ELSE instances[i]]
          /\ dialog' = IF KeptModal # {} THEN (CHOOSE f \in KeptModal : TRUE).root
                       ELSE IF dialog \in RemovedRoots THEN None ELSE dialog
          /\ maxNode' = Largest(maxNode, {f.root : f \in Kept})
          /\ maxInstance' = Largest(maxInstance, {f.instance : f \in Kept})
          /\ journal' = NoJournal /\ proposed' = None /\ fragments' = {}
          /\ UNCHANGED edits
       \/ ~Mountable /\ Reject

\* apply_inner for an item that renders itself again: Replace of its root.
ReplaceItem(k, root) ==
    /\ ~Open /\ Has(order, k) /\ root > maxNode
    /\ LET old == order.children[k]
       IN  /\ order' = ReplaceChild(order, k, root)
           /\ mounted' = (mounted \ {old.root}) \union {root}
           /\ instances' = [instances EXCEPT ![old.instance] = root]
           /\ dialog' = IF dialog = old.root THEN root ELSE dialog
    /\ maxNode' = root /\ edits' = <<>>
    /\ UNCHANGED <<keyed, maxInstance, journal, proposed, fragments>>

\* Ids a fragment may carry: the next one, or one already issued.
NextId(n, S) == Largest(n, S) + 1
Roots == {NextId(maxNode, {f.root : f \in fragments}), maxNode} \intersect 1..MaxNode
InsertInstances ==
    {NextId(maxInstance, {f.instance : f \in fragments}), maxInstance} \intersect 1..MaxNode

Next ==
    \/ \E base, new \in 0..MaxRevision : Begin(base, new)
    \/ /\ Len(edits) < MaxOps
       /\ \E k \in Keys :
            \/ Remove(k)
            \/ \E before \in Link : Move(k, before)
            \/ \E root \in Roots, instance \in InsertInstances :
                \/ \E before \in Link : Insert(k, before, root, instance)
                \/ Set(k, root, instance)
            \/ Has(order, k) /\ \E root \in Roots : Set(k, root, order.children[k].instance)
    \/ Commit
    \/ \E k \in Keys, root \in 1..MaxNode : root = maxNode + 1 /\ ReplaceItem(k, root)

Spec == Init /\ [][Next]_vars

-----------------------------------------------------------------------------
(* Properties.                                                             *)

\* Every component has its type, between the steps of a transaction too.
TypeOK ==
    /\ keyed \in BOOLEAN
    /\ order.head \in Link /\ order.tail \in Link /\ order.revision \in 0..MaxRevision
    /\ DOMAIN order.children \subseteq Keys
    /\ \A k \in DOMAIN order.children : order.children[k] \in Child
    /\ DOMAIN journal.originals \subseteq Keys
    /\ \A k \in DOMAIN journal.originals : journal.originals[k] \in Child \union {None}
    /\ proposed \in 1..MaxRevision \union {None}
    /\ mounted \subseteq 1..MaxNode /\ DOMAIN instances \subseteq 1..MaxNode
    /\ {maxNode, maxInstance} \subseteq 0..MaxNode

\* KeyedChildIter: the keys from the head along `next`, as many as there are.
Following(o, k) == IF Has(o, k) THEN o.children[k].next ELSE None
Preceding(o, k) == IF Has(o, k) THEN o.children[k].previous ELSE None
Iter(o) ==
    LET n == Cardinality(DOMAIN o.children)
        at[i \in 1..n] == IF i = 1 THEN o.head ELSE Following(o, at[i - 1])
    IN  at
IterBack(o) ==
    LET n == Cardinality(DOMAIN o.children)
        at[i \in 1..n] == IF i = 1 THEN o.tail ELSE Preceding(o, at[i - 1])
    IN  at

\* Neighbours name each other, and only the two ends have no neighbour.
LinksAgree ==
    /\ \A k \in DOMAIN order.children :
        /\ IF order.children[k].next = None THEN order.tail = k
           ELSE /\ Has(order, order.children[k].next)
                /\ order.children[order.children[k].next].previous = k
        /\ IF order.children[k].previous = None THEN order.head = k
           ELSE /\ Has(order, order.children[k].previous)
                /\ order.children[order.children[k].previous].next = k
    /\ order.head = None <=> DOMAIN order.children = {}
    /\ order.tail = None <=> DOMAIN order.children = {}

\* KeyedChildIter::next and next_back never run off the list and agree: after
\* any operation of any transaction, and after a rollback, neighbours name each
\* other, the keys met from the head are the children, each once, and from the
\* tail the same reversed.
OneList ==
    LET n == Cardinality(DOMAIN order.children)
    IN  /\ TypeOK /\ LinksAgree
        /\ {Iter(order)[i] : i \in 1..n} = DOMAIN order.children
        /\ \A i \in 1..n : IterBack(order)[i] = Iter(order)[n + 1 - i]

\* Between transactions the order, the mounted nodes and the instance index
\* tell one story: each row's root is mounted under its instance, and nothing
\* else of the column is (the retirement and `fragments.retain` of
\* apply_keyed_inner, whatever a transaction did twice or undid); at most one
\* row holds the window's dialog, and `dialog` names it.
GraphAgrees ==
    ~Open =>
        /\ mounted = {order.children[k].root : k \in DOMAIN order.children}
        /\ DOMAIN instances = {order.children[k].instance : k \in DOMAIN order.children}
        /\ \A k \in DOMAIN order.children :
            instances[order.children[k].instance] = order.children[k].root
        /\ {order.children[k].root : k \in DOMAIN order.children \intersect Modal}
              = {dialog} \ {None}

\* The rows an order lists.
RowsOf(o) == [i \in DOMAIN Iter(o) |->
    LET k == Iter(o)[i]
    IN  IF Has(o, k) THEN [key |-> k, root |-> o.children[k].root,
                            instance |-> o.children[k].instance]
        ELSE [key |-> None, root |-> 0, instance |-> 0]]
\* What the graph has published: a rollback of the open transaction.
Base == IF Open THEN Restored(order, journal) ELSE order

\* A row published by a transaction keeps the instance its key had before it,
\* or has one never issued: what an instance names (its tasks, its routes, its
\* native state) cannot reappear under another row's key.
NoResurrection ==
    [][proposed' = None => \A k \in DOMAIN order'.children :
        LET instance == order'.children[k].instance
        IN  \/ instance > maxInstance
            \/ Has(Base, k) /\ Base.children[k].instance = instance]_vars

List == INSTANCE KeyedList WITH
    rows <- RowsOf(Base), revision <- Base.revision, working <- RowsOf(order), open <- Open

\* The published order is the one a rollback would restore; the linked order
\* is the working copy.  So seen, every step is a step of KeyedList: a
\* refused operation, wherever in the transaction it comes, withdraws all of
\* it, and a commit publishes exactly the edits.
ImplementsList == List!ListSpec
=============================================================================

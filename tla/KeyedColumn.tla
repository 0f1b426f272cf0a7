---------------------------- MODULE KeyedColumn ----------------------------
(***************************************************************************)
(* A keyed column from end to end.  The application keeps a KeyedSeq: its  *)
(* rows, a revision counter and the journal that led from the revision     *)
(* before (KeyedSeq.roc).  A row that delegates lets the parent's policy   *)
(* answer with a new sequence; update_keyed! (Internal.roc) turns it into  *)
(* steps, from the journal when that starts at the revision mounted and    *)
(* from the full snapshot otherwise, lowers them while it edits its own    *)
(* list of instances, and hands the operations to the mounted graph        *)
(* (KeyedOrder).  The accepted edits are then replayed on the order of     *)
(* GPUI views (KeyedViewOrder).                                            *)
(***************************************************************************)
EXTENDS KeyedOrder

CONSTANTS MaxEdits   \* bound: edits the application makes

VARIABLES
    seq,           \* the sequence in the application's state
    kept,          \* the value it had first, which the application may keep
    spent,         \* edits the application has made, for MaxEdits
    draft,         \* the sequence the policy is building
    owner,         \* the column's BoundaryInfo: keyed_revision, keyed_items
    items,         \* keyed_items as the running turn has edited them
    boundaries,    \* the item instances in the Roc index of boundaries
    live,          \* ComponentRegistry.live in the column's scope: key -> instance
    seen,          \* ComponentRegistry.seen and pending: key -> instance
    nextInstance,  \* ComponentRegistry.next_instance
    steps,         \* the keyed steps not lowered yet
    ops,           \* the operations handed to the host and not applied yet
    task,          \* a task the column's policy issued is outstanding
    native,        \* the container view's KeyedViewOrder
    placed,        \* the length of the container view's `children`
    pc             \* where the turn is

appVars == <<seq, kept, draft, spent>>
rocVars == <<owner, items, boundaries, steps>>
registryVars == <<live, seen, nextInstance>>
nativeVars == <<native, placed>>
colVars == <<vars, appVars, rocVars, registryVars, ops, task, nativeVars, pc>>

Row(k) == [key |-> k]
Rows(s) == List!KeysOf(s)
KeyList(s) == [i \in DOMAIN s |-> s[i].key]

-----------------------------------------------------------------------------
(* KeyedSeq: the edits an application may journal.                         *)

Op(op, k, before) == [op |-> op, key |-> k, before |-> before]

Legal(rows, e) ==
    LET anchored == e.before = None \/ e.before \in Rows(rows)
    IN  CASE e.op = "insert" -> e.key \notin Rows(rows) /\ anchored
          [] e.op = "move" -> e.key \in Rows(rows) /\ anchored
          [] OTHER -> e.key \in Rows(rows)

Edited(rows, e, row) ==
    CASE e.op = "insert" -> List!Placed(rows, row, e.before)
      [] e.op = "remove" -> List!Without(rows, e.key)
      [] e.op = "move" /\ e.before # e.key ->
            List!Placed(List!Without(rows, e.key),
                        rows[List!IndexOf(rows, e.key)], e.before)
      [] OTHER -> rows

AllEdits == {Op(o, k, before) : o \in {"insert", "move"}, k \in Keys, before \in Link}
            \union {Op(o, k, None) : o \in {"remove", "set"}, k \in Keys}

\* record: one revision later, with the journal that leads there.
Record(s, rows, journalled) ==
    [rows |-> rows, revision |-> s.revision + 1, base |-> s.revision, edits |-> journalled]

\* apply_all with one or two edits.
ApplyAll(s) ==
    LET One(rows, e) == Edited(rows, e, Row(e.key))
        first == {e \in AllEdits : Legal(s.rows, e)}
        second(e) == {f \in AllEdits : Legal(One(s.rows, e), f)}
    IN  {Record(s, One(s.rows, e), <<e>>) : e \in first} \union
        UNION {{Record(s, One(One(s.rows, e), f), <<e, f>>) : f \in second(e)} : e \in first}

-----------------------------------------------------------------------------
(* The first mount: the column is lowered in full.                         *)

Instances(s) == {s[i].instance : i \in DOMAIN s}
InstanceOf(s, k) == s[List!IndexOf(s, k)].instance
Positions(s) == [k \in Rows(s) |-> InstanceOf(s, k)]

\* materialize: the views of a container's keyed children, each one the entity
\* its boundary identity claims.
ViewsOf(o) == [head |-> o.head, tail |-> o.tail, children |->
    [k \in DOMAIN o.children |-> [view |-> o.children[k].instance,
        previous |-> o.children[k].previous, next |-> o.children[k].next]]]

ColInit ==
    /\ Init /\ keyed
    /\ seq = [rows |-> [i \in DOMAIN Iter(order) |-> Row(Iter(order)[i])],
              revision |-> 1, base |-> 0,
              edits |-> [i \in DOMAIN Iter(order) |-> Op("insert", Iter(order)[i], None)]]
    /\ kept = seq /\ draft = seq /\ spent = 0
    /\ items = [i \in DOMAIN seq.rows |-> [key |-> seq.rows[i].key, instance |-> i]]
    /\ owner = [revision |-> 1, items |-> items]
    /\ boundaries = Instances(items) /\ live = Positions(items)
    /\ seen = <<>> /\ nextInstance = Len(items) + 1
    /\ steps = <<>> /\ ops = <<>>
    /\ native = ViewsOf(order) /\ placed = Len(items)
    /\ task = FALSE /\ pc = "idle"

Panic ==
    /\ pc' = "panicked"
    /\ UNCHANGED <<vars, appVars, rocVars, registryVars, ops, task, nativeVars>>

-----------------------------------------------------------------------------
(* The application.                                                        *)

\* A handler starts from the state it is given: the on_delegate of a row that
\* delegates, or the handler of an ancestor.
Handle ==
    /\ pc = "idle"
    /\ draft' = seq
    /\ pc' = "policy"
    /\ UNCHANGED <<vars, seq, kept, spent, rocVars, registryVars, ops, task, nativeVars>>

\* It goes back to the sequence the application kept.
PutBack ==
    /\ pc = "policy"
    /\ draft' = kept
    /\ UNCHANGED <<vars, seq, kept, spent, rocVars, registryVars, ops, task, nativeVars, pc>>

\* It edits the sequence, which it may do more than once in a turn.
Transact ==
    /\ pc = "policy" /\ draft.revision < MaxRevision
    /\ draft' \in ApplyAll(draft)
    /\ spent' = spent + Len(draft'.edits) /\ spent' <= MaxEdits
    /\ UNCHANGED <<vars, seq, kept, rocVars, registryVars, ops, task, nativeVars, pc>>

-----------------------------------------------------------------------------
(* update_keyed!                                                           *)

\* Mutant: the survivors are set again but left where they are.
FallbackUnmoved(old, rows) ==
    LET gone == SelectSeq(KeyList(old), LAMBDA k : k \notin Rows(rows))
        n == Len(rows)
        at(i) == LET k == rows[n + 1 - i].key
                     before == IF i = 1 THEN None ELSE rows[n + 2 - i].key
                 IN  IF k \in Rows(old) THEN <<Op("set", k, None)>>
                     ELSE <<Op("insert", k, before)>>
        built[i \in 0..n] == IF i = 0 THEN [j \in DOMAIN gone |-> Op("remove", gone[j], None)]
                             ELSE built[i - 1] \o at(i)
    IN  built[n]

\* keyed_fallback_steps: remove what is gone, then place the rows from the last.
Fallback(old, rows) ==
    LET gone == SelectSeq(KeyList(old), LAMBDA k : k \notin Rows(rows))
        n == Len(rows)
        at(i) == LET k == rows[n + 1 - i].key
                     before == IF i = 1 THEN None ELSE rows[n + 2 - i].key
                 IN  IF k \in Rows(old) THEN <<Op("move", k, before), Op("set", k, None)>>
                     ELSE <<Op("insert", k, before)>>
        built[i \in 0..n] == IF i = 0 THEN [j \in DOMAIN gone |-> Op("remove", gone[j], None)]
                             ELSE built[i - 1] \o at(i)
    IN  built[n]

\* Mutant: the retained journal is replayed whatever revision it starts at.
PlanReplaying(s) == s.edits

Plan(s) == IF s.base = owner.revision THEN s.edits ELSE Fallback(owner.items, s.rows)

\* A row's on_delegate answers with an update of the column, and may issue a
\* task for it; or that task's completion does, whatever rows are left.
Answer ==
    /\ pc = "policy"
    /\ \/ owner.items # <<>> /\ task' \in {task, TRUE}
       \/ owner.items = <<>> /\ task /\ task' = FALSE
    /\ seq' = draft /\ items' = owner.items /\ steps' = Plan(draft)
    /\ pc' = "lower"
    /\ UNCHANGED <<vars, kept, draft, spent, owner, boundaries, registryVars, ops, nativeVars>>

Renders(e) == e.op \in {"insert", "set"}

\* ComponentRegistry::resolve
Resolved(k) == IF k \in DOMAIN live THEN live[k] ELSE nextInstance

\* The crashes of keyed_steps!, prepare_component! and resolve.
Lowerable(e) ==
    /\ Legal(items, e)
    /\ Renders(e) => e.key \notin DOMAIN seen /\ e.key \in Rows(seq.rows)
    /\ e.op = "set" => Resolved(e.key) = InstanceOf(items, e.key)
    /\ e.op = "remove" => InstanceOf(items, e.key) \in boundaries

Lower ==
    /\ pc = "lower" /\ steps # <<>>
    /\ LET e == Head(steps)
           instance == Resolved(e.key)
           \* Every fragment gets the next node id; stage_node.
           root == maxNode + Cardinality(DOMAIN seen) + 1
       IN  \/ ~Lowerable(e) /\ Panic
           \/ /\ Lowerable(e)
              /\ steps' = Tail(steps)
              /\ items' = Edited(items, e, [key |-> e.key, instance |-> instance])
              /\ ops' = Append(ops, [edit |-> e, root |-> root, instance |-> instance])
              /\ IF Renders(e)
                 THEN /\ seen' = [k \in DOMAIN seen \union {e.key} |->
                                    IF k = e.key THEN instance ELSE seen[k]]
                      /\ nextInstance' = IF e.key \in DOMAIN live THEN nextInstance
                                         ELSE nextInstance + 1
                      /\ boundaries' = boundaries \union {instance}
                 ELSE /\ boundaries' = IF e.op = "remove"
                                       THEN boundaries \ {InstanceOf(items, e.key)}
                                       ELSE boundaries
                      /\ UNCHANGED <<seen, nextInstance>>
              /\ UNCHANGED <<vars, appVars, owner, live, task, nativeVars, pc>>

\* keyed_edit_commit! and install!, then the head of apply_keyed_inner.
HandOver ==
    /\ pc = "lower" /\ steps = <<>>
    /\ \/ /\ Begin(owner.revision, seq.revision)
          /\ owner' = [revision |-> seq.revision, items |-> items]
          /\ pc' = "host"
          /\ UNCHANGED <<appVars, items, boundaries, steps, registryVars, ops, task, nativeVars>>
       \/ ~(owner.revision = order.revision /\ seq.revision > owner.revision) /\ Panic

-----------------------------------------------------------------------------
(* The host: the graph transaction, the registry and the native views.     *)

HostEdit ==
    /\ pc = "host" /\ ops # <<>>
    /\ LET o == Head(ops)
           e == o.edit
       IN  \/ e.op = "insert" /\ Insert(e.key, e.before, o.root, o.instance)
           \/ e.op = "remove" /\ Remove(e.key)
           \/ e.op = "move" /\ Move(e.key, e.before)
           \/ e.op = "set" /\ Set(e.key, o.root, o.instance)
    /\ ops' = Tail(ops)
    /\ pc' = IF proposed' = None THEN "panicked" ELSE "host"
    /\ UNCHANGED <<appVars, rocVars, registryVars, task, nativeVars>>

ViewInsert(o, k, before, view) ==
    LET child == [view |-> view, previous |-> None, next |-> None]
        added == [o EXCEPT !.children = [x \in DOMAIN @ \union {k} |->
                                            IF x = k THEN child ELSE @[x]]]
    IN  Join(Join(added, Previous(o, before), k), k, before)

ViewMove(o, k, before) ==
    IF Stays(o, k, before) THEN o
    ELSE ViewInsert(RemoveChild(o, k), k, before, o.children[k].view)

\* apply_keyed_to_gpui: the accepted edits, replayed on the views.  `views`
\* gives the entity of each mounted root.
Replayed(o, e, views) ==
    CASE e.op = "insert" -> ViewInsert(o, e.key, e.before, views[e.root])
      [] e.op = "remove" -> RemoveChild(o, e.key)
      [] e.op = "move" -> ViewMove(o, e.key, e.before)
      [] e.op = "set" -> [o EXCEPT !.children[e.key].view = views[e.root]]

ReplayedAll(o, es, views) ==
    LET after[i \in 0..Len(es)] == IF i = 0 THEN o ELSE Replayed(after[i - 1], es[i], views)
    IN  after[Len(es)]

\* ComponentRegistry::commit
RegistryCommit(after) ==
    LET pending == {k \in DOMAIN seen : seen[k] \in after}
    IN  [k \in {x \in DOMAIN live : live[x] \in after} \union pending |->
            IF k \in pending THEN seen[k] ELSE live[k]]

HostCommit ==
    /\ pc = "host" /\ ops = <<>>
    /\ Commit
    /\ LET views == [r \in mounted' |-> CHOOSE i \in DOMAIN instances' : instances'[i] = r]
           rendered == {i \in DOMAIN edits : Renders(edits[i])}
           \* `self.views[&root]` has no entry for a fragment that was superseded.
           shows == Mountable /\ \A i \in rendered : edits[i].root \in mounted'
       IN  IF shows
           THEN /\ native' = ReplayedAll(native, edits, views)
                /\ live' = RegistryCommit(DOMAIN instances')
                /\ seen' = <<>> /\ pc' = "idle"
                /\ UNCHANGED nextInstance
           ELSE pc' = "panicked" /\ UNCHANGED <<native, registryVars>>
    /\ UNCHANGED <<appVars, rocVars, ops, task, placed>>

-----------------------------------------------------------------------------
(* The other turns that reach the column.                                  *)

\* A row answers an event of its own: it alone renders again, its value goes
\* into the sequence by set_local, which journals nothing, and its boundary
\* claims the view it had.  apply_to_gpui then stores the row at position 0 of
\* the container view's `children`, which were set when it was mounted.
ItemUpdate ==
    /\ pc = "idle"
    /\ \E k \in Rows(owner.items) : maxNode < MaxNode /\ ReplaceItem(k, maxNode + 1)
    /\ pc' = IF placed > 0 THEN "idle" ELSE "unplaced"
    /\ UNCHANGED <<appVars, rocVars, registryVars, ops, task, nativeVars>>

\* Mutant: the rows lowered again take new instances.
RebuiltAnew(rows) ==
    [i \in DOMAIN rows |-> [key |-> rows[i].key, instance |-> nextInstance + i - 1]]

\* The rows of a column lowered in full: known keys keep their instance, the
\* others get the next ones in order.
Rebuilt(rows) ==
    LET new(i) == {j \in 1..i : rows[j].key \notin DOMAIN live}
    IN  [i \in DOMAIN rows |->
            [key |-> rows[i].key,
             instance |-> IF rows[i].key \in DOMAIN live THEN live[rows[i].key]
                          ELSE nextInstance + Cardinality(new(i)) - 1]]

\* An ancestor renders again, with a sequence its handler may have edited: the
\* column is lowered in full into a new container, seeded in order.
\* finish_rebuild! does not retire the items that are gone, whose instances it
\* keeps in keyed_items and not in children.
AncestorRebuild ==
    /\ pc = "policy" /\ pc' = "idle"
    /\ LET rows == Rebuilt(draft.rows)
           n == Len(rows)
           root(i) == maxNode + i
           seeded == FromSeed(KeyList(rows), draft.revision)
       IN  /\ maxNode + n <= MaxNode
           /\ items' = rows
           /\ owner' = [revision |-> draft.revision, items |-> rows]
           /\ boundaries' = boundaries \union Instances(rows)
           /\ live' = Positions(rows)
           /\ nextInstance' = Largest(nextInstance, {i + 1 : i \in Instances(rows)})
           /\ order' = [seeded EXCEPT !.children = [k \in DOMAIN @ |->
                   [@[k] EXCEPT !.root = root(@), !.instance = InstanceOf(rows, k)]]]
           /\ mounted' = {root(i) : i \in 1..n}
           /\ instances' = [i \in Instances(rows) |->
                   root(CHOOSE j \in 1..n : rows[j].instance = i)]
           /\ maxNode' = maxNode + n
           /\ maxInstance' = Largest(maxInstance, Instances(rows))
           /\ native' = ViewsOf(order') /\ placed' = n
    /\ seq' = draft /\ edits' = <<>>
    /\ UNCHANGED <<keyed, dialog, journal, proposed, fragments, kept, spent, draft, steps, seen, ops, task>>

ColNext ==
    \/ Handle \/ Transact \/ Answer \/ Lower \/ HandOver
    \/ HostEdit \/ HostCommit \/ ItemUpdate \/ AncestorRebuild

ColSpec == ColInit /\ [][ColNext]_colVars

\* An application that also puts an earlier sequence back, to undo.
UndoSpec == ColInit /\ [][ColNext \/ PutBack]_colVars

-----------------------------------------------------------------------------
(* Properties.                                                             *)

\* Between turns the four copies of the column are one: the application's
\* sequence, the runtime's instances, the graph's linked order and the order
\* of the views list the same keys in the same order at the same revision, and
\* each view is the entity of its row's instance; and the registry and the
\* index of boundaries know the rows by those instances, so that the next
\* lowering finds each of them.  The runtime edits its copy by a journal or by
\* reconciliation, the views by replaying accepted edits.
SameRows ==
    pc = "idle" =>
        /\ KeyList(seq.rows) = KeyList(owner.items)
        /\ KeyList(owner.items) = Iter(order)
        /\ Iter(native) = Iter(order)
        /\ seq.revision = owner.revision /\ owner.revision = order.revision
        /\ \A k \in DOMAIN order.children :
            /\ order.children[k].instance = InstanceOf(owner.items, k)
            /\ native.children[k].view = InstanceOf(owner.items, k)
        /\ live = Positions(owner.items) /\ Instances(owner.items) \subseteq boundaries

\* Whatever path a turn takes through the column (a journal, a reconciliation,
\* a full lowering), a key that is mounted before and after it keeps its
\* instance.
SurvivorsKept ==
    [][\A k \in DOMAIN live \intersect DOMAIN live' : live'[k] = live[k]]_colVars

\* Two edits of one journal render, remove or insert one key.
Tangled(es) ==
    \E i, j \in DOMAIN es : /\ i # j /\ es[i].key = es[j].key
                            /\ es[i].op # "move" /\ es[j].op # "move"

\* A turn fails for two reasons only: the policy left the sequence at the
\* revision mounted, or a journal that was replayed edits one key twice.  All
\* else an application can do to its sequence is applied.
FailuresExplained ==
    pc = "panicked" =>
        \/ seq.revision <= Base.revision
        \/ seq.base = Base.revision /\ Tangled(seq.edits)

\* platform-api.adoc and the default on_delegate of Elem.roc: a delegation
\* may be answered without a structural edit, and a column whose journal does
\* not start at the revision mounted is reconciled from the full snapshot.
\* So a turn that ends at the revision mounted is applied.
UnchangedApplies == pc = "panicked" => seq.revision # Base.revision

\* Elem.roc: item actions project by key, whatever happened to the column.  So
\* a row that is mounted can always render itself again.
RowUpdatesApply == pc # "unplaced"
=============================================================================

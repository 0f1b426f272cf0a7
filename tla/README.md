# A TLA+ model of the Roc GUI platform

The repository is a platform for GUI applications written in Roc: a Rust host
(`src/crates/host/src`) that owns the window, the worker threads and the
capabilities, and a Roc runtime (`src/platform`) that turns an application's
pure `render` and handlers into patches for the host. This directory holds TLA+
modules for the parts of it that are hard to test, the TLC configurations that
check them on small instances, and TLAPS proofs about them. `PROJECT.json` says
for every definition which lines it models, for every property which plausible
bug breaks it, and lists the hazards the properties are for.

## The system

| Part | State it keeps | Operations | Modelled |
|---|---|---|---|
| Task runtime (`tasks.rs`, `lib.rs`) | a slot per task (atomic state, completion, interrupt hook), `LIVE`, `RUNNING_NOW`, counters, two channels, the session epoch and the publication gate | issue, supersede, cancel, unmount, begin, finish, deliver, reset, retirement of a session | `Tasks` |
| Timers (`timers.rs`) | next deadline, `waiting`, `canceled`, a condition variable | next, cancel, drop, the wake hook | `TimerWait` |
| Keyed column, native side (`bridge.rs`) | a doubly linked order of rows with a revision, the mounted nodes and the instance index | one transaction of inserts, removals, moves and sets; its rollback; replacement of a row | `KeyedOrder` |
| Keyed column, end to end (`KeyedSeq.roc`, `Internal.roc`, `lib.rs`) | the application's sequence and journal, the runtime's instances, the registry, the views | delegation and its policy, reconciliation, lowering, replay on the views, row updates, ancestor rebuilds | `KeyedColumn` |
| Mounted graph and interaction (`bridge.rs`) | nodes and parents, identities, hover, popovers, dialog, focus requests, canvas sizes | mount, replace with retained frontiers, carry and restore of interaction state, pointer and focus events | `Interaction` |
| Component registry and staging (`bridge.rs`) | live, pending and seen components, scopes; staged nodes and routes | resolve, commit, abort | nested scopes in `Session`; one column's scope; instances in a patch |
| Roc session (`Internal.roc`, `Action.roc`) | boundaries with memo snapshots, routes, the installed dispatcher | dispatch, apply an action at its owner, rebuild, retire | `Session`; `KeyedColumn` for the column |
| Grants (`grant.rs`) | the recorded grants, the withdrawn roots, the lifetimes | record a root, derive, accept, revoke, release, remember, forget a family | `Grants` |
| Recents (`recents.rs`) | the list, its keys, which grant holds which entry, the stored file | remember, reopen, forget, withdrawal, save, start | `Recents` |
| Watches (`watch.rs`) | names gathered, settle deadlines, bindings, descriptors | start, next, cancel, release, events, withdrawal | `Watch` |
| Processes (`process.rs`) | terminals with a reader flag, a master lock, cancelled and exited flags | spawn, read, write, cancel, drop | `Process` |
| Window runtime (`lib.rs`, `rows.rs`) | views by identity, virtual rows, focus, drags | apply a patch to GPUI, recycle views | column views; popover, focus and canvas listeners; rows on demand as a choice |
| Databases, sockets, devices, audio, clipboard | handle tables around operating-system services | | no |
| Specifications and runners, observatory, watchdog, assets, generated ABI | | | no |

They interact through one *turn* at a time. The UI thread dispatches an event or
takes a task's completion; Roc computes the next state and stages a patch, tasks
and cancellations; the graph accepts or refuses the patch as a whole; on
acceptance components that left end their tasks, cancellations and new jobs
follow, and the views are brought up to date. Only workers run beside the UI
thread. They share the task slots, the channels and the locks of the
capabilities with it. Every capability call goes through the grant registry: it
accepts a grant, works on the copy, and records what it derived; a person may
withdraw the grant at any point of that.

What is hard here: the interleavings of `stop`, `finish`, `begin` and retirement
over slots with several locks; waits that must not miss the end of their task;
a retired session whose workers are still running; transactions that edit in
place and must roll back; four copies of one ordered column, in two languages,
updated by three different paths; a withdrawal that falls into a call which has
already been let in; a list that is saved while the process may be killed; facts
about nodes that a patch replaces under the pointer; subtrees that a turn retains
because an input it remembers has not changed. The hazards in
`PROJECT.json` give each at its line.

## Modules

`TaskLifecycle` is what an application is promised: a task ends once, by
delivery of what it produced, by supersession or by cancellation, and at most
one is outstanding for a component and key.

`Tasks` is the runtime. A step is what the code does between two accesses to
shared state, so `stop` is three steps (the exchange, taking the completion,
calling the hook under its lock) and `finish` is five. `wpc` and `upc` are the
places of the workers and of the UI thread. What only the UI thread touches
(`LIVE`, most counters, the mounted components) moves with the step it belongs
to. A capability's wait is arm, check, block and disarm.

`TimerWait` is one timer below that: `next` with the two mutexes and the
condition variable (a sleeper can be woken spuriously), the wake hook that takes
the state lock under the interrupt lock, `cancel`, and the release of the last
handle. `now` is a clock that may stop.

`KeyedList` is an ordered list that is edited by transactions, published whole
or not at all. `KeyedOrder` is the linked order that implements it. Every
operation is one action with its acceptance and its refusal; the journal records
originals when they are first touched; `Restored` is the rollback. An item is
its boundary (root and instance) and the dialog it may hold, because the window
allows only one. The refinement maps the published rows to what a rollback would
restore.

`KeyedColumn` extends `KeyedOrder` with what stands above and below it. A
handler starts from the state it is given (`Handle`), journals edits
(`Transact`) and answers for the column (`Answer`) or for an ancestor
(`AncestorRebuild`); `Plan` is the choice between the journal and the snapshot;
`Lower` is one keyed step with the crashes of the runtime and of the registry;
`HandOver`, `HostEdit` and `HostCommit` are the host's part; `ReplayedAll` edits
the native order. A crash or a refused patch ends in `pc = "panicked"`.

`Session` is a whole turn of nested boundaries: an event finds its route, a
completion its owner (`EventOrigins`, `CompletionOrigins`), the handler answers
(`Answers`), `TargetOf` finds the boundary whose state the action changes and
`Dirty` makes those above it forget what they remembered. `UpdateBoundary`
renders the target again unless its input is the same; `Lowered` decides which
children are emitted, retained or rendered with it, on what the registry and the
index know of them (`Prepared`); `Rebuilt` is what the turn installs and hands to
the host, and `Replaced` and `Committed` are the splice of the graph and the
commit of the registry. A boundary's state is a cell, and its renderer passes
its value to its children; a parent's screen shows its own cell only, because an
update renders the boundary it belongs to and not those above
(`src/docs/platform-api.adoc:817`). `Update` stands for a task's start and for a
cancellation too, which change the state as it does and leave the rest to
`Tasks`. An event without a route of the current revision, and a completion
without an owner, are discarded: no step. Events are not checked against the
mounted nodes first, as the host does, so the routes alone must be right.
Numbers of instances and nodes come back once nobody holds them.

`Interaction` is a tree of boundaries, popovers, buttons, canvases and a dialog,
with the facts the host keeps about its nodes. `Patch` is `apply_inner` for a
mount, a replacement and a replacement that retains components: what it refuses
(`RetainsInside`, `Lawful`), the new tree (`Patched`), and then every fact by
identity (`Carried`, `Restored`), the focus requests (`Asks`) and what a dialog
that has just appeared hides (`Covered`). `Hover`, `Elapse`, `Dismiss`,
`PopoverFocus`, `Focus`, `TakeFocus` and `ReportSize` are what a person, the
clock and the layout do between patches. Node ids come back after their nodes
have gone, as slots do, so a fact left behind would be about another node.

`Grants` is the registry, one action per critical section of its mutex, and the
way capabilities use it: `Acquire` numbers a handle, `Accept` copies the grant
into the call, `Derive` records a descendant from that copy, whatever has
happened since. `Watch`, `Recents` and `Process` extend it.

`Watch` has four kinds of threads: the notifier (`Read`, `Tell` for each watch of
an event, `Told`, `Poll`), a withdrawal (`RevokeDir`, `RevokeSweep`, `Withdraw`
for each watch), the callers of start, cancel and release, and the tasks in
`next`. The kernel's queue is bounded, overflows, and merges an event with an
equal one at its end. Time is how long ago the first and the last gathered
change were.

`Recents` has the list and the file it is saved in. A save is create, write and
rename on inodes, each of which may fail, and `Restart` may happen between any
two steps. The saves of several threads interleave, over one staging name. A
withdrawal is the registry's section, the taking of the withdrawn roots, the lookup
of the entries they hold and the removal of each. Five history variables say what
the code does not remember: whether the last change of the list came while a save
was under way (`crossed`), whether a save has failed or overlapped another since the
last that did neither (`lapsed`), which withdrawn roots were dropped or in the hands
of another call when their withdrawal looked for their entries (`missed`), which
grants an entry is kept by (`makers`), and the list before its last change.

`Process` has a terminal's flags and its master lock, which a blocked write
holds; a shell that writes, reads, and exits when it likes; and spawn with its
five places at which a withdrawal or another spawn may come in between. A poll, a
read and a write may fail at any time. A read that fails, or finds its terminal
cancelled, returns without what it had collected (`GiveUp`); `lost` remembers that.
A write looks at the flags before it takes the lock (`WriteBegin`, `WriteLock`), so
a cancel may fall between the two.

The modules `MC...` give the constants. `MCRuntime` puts three subjects
that share no state into one run, `Tasks`, `Session` and `Interaction`,
`MCGrants` two, `Recents` and `Process`, and `MCLists` two, `KeyedOrder` and
`Recents`; the variable `subject` says which of them a behaviour is about. The proofs about a module are in the module of its
name with `Proofs` at the end, those about `Process` at the end of
`GrantsProofs`. `RecentsProofs` rests on the lemmas of `GrantsProofs`.

## Runs

| Run | Checks | Bounds |
|---|---|---|
| `tasks_safety` | one task per key, no orphan after a turn, ended slots hold nothing, published slots hold a completion, exact outstanding count, no completion of an earlier session, delivery to mounted components only, the refinement of `TaskLifecycle` | two tasks, two workers, the root and one component, one key, two sessions |
| `runtime` | tasks: a stopped wait unblocks, a published completion settles, retirement never waits for a worker; session: the screen is what a full rendering would show, and the session, the graph and the registry agree on boundaries and routes; interaction: facts agree with the tree, a dialog shields, facts are carried by identity, only a new serial asks for focus | tasks: one worker, so that a blocked wait also holds up the queue; session: five boundaries, three renderings of each; interaction: six fragments, five nodes |
| `timer_wait` | one wait, cadence, every stop returns, an ended wait returns; no deadlock | two tasks, two ticks |
| `timer_superseded` | *violated*: a superseding task is not refused by a timer that runs on | two tasks |
| `keyed_column` | the four copies agree between turns and the registry knows the rows, survivors keep their instances, failures are of two kinds only | three keys, three revisions, three edits, five node ids at a rebuild |
| `keyed_unchanged` | *violated*: a delegation that leaves the sequence alone is applied | as above |
| `keyed_undo` | *violated*: the copies agree although the application puts an earlier sequence back | as above |
| `keyed_place` | *violated*: a mounted row can render itself again | as above |
| `watch` | no change is lost, no watch survives a withdrawal that has returned, waits agree with the flag; a change is reported although the writer never pauses, an orphaned watch ends | one watch, one waiting task, a queue of one event, one name |
| `grants` | recents: the list is sound; processes: output is kept, a cancel wakes the reader; both: a withdrawal reaches exactly what descends from its root | recents: two handles, one thread, two places, a list of two entries, two runs of the program; processes: three threads at one terminal |
| `lists` | keyed order: one list in both directions, graph, links and instance index agree, no instance comes back, refinement of `KeyedList`; recents: a withdrawn place is forgotten, what is stored is current, a kill leaves the old list or the new | keyed order: three keys (two with a dialog), five node ids, three operations in a transaction; recents: two threads, two handles, one place, one key, refused saves, two runs of the program |
| `recents_withdrawn` | *violated*: a withdrawn place is forgotten, whoever is about to remember it | two threads, one place, no save refused |

Two tasks are enough for supersession, for a stop that races a finish, and for a
queued task behind a running one; two sessions for everything a session can
leave to the next. The safety of both runtimes is also proved for every size.
Three keys give a first, a middle and a last row, and a row to insert; a
transaction of three operations can insert, supersede and fail, which exercises
every branch of the rollback; with three revisions the column's journal is
exact, or one behind, or ahead of what is mounted.

One watch with a queue of one event has every event merged, kept and lost to the
overflow, and with `MaxNames = 1` the names overflow as well; all three invariants
are also proved for every number of watches and every bound. Two places and a
list of two entries give an entry that moves to the front, one that is dropped at the
end and one that keeps its place; two handles give an entry two grants or one grant
after another. In `lists` two threads and one place give two saves of which either
begins, writes or renames first, a withdrawal that looks for a grant before, while
and after another call notes it, and a kill at any point of either. There, calls do
not overlap in the last run of the program, and a save is refused only before it
and only while what is stored has not lapsed (`Bounds`). The two threads are
interchangeable. With two keys and with calls that overlap in the second run the
properties were checked once, without refused saves. All properties of the list
are also proved for every number of threads, places, keys and entries, and what a
terminal delivers for every number of threads and chunks.
Three threads at a terminal are the fewest at which a reader that waits for the
lock, the writer that holds it, and a canceller meet. In a tree of five nodes a
region, its anchor and content, and a canvas or a dialog beside them fit; the
fragments put the region in a page, in a component that is retained, and alone.

The session's five boundaries are the root, a page that remembers its input and
may be passed a value it shares, a list of rows on demand in it, a row that
remembers its own, and a note without a key. So a row is updated two remembered
levels down, an input changes and changes back, rows and the list come and go
and come back, and a translation gains and loses its memo. Three renderings of a
boundary are enough to leave a state and return to it; four, and a second row
with three, were explored once and pass too. Every bug that was tried in the
forgetting, the choice of the target, the routes, the retirement or the commit
is found within the three.
`RevokeDir` and the two other withdrawals act on grants that are recorded: of
any other, a withdrawal changes nothing.

Where keys or tasks are interchangeable and no liveness is checked, symmetry is
used. Deadlock is not checked for the runs that simply stop at their bounds; it
is for the safety of the tasks and for the timer.

### Fairness

Workers and the UI thread get processor time (weak fairness of their steps);
mutexes are granted eventually (strong fairness of the steps that contend for
one); the executor takes queued completions between events (strong fairness,
because each event makes it wait: the completion loop of `lib.rs` awaits the
channel on the UI executor). Nothing is assumed of a capability's answer, of a
task's return, of the clock, of further events or of the end of the session. So
the liveness properties say what stopping a task does, not that tasks end.

`WatchFairness`: the notifier, a withdrawal that has begun and each waiting task
go on, a `start` that has inserted its watch records it, and time passes, which
the settle deadlines need. `ProcessFairness`: a call at a terminal goes on when
it can; a write whose shell reads nothing cannot. Nothing is assumed of writers,
of the shell, of the application or of the person.

## What the violated runs show

* `timer_superseded`: a stopped wait clears `waiting` only when its worker runs
  again, so the task that superseded it can be told `Canceled` by a timer the
  documentation says keeps running.
* `keyed_unchanged`: with the default `on_delegate` the sequence keeps its
  revision; the runtime reconciles the snapshot and proposes a revision that is
  not later, which the graph refuses, and the patch panics.
* `keyed_undo`: revisions count edits, so a branch of a persistent sequence can
  reach the mounted number on other rows; its journal is replayed on them and the
  column shows rows the application does not have.
* `keyed_place`: the graph reports position 0 for a replaced keyed row, and the
  container view stores it in `children`, which keyed edits do not maintain; in
  a column mounted empty the index is out of bounds.
* `recents_withdrawn`: `remember_inner` marks the grant and inserts the entry in
  two critical sections. A withdrawal between them finds no entry held by the
  grant, and the withdrawn place is in the list when both calls have returned.

`keyed_column` bounds the second: apart from a revision that does not advance, a
turn of one application (that does not go back) fails only for a replayed
journal with two edits, other than moves, of one key. Such a journal is legal
for `KeyedSeq.apply_all` and applies when it arrives as a snapshot.

### Watches of a directory that is moved

The kernel's watch of a directory that is moved goes on under its descriptor,
while the host ends the watches of it and then removes the descriptor's list. A
watch started between the two is given the same descriptor, is in the list that
is removed, and hears of nothing. With `Renames = TRUE`, two watches
(`TwoWatches`, `TwoTargets`, `DatabaseChange`, `MaxWatches = MaxWd = 2`) and no
waiting task, TLC refutes `NothingMissed` in a few steps, against
`src/crates/host/src/watch.rs:16`. The `watch` run has `Renames = FALSE`: it
shows that this is the only way a change is lost.

### Saves that overlap

A save runs outside the lock of the list, and all saves of one process use one
staging name. So the older of two lists may be renamed last; the end of a longer
list may be left behind a shorter one; and one save may create anew, and thereby
empty, the file that another is about to rename, which
`src/crates/host/src/recents.rs:598` says cannot happen ("never half of either").
The invariant that whatever is stored next is a list some thread is saving was
refuted by TLC with two threads after 16 steps: one has written its list and is to
rename the file when the other begins its second save. The next save that overlaps
none repairs all of it, if there is one before the program ends. That is what
`StoredCurrent` and `CrashKeepsList` say, for any number of threads: they ask
nothing of what is stored while it has `lapsed`, which is from a save that was
refused, or a change that came while a save was under way, to the renaming of the
next save that overlaps none. Without that exception TLC refutes both.

Withdrawals are like that: `WithdrawnForgotten` holds for any
number of threads and asks nothing of the roots that were `missed`, and the violated
run shows that these may stay in the list.

### Other observations

No property excludes these; each was met while its part was modelled.

* `finish_rebuild!` does not retire the rows that an ancestor's rebuild dropped
  from a column, so their boundaries stay in the runtime's index.
* The `completed` counter of the task runtime can be raised after a reset by a
  worker of the session before; counters are evidence only.
* A descendant recorded from a copy that was accepted before `remember` keeps
  the lifetime of the session; a copy accepted before `forget_kind` still
  derives after it, as the withdrawals of that family's roots go with it.
* `roc_process_spawn` compares with `MAX_ACTIVE` before it takes the lock of the
  store, so two spawns can pass together; and it returns its handle although
  `record_descendant` refused it, so that shell runs while no call on it is
  accepted. A withdrawal does not end a shell that runs.
* `popover_focus_moved` follows parents, which a keyed row does not have, so the
  semantic runner takes focus inside a keyed row of a popover to have left it;
  the window asks GPUI's focus handles instead.
* `rows_event!` says that "when it changes nothing, a pending rebuild still
  happens" (`src/platform/Internal.roc:837`). It does for an answer of
  `NoChange`. If `on_range` answers with an update to an equal state and the
  list's owner remembers its input, `update_boundary!` finds the input unchanged
  and the rows that the event asked for are not built.
* The revision of a route is compared with its boundary's at every event, but
  `prepare_rebuild!` has already removed the routes of the revision before: with
  a model whose revisions stay the same, both properties of the session hold.
* Content of a popover that is around a dialog is hidden by the dialog it holds
  when its own popover closes (`IsPresented`), while the dialog stays.

## Proofs

`TasksProofs` proves for every set of tasks, workers, components and keys, and
any number of sessions, from the assumptions that the null values are not
members of their sets and that the root is an owner: the type invariant, the six
safety invariants `OnePerKey`, `NoOrphan`, `EndedHoldsNothing`,
`PublishedHolds`, `NoLostWake` and `NoStaleCompletion`, and the refinement
`Spec => ImplementsLifecycle`. None of these is inductive alone. The inductive
invariant has three parts, by who keeps them true. `UiInv`: every unended task
is live or being stopped, and while a keyed job is being issued no live task has
its owner and key; it needs to say where the UI thread is inside a
supersession or a reset. `WorkerInv`: at most one worker has begun a task, and
its place says whether the task is listed, armed, stored or published; a
completion in an ended slot has a thread about to take it, which is what `stop`
and `finish` agree on. `GateInv`: whoever sends holds the gate under the current
epoch, so the drain leaves nothing behind. Each part is proved for a worker's
step and for a step of the UI thread, one step per action.

It also proves `OutstandingExact` and `DeliveredToMounted`, last. The first says that a difference of counters is the cardinality of the unended tasks, so it
needs that the tasks ever created are finitely many, and that the counters move
with the set in each of the ways a task ends. A reset clears
them, and by then every task has ended. That a delivery is counted after its
completion (`CompletedFirst`) needs `SentLeft`: a task in the channel
has no worker any more. Together with the inductive invariant of `TasksProofs`
they are inductive; `DeliveredToMounted` follows for each step that delivers,
from `UiInv` and the gate.

`TimerWaitProofs` proves for every set of tasks and every interval the type
invariant, `OneWait`, `NoLostWake` and `Cadence`. `LockInv` ties the state lock
to the thread that is inside, with the flag that outlives its release;
`WakeInv` says that a sleeper is armed and that an unfinished stop has a target
that is stopped; `DueInv` that a wait leaves the loop only when due or ended.

`KeyedOrderProofs` proves the four properties of the linked order (`OneList`,
`GraphAgrees`, `NoResurrection` and the refinement `ImplementsList`) for every set
of keys, every bound, and every sequence of operations, legal or not. It assumes
that `None` is no key, number or child, and that the bounds leave room for the
column of two rows it may start with. The inductive invariant `OrderInv` does not
speak of neighbours. It says that the links represent a sequence of distinct keys
(`Lists`), in which an insertion is `Put`, a removal `Cut`, and a move both
(`InsertLists`, `RemoveLists`, `MoveLists`). That neighbours name each other would
not be enough: such links may also run in a circle beside the list. The order that a rollback would restore (`Base`) is such a list too, and does
not change while a transaction is open: whatever an operation rewrites, it has
journalled, now or earlier (`TouchRestores`). So a refusal is a return to a list,
wherever in the transaction it comes. `Published` ties the nodes, the instances
and the dialog to `Base`; `Staged` says that a fragment has a new root, and a new
instance or the one its key had, and that a row of the working order is the one it
was or one a fragment brought; with both, a commit that drops superseded fragments
publishes what the order lists (`CommitMounts`, `CommitDialog`). For the
refinement, the rows an order lists are those of its sequence (`RowsListed`), and
`Cut` and `Put` are what `KeyedList` does to rows by position (`RowsCut`,
`RowsPut`). A commit's revision is later than the one published because it was
later when the transaction began, and `Base` still has that one. TLC checked
`OrderInv` on the instance of the run.

Of the column from end to end it proves `SurvivorsKept`, for every set of keys,
every bound and every path of a turn, also when the application puts an earlier
sequence back (`UndoSurvivorsKept`, although the rows are then wrong, see above).
The invariant is that what a turn has resolved so far is what the registry has
under the same key, or is new to it (`SeenInv`): so the commit, which prefers what
was resolved, changes no key that stays, and an ancestor's rebuild takes known
instances from the registry (`RebuiltKeeps`).

`InteractionProofs` proves the four properties of the interaction with the mounted
graph (`FactsAgree`, `DialogShields`, `CarriedByIdentity`, `OnlyNewSerialAsks`) for
every set of fragments, every bound, and every order of patches and events. It
assumes of a fragment what `validate_fragment` and the head of `apply_inner` refuse
otherwise: it has a node, every node but the first is in an earlier one that is no
retained leaf, and a component is retained once. `Tree` says that the mounted nodes
can be ranked from the root down; that is what gives the recursive functions
`Above` and `Identity` a value (`TreeRecursion`), what every argument about them
uses (`TreeInduction`), and what a patch has to leave (`PatchedTree`: what is
outside of the replaced part keeps its rank, the fragment follows the node it
replaces, and what it retains comes after both). The inductive invariant needs, in
addition to the two invariants, only that no identity and no instance occurs twice
and that `serials` has each region's serial. A patch finds the retained components
again by their instance; that their identities stay what they were is checked by
the graph, and makes the identity of everything below them stay too
(`SurvivorIdentity`). So a node of the new tree with the identity of a mounted one
is that node or was staged for one that is gone (`SuccessorsAre`), which is why
nothing is given to two nodes and nothing is lost. For the dialog: what is above a
removed node and survives is above everything staged (`AboveRemoved`,
`AboveKept`), and a popover around a dialog that is rebuilt is around it again,
because nodes of one identity have ancestors of one identity (`SamePath`). TLC
checked the invariant on the instance of the run, with the length of the path as
rank.

`SessionProofs` proves `ScreenCurrent` and `SidesAgree` for every nesting of
boundaries, whichever of them are memoised, unkeyed, optional or lists of rows on
demand, and for all values they hold. Its assumptions are what the code has without
saying so: an application has finitely many places for boundaries, and none lies in
itself (the ranking in `SessionAssumption`); a number is left for a new boundary when
one is needed, as the counters of the code do not run out; the route of the opening
action, and no node at all, are told from a node's id, and no input from any input
(`SnapshotAssumption`: the code has a tag for each).

The invariant `SessionInv` says of the state between turns what a rendering needs of
it. `IsTree` is the shape that the entries of the session and the mounted nodes share:
one element for a site at most, and with an element one for its parent's site.
`Entries`, `Paths` and `Mounted` tie an entry's children, its path and the registry to
that shape; `Nodes`, `Roots` and `Routed` the graph and the routes. `Remembered` says
that a snapshot is the boundary's present input, and is there only if the boundary is
passed nothing that a snapshot would not cover; `Shown`, that a node shows what its
place in the state gives it. A rendering reaches some sites and retains some of those
(`Reach`), and `Spliced` is what the shape becomes: the new elements, the retained
ones with all that lies in them, and the rest outside. That is proved once
(`SplicedTree`) and used for the entries and for the nodes, which is why the two sides
agree afterwards.

`Shown` is kept for three reasons. What a turn renders, it renders from the latest
state. What it retains has the input it remembers, and what lies in it depends on
nothing else (`SameInside`, `GivenInside`). What lies outside is passed what it was
(`SameOutside`, `GivenOutside`): the state has changed inside the rendered boundary
only. For that, `TargetOf`, which counts the holders of state an action passes, must
find the boundary the handler's answer is for (`TargetIs`); and whatever remembers an
input the change is part of must forget it, which `Dirty` sees to because the
boundaries above the target are those in its path (`LinesAre`). Of an event or a
completion the proof uses only that its boundary is known to the session. TLC checked
`SessionInv` on the instance of the run.

`GrantsProofs` proves for every set of handles, families and callers, from the
assumption that a handle is a pair of a family and a number: the type invariant,
`RevocationReaches`, `OriginKept` and `WithdrawalFinal`. A withdrawal would miss a
grant if a number came back: a fresh handle might then be a root that was
withdrawn, or one that a copy in flight descends from. `NumbersIssued` says that
all roots, withdrawals and copies are of numbers given out before, and
`CopiesAgree` what a copy still knows of its root. The two withdrawals share one
lemma, and the two removals another.

The lemmas are stated for one operation each, with what they need of the caller
only: `RootKeeps` and `DescendantKeeps` ask for a number that is the root of
nothing (`Unrooted`), not for a fresh one, because a terminal's number is given
out before its grant is recorded.

`WatchProofs` proves the three invariants of the watches, for every number of
watches, waiting tasks, descriptors, names and every bound of the queue.

* `WithdrawnAtOnce`. When the sweep of a withdrawal looks through the store, a
  watch is in it and descends from the directory, or is inserted and its record
  will be refused, or is not inserted and the copy it is started from names the
  withdrawn root. `FromDir` says the first and the last of these, `Swept` that
  whatever goes on is still before the sweep, and `WaitersHeld` that a task waits
  at a watch that is stored. It assumes that watches and the directory have
  different handles.
* `NothingMissed`, for a directory that is not moved (`~ Renames`; with moves it
  is false, see above). A change that no wait has reported is gathered, covered by
  an overflow, queued, or being told. For the steps that hand an event on, the
  host's lists must have the watch under the descriptor the event carries
  (`Listed`, `Described`), and for the removal of a list, an event that says a
  directory is gone must be the last under its descriptor (`GoneLast`): this is
  what a move breaks. That the queue merges equal events, and drops what does not
  fit behind an overflow, loses nothing: whoever the merged or dropped event would
  tell is told by the one that stands for it.
* `WaitsAgree`, with moves too: the flag is set exactly while one task sleeps at
  the watch (`FlagOK`), there are instants exactly when something is gathered
  (`GotOK`), and the end of a watch notifies (`EndTold`).

Of the terminals it proves `OutputKept`, for every number of threads and chunks: what
a terminal delivered, what its reader has collected and what it still holds are,
one after the other, what the shell wrote (`StreamKept`), but for what was in the
hands of a read that ended with an error or was cancelled; such a read had less than
it asked for. Nothing is delivered twice or out of order, also by the reads that
follow one that failed. It holds because a
terminal has one reader (`OneReader`: the flag is set by the thread that finds it
unset, and only that thread clears it) and nobody else carries anything
(`OnlyReadersCollect`). It also proves that `RevocationReaches` and `OriginKept`
survive the way `spawn` uses the registry, which inserts its handle before the
grant is recorded: until then nothing descends from the handle (`HandleUnrooted`).

`RecentsProofs` proves `ListSound` and `RevocationReaches` for every number of
threads, places, keys and entries, any number of runs, and whatever the file
system refuses. The inductive invariant says that a key is of one place as long as
a run lasts. `EntriesSound`: the list is bounded, has no key and no place twice,
and its keys are below the next. `HeldSound`: only numbers given out hold an entry
or have a place, and what a grant holds is the entry of its place. `CallSound`:
what a call in flight carries, from a look at the list or at the registry that may
be out of date, still agrees with the list, because a key that has gone never
comes back for another place. A restart is the other half: `DecodedSound` shows
that what is read back from a file is such a list whatever entries the file has
(it may be half of one save and half of another), and `NextKeyFresh` that no key
of it is given out again. TLC checked this invariant with two threads, too.

It proves `StoredCurrent`, `CrashKeepsList` and `WithdrawnForgotten` for any number of
threads, with saves that overlap, refused saves, kills and restarts; the invariant
that is inductive is `KeepInv`, which adds two parts to the one above.

* `StoredInv`. The staging file is never the stored one, whatever saves do. If two
  threads are in a save, the change before the later of them is `crossed`, and what
  is stored has `lapsed`. If the last change is not, at most one thread is in a save,
  and its file is what its step needs (`FileSound`): nobody else's, empty when it is
  written to, the whole list when it is renamed. So the renaming of such a save
  makes the stored list the list, and until then it is the one before;
  `DecodedSame` shows that reading back a list without a key or a place twice leaves
  nothing out.
* `MakersInv`. What an entry is kept by holds it, until its handle is dropped
  (`MakersHold`). A root that is withdrawn is not remembered again, as the registry
  refuses the mark, and a call that reopens an entry has a grant nobody else uses yet
  (`Begins`). So when a withdrawal looks (`WithdrawFind`), whatever its roots keep is
  under a key it finds, unless a handle is gone or a call is between its mark and its
  entry, which is `missed`; from then on nothing new is kept by these roots, and what
  it has still to forget is all that they keep (`CallKeeps`).

Induction. The library's induction theorems cannot be used, since they take an
operator as a parameter. `RecentsProofs` proves instead that a set of numbers that
has 0, and with each number the next, has all (`AllNumbers`), from the library's
fact that the order of numbers is well founded; with it, that the two recursive
functions over lists (`Without`, and the one of `Decoded`) are defined, and what
they return for a list of any length. `InteractionProofs` does the same for
functions on a tree, and `SessionProofs` for functions on the sites, from the parents
down and from the leaves up (`SiteInduction`, `LeafInduction`).

Only model-checked: of the keyed column from end to end, that its four copies are
one (`SameRows`) and that no other turn fails (`FailuresExplained`), whose proof has
to follow a journal through three copies at once; and all liveness, which the prover
does not handle.

## Not modelled, and why

The node tree below a keyed row, text and layout, and everything GPUI draws: no
property here depends on them. Split ratios, shortcuts and the facts below keyed
rows are left out of `Interaction`; they are carried by the same code. Rows on
demand and the recycling of views depend on the layout of the visible range.
Memory is left out except for completions, whose release is what
`EndedHoldsNothing` is about. Atomics are sequentially consistent: every exchange
the protocols rely on is acquire-release on one location, and the counters are
only read for display. The 64-bit counters for nodes, instances and revisions do
not wrap, and the code checks the first two.

Of the grants: the seeds of a specification, `begin_lifecycle` and the listings
for the access panel. Of the watches: whether a name refers to another file now,
the FSEvents and Windows backends, which decode into the same events, and the end of
the notifier when its poll fails (`src/crates/host/src/watch.rs:558`), a failure
of the system after which no watch is told of anything. Of the
processes: resize, sizes in bytes, and ConPTY. Of the recents: what the file
system finds at a place is left open at every look, instead of being modelled.

Of the session: deferred actions, whose answers arrive before the turn goes on;
adapters that lift an element without a boundary; the errors of an application at
which the runtime crashes (a component emitted after its projection is gone, one
key twice); several handlers in one boundary, of which one stands for all. A
remembered input is compared by equality: what a comparison of the application's
own leaves out, it asks not to be rendered. Keyed columns with boundaries around
them are in no model together.

A wait that misses its wake (`NoLostWake`) is proved for the tasks and the timer;
the runs show what follows from it, that a stopped wait unblocks and returns.

Parts that are only calls into the operating system or a library, the
repository's own test drivers, measurement and generated code (a third of the
implementation's lines are the generated ABI) are listed in `PROJECT.json` with
their reasons.

## What is left

1. Virtual rows and view recycling; the order tree of `KeyedSeq` against a
   sequence as a pure algorithm; the statements and transactions of `sqlite.rs`.
2. `Session` composed with `Tasks` and with a keyed column below a boundary.
3. Proofs: `SameRows` and `FailuresExplained` of the keyed column from end to end, on
   top of `OrderInv`.

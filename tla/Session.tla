------------------------------ MODULE Session ------------------------------
(* The Roc session: one closure over the state, the routes and the           *)
(* boundaries, replaced by every turn.  An event or a completion finds the   *)
(* boundary it is for, the action its handler returns finds the boundary     *)
(* that holds the state it changes, and that boundary is rendered again down *)
(* to the children whose remembered input is the same.  The native side of a *)
(* turn is here too: the graph that Replace splices and the registry that    *)
(* gives a boundary its instance.  A number comes back once nobody holds it, *)
(* which keeps the instances finite; the code counts on.  An event for an id *)
(* without a route, or a completion for an owner that is not mounted, is     *)
(* discarded whatever the number is, and is no step here.                    *)
EXTENDS Naturals, SequencesExt

CONSTANTS
    Site,         \* where the application puts boundaries
    Top,         \* the site of the application renderer
    Parent,       \* the site whose rendering holds each other site
    Transparent,  \* lists of rows on demand: they hold no state
    Memoised,     \* translations with a `memo`
    Unkeyed,      \* translations without a key: every rendering mounts a new one
    Optional,     \* rendered only while the renderer sees a value other than 0
    Values,       \* the values of the cell each other boundary holds
    Number,       \* numbers of instances and of nodes
    MaxRevision,  \* bound: how often one boundary is rendered
    OpenRoute,    \* the route of the opening action
    Unknown,      \* no remembered input
    Nothing       \* no value passed, no node

\* A renderer that sees this value passes it into its children, whose own input
\* then no longer covers what they show: they are translated without a memo.
Shared == 2

Holders == Site \ Transparent

ASSUME SessionAssumption ==
    /\ Top \in Site /\ Parent \in [Site \ {Top} -> Site]
    /\ Transparent \subseteq Site \ {Top} /\ Memoised \subseteq Holders \ {Top}
    /\ Optional \subseteq Site \ {Top}
    /\ IsFiniteSet(Site)
    /\ \E rank \in [Site -> 0 .. Cardinality(Site)] :
          \A c \in Site \ {Top} : rank[Parent[c]] < rank[c]
    /\ DOMAIN Values = Holders
    /\ MaxRevision \in Nat \ {0}
    /\ Number \subseteq Nat /\ 1 \in Number /\ Number # {1}
    /\ {OpenRoute, Nothing} \intersect (Site \X Number) = {}

VARIABLES
    cells,      \* the application's state, a cell for each boundary that holds one
    info,       \* Index(BoundaryInfo): by instance
    routes,     \* Index(Route): by the id of the node that raises the event
    screen,     \* the mounted graph: by node id, the node of each boundary
    shownRoot,  \* its root
    mounts,       \* the component registry: instance by scope and key
    opened      \* the opening event was sent

sessionVars == <<cells, info, routes, screen, shownRoot, mounts, opened>>

-----------------------------------------------------------------------------
States ==
    {s \in [Holders -> UNION Range(Values)] : \A c \in Holders : s[c] \in Values[c]}

Over[c \in Site] == IF c = Top THEN {} ELSE {Parent[c]} \cup Over[Parent[c]]
Under(c) == {d \in Site : d = c \/ c \in Over[d]}

\* The nearest site, from this one up, that holds state.
HolderAt[c \in Site] == IF c \in Transparent THEN HolderAt[Parent[c]] ELSE c

\* The boundaries that hold state from the site up, and how many of them an
\* action passes through to reach `d`.
HoldersOf(c) == ({c} \cup Over[c]) \ Transparent
Level(c, d) == Cardinality(HoldersOf(c) \ HoldersOf(d))

\* The input of a boundary: its value, with those of the boundaries in it.
Input(c, s) == [d \in Under(c) \ Transparent |-> s[d]]

ASSUME SnapshotAssumption == \A s \in States : \A c \in Site : Input(c, s) # Unknown

\* The value the renderer of a site reads: its own cell, or for a list, whose
\* renderer is a closure of its owner's, what its owner passed to it.
Seen(c, passed, s) == IF c \in Transparent THEN passed ELSE s[c]

Remembers(c, passed) == c \in Memoised /\ passed # Shared

\* What a rendering of the site puts on the screen, without its children.
Shows(c, passed, s) ==
    <<Seen(c, passed, s), IF Remembers(c, passed) THEN Nothing ELSE passed>>

Emits(c, passed) == c \in Optional => passed # 0

-----------------------------------------------------------------------------
FreshNumber(used) == CHOOSE k \in Number : k \notin used /\ \A l \in Number \ used : k <= l

FreshInstance(c) == <<c, FreshNumber({i[2] : i \in {j \in DOMAIN info : j[1] = c}})>>
FreshNode(c) ==
    <<c, FreshNumber({n[2] : n \in {m \in DOMAIN screen \cup (DOMAIN routes \ {OpenRoute}) : m[1] = c}})>>

\* unchanged!: the remembered input is the latest.
Unchanged(entry, s) == entry.memo = Input(entry.site, s)

\* A boundary that is mounted for the first time.
NewInfo(c, path, passed) ==
    [site |-> c, path |-> path, passed |-> passed, memo |-> Unknown,
     revision |-> 0, ids |-> {}, children |-> {}, root |-> Nothing]

\* prepare_component!, for every site under the boundary that is rendered: the
\* instance is the one the registry has for the key in this scope, or a new
\* one.  An entry that is there is given what the renderer passes now, and
\* keeps its snapshot unless the translation gained or lost its memo.
Prepared(owner, s, infos) ==
    LET top == infos[owner].site
        path[c \in Under(top)] ==
            IF c = top THEN infos[owner].path
            ELSE LET location == <<Last(path[Parent[c]]), c>>
                 IN  Append(path[Parent[c]],
                            IF location \in DOMAIN mounts /\ c \notin Unkeyed
                            THEN mounts[location] ELSE FreshInstance(c))
        passed(c) == IF HolderAt[Parent[c]] \in Under(top)
                     THEN s[HolderAt[Parent[c]]] ELSE infos[owner].passed
        entry(c, old) ==
            [old EXCEPT
                !.passed = passed(c),
                !.memo = IF Remembers(c, old.passed) = Remembers(c, passed(c))
                         THEN @ ELSE Unknown]
    IN  [c \in Under(top) |->
            IF c = top THEN infos[owner]
            ELSE IF Last(path[c]) \in DOMAIN infos
            THEN entry(c, infos[Last(path[c])])
            ELSE NewInfo(c, path[c], passed(c))]

\* What lower_work! comes to under the owner: a renderer emits its children, of
\* the rows those the host names as near the viewport, and an unchanged child
\* is retained, with everything in it.
Lowered(owner, s, infos, near) ==
    LET entry == Prepared(owner, s, infos)
        top == infos[owner].site
        below == Under(top) \ {top}
        emitted == {c \in below : /\ Emits(c, entry[c].passed)
                                  /\ Parent[c] \in Transparent => c \in near}
        retained == {c \in below : Unchanged(entry[c], s)}
        reached == {c \in Under(top) :
                       \A d \in ({c} \cup Over[c]) \cap below :
                           d \in emitted /\ (d # c => d \notin retained)}
    IN  [entry |-> entry, reached |-> reached, retained |-> retained \cap reached]

\* finish_rebuild!: the rendered boundary has a new revision, one new route and
\* its new children, and remembers its input if its translation has a memo.
Finished(entry, root, children, s) ==
    [entry EXCEPT
        !.revision = @ + 1, !.ids = {root}, !.children = children, !.root = root,
        !.memo = IF Remembers(entry.site, entry.passed)
                 THEN Input(entry.site, s) ELSE Unknown]

\* Mutant: only the boundary itself is retired.
FamilyAlone(infos) == [i \in DOMAIN infos |-> {i}]

\* retire!: a boundary that is gone and the ones in it.
Family(infos) ==
    LET family[i \in DOMAIN infos] ==
            {i} \cup UNION {family[j] : j \in infos[i].children}
    IN  family

\* rebuild!: what the turn hands to Replace and installs, of what was lowered.
Rebuilt(owner, s, infos, low) ==
    LET rendered == low.reached \ low.retained
        id == [c \in low.reached |->
                 IF c \in rendered THEN FreshNode(c) ELSE low.entry[c].root]
        at == [c \in low.reached |-> Last(low.entry[c].path)]
        inside(c) == {d \in low.reached \ {infos[owner].site} : Parent[d] = c}
        children(c) == {at[d] : d \in inside(c)}
        entries == [i \in {at[c] : c \in low.reached} |->
                      LET c == i[1]
                      IN  IF c \in rendered
                          THEN Finished(low.entry[c], id[c], children(c), s)
                          ELSE low.entry[c]]
        lost == UNION {low.entry[c].children \ children(c) : c \in rendered}
        retired == UNION {Family(infos)[i] : i \in lost}
        cleared == (UNION {low.entry[c].ids : c \in rendered})
                   \cup (UNION {infos[i].ids : i \in retired})
    IN  [info |-> [i \in (DOMAIN infos \ retired) \cup DOMAIN entries |->
                     IF i \in DOMAIN entries THEN entries[i] ELSE infos[i]],
         routes |-> [n \in (DOMAIN routes \ cleared) \cup {id[c] : c \in rendered} |->
                       IF n \in {id[c] : c \in rendered}
                       THEN [boundary |-> at[n[1]], revision |-> entries[at[n[1]]].revision]
                       ELSE routes[n]],
         staged |-> [n \in {id[c] : c \in rendered} |->
                       [boundary |-> at[n[1]],
                        shows |-> Shows(n[1], low.entry[n[1]].passed, s),
                        kids |-> {id[d] : d \in inside(n[1])}]],
         frontier |-> {id[c] : c \in low.retained},
         resolved |-> [l \in {<<at[Parent[c]], c>> : c \in low.reached \ {infos[owner].site}} |->
                         at[l[2]]],
         root |-> id[infos[owner].site]]

-----------------------------------------------------------------------------
\* The native side.  A retained subtree keeps its nodes; the rest of the old
\* subtree goes.
Subtree ==
    LET subtree[n \in DOMAIN screen] == {n} \cup UNION {subtree[k] : k \in screen[n].kids}
    IN  subtree

Replaced(old, new, staged, frontier) ==
    LET gone == IF old \in DOMAIN screen
                THEN Subtree[old] \ UNION {Subtree[n] : n \in frontier}
                ELSE {}
    IN  [n \in (DOMAIN screen \ gone) \cup DOMAIN staged |->
           IF n \in DOMAIN staged THEN staged[n]
           ELSE [screen[n] EXCEPT !.kids = {IF k = old THEN new ELSE k : k \in @}]]

BoundariesIn(graph) == {graph[n].boundary : n \in DOMAIN graph}

\* ComponentRegistry::commit: the instances whose nodes the patch removed end,
\* and those the render resolved are kept if the graph has them.
Committed(graph, resolved) ==
    LET removed == BoundariesIn(screen) \ BoundariesIn(graph)
        stay == {l \in DOMAIN mounts : mounts[l] \notin removed}
        enter == {l \in DOMAIN resolved : resolved[l] \in BoundariesIn(graph)}
    IN  [l \in stay \cup enter |-> IF l \in enter THEN resolved[l] ELSE mounts[l]]

-----------------------------------------------------------------------------
Rows == {c \in Site \ {Top} : Parent[c] \in Transparent}

Render(i, s, infos) ==
    \E near \in SUBSET Rows :
    \E low \in {Lowered(i, s, infos, near)} :
    \E built \in {Rebuilt(i, s, infos, low)} :
       LET old == infos[i].root
           graph == Replaced(old, built.root, built.staged, built.frontier)
       IN  /\ \A j \in DOMAIN built.info : built.info[j].revision <= MaxRevision
           /\ info' = built.info /\ routes' = built.routes
           /\ screen' = graph
           /\ shownRoot' = IF shownRoot = old THEN built.root ELSE shownRoot
           /\ mounts' = Committed(graph, built.resolved)

\* update_boundary!: the boundary is asked first whether its input changed.
UpdateBoundary(i, s, infos) ==
    /\ cells' = s
    /\ IF Unchanged(infos[i], s)
       THEN info' = infos /\ UNCHANGED <<routes, screen, shownRoot, mounts>>
       ELSE Render(i, s, infos)

\* apply_action!: a state-changing action belongs to the nearest boundary above
\* its origin that holds state, and passes as many of those as it has levels.
TargetOf(origin, levels) ==
    LET path == info[origin].path
        holding == {k \in DOMAIN path : path[k][1] \notin Transparent}
        nearer(k) == {l \in holding : k < l}
    IN  IF levels < Cardinality(holding)
        THEN path[CHOOSE k \in holding : Cardinality(nearer(k)) = levels]
        ELSE path[1]

\* Mutant: only the boundary next above the target forgets its snapshot.
DirtyNextAbove(target) ==
    LET path == info[target].path
    IN  [i \in DOMAIN info |->
           IF Len(path) > 1 /\ i = path[Len(path) - 1]
           THEN [info[i] EXCEPT !.memo = Unknown] ELSE info[i]]

\* Every boundary above the target forgets its snapshot.
Dirty(target) ==
    [i \in DOMAIN info |->
       IF i # target /\ i \in Range(info[target].path)
       THEN [info[i] EXCEPT !.memo = Unknown] ELSE info[i]]

RootInstance == <<Top, 1>>

\* Update, and Task and Cancel, which change the state as it does; a delegation
\* that every boundary passed on, which is an update of the root; and the
\* viewport event of a list, which renders the list alone.
Update(origin, levels, s) ==
    [renders |-> TargetOf(origin, levels), cells |-> s,
     info |-> Dirty(TargetOf(origin, levels))]
Delegate(origin, levels, s) ==
    [renders |-> RootInstance, cells |-> s, info |-> Dirty(TargetOf(origin, levels))]
Refresh(origin) == [renders |-> origin, cells |-> cells, info |-> info]

\* The states a handler may answer with on behalf of a boundary: one cell
\* changes, the boundary's own or that of one in it.
Changes(d) ==
    {cells} \cup UNION {{[cells EXCEPT ![c] = v] : v \in Values[c]} : c \in Under(d) \ Transparent}

\* The handler's action, through the adapters of the boundaries it passes: it is
\* accepted by the boundary that holds the handler's state, or by one further
\* up, or by none.
Answers(origin) ==
    LET c == origin[1]
    IN  {Refresh(origin) : x \in {c} \cap Transparent}
        \cup (UNION {{Update(origin, Level(c, d), s) : s \in Changes(d)} : d \in HoldersOf(c)})
        \cup {Delegate(origin, Level(c, Top), s) : s \in Changes(Top)}

Turn(origins) ==
    \E answer \in UNION {Answers(i) : i \in origins} :
        UpdateBoundary(answer.renders, answer.cells, answer.info)

\* exists!: the boundary is mounted and the state still has what it projects.
Projected(c) ==
    \A d \in {c} \cup Over[c] : d \in Optional \ Transparent => cells[HolderAt[Parent[d]]] # 0
Exists(i) == i \in DOMAIN info /\ Projected(i[1])

\* The opening action answers the one event sent before any input.
Open ==
    /\ shownRoot # Nothing /\ ~ opened /\ opened' = TRUE
    /\ routes[OpenRoute].revision = info[RootInstance].revision
    /\ \/ Turn({RootInstance})
       \/ UNCHANGED <<cells, info, routes, screen, shownRoot, mounts>>

\* An event finds its route, the route's boundary and its revision, and a
\* completion its owner, or they are discarded.
EventOrigins ==
    {routes[n].boundary : n \in {n \in DOMAIN routes \ {OpenRoute} :
        /\ Exists(routes[n].boundary)
        /\ routes[n].revision = info[routes[n].boundary].revision}}
CompletionOrigins == {i \in DOMAIN info : Exists(i)}

DispatchInput ==
    /\ opened /\ UNCHANGED opened
    /\ Turn(EventOrigins \cup CompletionOrigins)

-----------------------------------------------------------------------------
\* start!: before the first rendering there is the root's entry, and the route of
\* the opening action at the revision the first rendering gives the root.
SessionInit ==
    /\ cells = Nothing
    /\ info = [i \in {RootInstance} |-> NewInfo(Top, <<RootInstance>>, Nothing)]
    /\ routes = [n \in {OpenRoute} |-> [boundary |-> RootInstance, revision |-> 1]]
    /\ screen = <<>> /\ shownRoot = Nothing /\ mounts = <<>> /\ opened = FALSE

Start ==
    /\ shownRoot = Nothing /\ UNCHANGED opened
    /\ cells' \in States
    /\ Render(RootInstance, cells', info)

SessionNext ==
    \/ Start
    \/ Open
    \/ DispatchInput

SessionSpec == SessionInit /\ [][SessionNext]_sessionVars

-----------------------------------------------------------------------------
\* What each renderer would be passed if everything were rendered now.
PassedNow[c \in Site] ==
    IF c = Top THEN Nothing ELSE Seen(Parent[c], PassedNow[Parent[c]], cells)

\* However little of it a turn renders, and whatever it retains, the screen is
\* what a rendering of the whole application would show of the latest state,
\* but for the rows that are not near the viewport.
ScreenCurrent ==
    \A n \in DOMAIN screen :
        LET emitted == {c \in Site \ {Top} : Parent[c] = n[1] /\ Emits(c, PassedNow[c])}
            kids == {k[1] : k \in screen[n].kids}
        IN  /\ screen[n].shows = Shows(n[1], PassedNow[n[1]], cells)
            /\ kids \subseteq emitted
            /\ n[1] \in Transparent \/ kids = emitted

\* After every turn the session, the mounted graph and the registry know the
\* same boundaries: each node that can raise an event has the route of a live
\* boundary at its current revision, no route leads anywhere else, and a
\* boundary's place in its parent is the same on both sides.
SidesAgree ==
    shownRoot # Nothing =>
        /\ DOMAIN screen = Subtree[shownRoot]
        /\ DOMAIN routes = DOMAIN screen \cup {OpenRoute}
        /\ DOMAIN info = BoundariesIn(screen)
        /\ \A n \in DOMAIN screen :
             LET i == screen[n].boundary
                 children == {screen[k].boundary : k \in screen[n].kids}
             IN  /\ routes[n] = [boundary |-> i, revision |-> info[i].revision]
                 /\ info[i].root = n /\ info[i].children = children
                 /\ \A j \in children : mounts[<<i, j[1]>>] = j
        /\ \A l \in DOMAIN mounts : mounts[l] \in info[l[1]].children
=============================================================================

----------------------------- MODULE Interaction ----------------------------
(***************************************************************************)
(* What a person is doing with the mounted graph (bridge.rs): the nodes    *)
(* the pointer rests on, the popovers that present, wait or hold focus,    *)
(* the focus requests of regions and the sizes canvases have heard, while  *)
(* patches replace the subtrees those facts are about.  A rebuild gives    *)
(* every node a new id, so the state is carried by identity, the path of   *)
(* keys from the root.                                                     *)
(*                                                                         *)
(* A tree is a function from ids to nodes that name their parent.  A key   *)
(* is a name, unique among its siblings (a repeated label's occurrence     *)
(* number is part of the name); a boundary's is its instance.  A fragment  *)
(* is a tree over 1 .. k in document order, where a "retain" leaf stands   *)
(* for the mounted boundary of that instance.  Keyed columns (KeyedOrder   *)
(* has them), splits and the shortcuts a region declares are left out.  A  *)
(* patch the graph refuses changes nothing and ends the program, so only   *)
(* accepted patches are steps.                                             *)
(***************************************************************************)

EXTENDS Naturals, Sequences, FiniteSets

CONSTANTS Copies,     \* how many nodes may stand at one place of a fragment
          MaxNodes,   \* bound: nodes mounted at once
          Fragments,  \* what the application renders
          Sizes,      \* sizes a canvas may be laid out at
          Drivers     \* who moves focus: the "window", the "runner", or both

Kinds == {"column", "boundary", "button", "popover", "dialog", "canvas"}

\* validate_fragment, and the head of apply_inner: every node of a fragment is
\* reached from its root, what is retained is a leaf, and is retained once.
ASSUME InteractionAssumption ==
    /\ Copies \subseteq Nat /\ MaxNodes \in Nat
    /\ \A f \in Fragments :
        /\ Len(f) \in Nat \ {0} /\ DOMAIN f = 1..Len(f)
        /\ \A j \in 1..Len(f) :
              /\ f[j] \in [kind : Kinds \union {"retain"}, name : {f[j].name}, up : 0..(j - 1),
                           at : Nat, hover : BOOLEAN, delay : Nat, serial : Nat]
              /\ j > 1 => f[j].up > 0 /\ f[f[j].up].kind # "retain"
              /\ \A i \in 1..Len(f) : /\ f[i].kind = "retain" /\ f[j].kind = "retain"
                                      /\ f[i].name = f[j].name
                                     => i = j

\* An id is the place in the fragment that staged the node, and a number of its
\* own; those of nodes that are gone come back.
NodeId == (UNION {DOMAIN f : f \in Fragments}) \X Copies
NoNode == <<0, 0>>

VARIABLES nodes,     \* the mounted tree
          seenMax,   \* max_seen_instance
          hovered,   \* nodes the pointer rests on
          open,      \* popovers presenting
          pending,   \* popovers waiting out their delay
          within,    \* focus_within: popovers holding keyboard focus
          serials,   \* the serial each mounted region asked for focus with
          requests,  \* regions whose request has not been taken
          sizes      \* the size each canvas heard last

popovers == <<open, pending, within>>
interactionVars == <<nodes, seenMax, hovered, popovers, serials, requests, sizes>>

-----------------------------------------------------------------------------
(* Trees.                                                                  *)

\* Every node with its ancestors.
Above(tree) ==
    LET above[n \in DOMAIN tree] ==
          {n} \union IF tree[n].up = NoNode THEN {} ELSE above[tree[n].up]
    IN  above

\* ElementIdentity: the keys from the root down to each node.
Identity(tree) ==
    LET key(n) == <<tree[n].kind, tree[n].name>>
        path[n \in DOMAIN tree] == IF tree[n].up = NoNode THEN <<key(n)>>
                                   ELSE Append(path[tree[n].up], key(n))
    IN  path

\* Document order, the order Tab visits: by the positions on the paths.
Before(tree, a, b) ==
    LET place[n \in DOMAIN tree] == IF tree[n].up = NoNode THEN <<>>
                                    ELSE Append(place[tree[n].up], tree[n].at)
        p == place[a]
        q == place[b]
    IN  \/ Len(p) < Len(q) /\ SubSeq(q, 1, Len(p)) = p
        \/ \E i \in DOMAIN p \intersect DOMAIN q :
              p[i] < q[i] /\ SubSeq(p, 1, i - 1) = SubSeq(q, 1, i - 1)
Earliest(tree, S) == {n \in S : \A m \in S \ {n} : Before(tree, n, m)}
Latest(tree, S) == {n \in S : \A m \in S \ {n} : Before(tree, m, n)}

Mounted == DOMAIN nodes
Of(tree, kind) == {n \in DOMAIN tree : tree[n].kind = kind}
Tracks(tree, n) == tree[n].kind = "popover" \/ (tree[n].kind = "button" /\ tree[n].hover)
\* A popover with content: its first child is the anchor.
Presents(tree, n) ==
    tree[n].kind = "popover" /\ \E c \in DOMAIN tree : tree[c].up = n /\ tree[c].at > 0
InContent(tree, n, p) == \E c \in Above(tree)[n] : tree[c].up = p /\ tree[c].at > 0

Dialog == Of(nodes, "dialog")
BehindDialog(n) == Dialog # {} /\ Above(nodes)[n] \intersect Dialog = {}
IsPresented(n) == \A p \in Of(nodes, "popover") \ open : ~ InContent(nodes, n, p)

InteractionInit ==
    /\ nodes = [n \in {} |-> {}] /\ seenMax = 0
    /\ hovered = {} /\ open = {} /\ pending = {} /\ within = {}
    /\ serials = [n \in {} |-> 0] /\ requests = {} /\ sizes = [n \in {} |-> 0]

-----------------------------------------------------------------------------
(* Patches: apply_inner for Mount, Replace and ReplaceRetaining.           *)

\* The tree after `old` (NoNode for a mount) gave way to the fragment.
Frontier(f) == {n \in Of(nodes, "boundary") :
                  \E j \in DOMAIN f : f[j].kind = "retain" /\ f[j].name = nodes[n].name}
Removed(old, f) == {n \in Mounted : /\ old \in Above(nodes)[n]
                                    /\ Above(nodes)[n] \intersect Frontier(f) = {}}
FreeId(j, c) == <<j, c>> \in NodeId \ (Mounted \union requests)
Placed(f, j) == IF f[j].kind = "retain"
                  THEN CHOOSE n \in Frontier(f) : nodes[n].name = f[j].name
                  ELSE <<j, CHOOSE c \in Copies : FreeId(j, c) /\ \A d \in Copies :
                                                      FreeId(j, d) => c <= d>>
Staged(f) == {Placed(f, j) : j \in {i \in DOMAIN f : f[i].kind # "retain"}}

Patched(old, f) ==
    LET placed == [j \in DOMAIN f |-> Placed(f, j)]
        up(j) == IF j > 1 THEN placed[f[j].up] ELSE IF old = NoNode THEN NoNode ELSE nodes[old].up
        at(j) == IF j > 1 \/ old = NoNode THEN f[j].at ELSE nodes[old].at
        of(n) == CHOOSE j \in DOMAIN f : placed[j] = n
        staged == Staged(f)
    IN  [n \in (Mounted \ Removed(old, f)) \union staged |->
           IF n \in staged THEN [f[of(n)] EXCEPT !.up = up(of(n)), !.at = at(of(n))]
           ELSE IF n \in Frontier(f) THEN [nodes[n] EXCEPT !.up = up(of(n)), !.at = at(of(n))]
           ELSE nodes[n]]

\* What a patch is refused for: a retained root that is not inside the part
\* replaced, two dialogs, an instance that is mounted twice or has retired, and
\* a component that lives on in another structural scope.
RetainsInside(old, f) ==
    /\ \A j \in DOMAIN f : f[j].kind = "retain" =>
          \E n \in Frontier(f) : nodes[n].name = f[j].name
    /\ \A n \in Frontier(f) : /\ old \in Above(nodes)[n] \ {n}
                              /\ Above(nodes)[n] \intersect Frontier(f) = {n}

Lawful(tree, staged) ==
    /\ Cardinality(Of(tree, "dialog")) <= 1 /\ Cardinality(DOMAIN tree) <= MaxNodes
    /\ \A a, b \in Of(tree, "boundary") : tree[a].name = tree[b].name => a = b
    /\ LET identity == Identity(tree)
       IN  /\ \A a \in Of(tree, "boundary") :
                 LET mounted == {b \in Of(nodes, "boundary") : nodes[b].name = tree[a].name}
                 IN  /\ a \in staged /\ mounted = {} => tree[a].name > seenMax
                     /\ \A b \in mounted : Identity(nodes)[b] = identity[a]
           \* The abstraction of occurrence numbers.
           /\ \A a, b \in DOMAIN tree : identity[a] = identity[b] => a = b

\* Mutant: only what is known of popovers is carried.
CarriedPopovers(facts, removed) ==
    {Identity(nodes)[n] : n \in facts \intersect removed \intersect Of(nodes, "popover")}

\* carry_interaction: the identities of removed nodes with a fact about them,
\* while their ancestry is mounted.
Carried(facts, removed) == {Identity(nodes)[n] : n \in facts \intersect removed}

\* restore_interaction, for the facts of one kind: `able` are the staged nodes
\* that can have one.
Restored(facts, removed, able, tree) ==
    LET carried == Carried(facts, removed)
    IN  (facts \ removed)
        \union {n \in able : carried # {} /\ Identity(tree)[n] \in carried}

\* The same for what is kept with a value.
RestoredValue(values, removed, staged, tree) ==
    LET had == DOMAIN values \intersect removed
        carried(n) == {o \in had : Identity(nodes)[o] = Identity(tree)[n]}
    IN  [n \in (DOMAIN values \ removed) \union {s \in staged : carried(s) # {}} |->
           IF n \in staged THEN values[CHOOSE o \in carried(n) : TRUE] ELSE values[n]]

\* Mutant: every rebuild of a region asks again.
AsksAgain(removed, staged, tree) ==
    {n \in staged : tree[n].kind = "popover" /\ tree[n].serial # 0}

\* A staged region asks for focus unless its identity asked with that serial.
Asks(removed, staged, tree) ==
    LET asked(n) == {serials[o] : o \in {m \in DOMAIN serials \intersect removed :
                                            Identity(nodes)[m] = Identity(tree)[n]}}
    IN  {n \in staged : /\ tree[n].kind = "popover" /\ tree[n].serial # 0
                        /\ tree[n].serial \notin asked(n)}

\* Mutant: a dialog leaves what it hides as it was.
CoveredNothing(tree) == {}

\* retire_behind_dialog: what a dialog that has just become active hides.
Covered(tree) ==
    IF Of(tree, "dialog") = Dialog \/ Of(tree, "dialog") = {} THEN {}
    ELSE {n \in DOMAIN tree : Above(tree)[n] \intersect Of(tree, "dialog") = {}}

Patch(old, f) ==
    /\ IF old = NoNode THEN Mounted = {} ELSE old \in Mounted
    /\ RetainsInside(old, f)
    /\ \A j \in DOMAIN f : \E c \in Copies : FreeId(j, c)
    /\ \E removed \in {Removed(old, f)}, staged \in {Staged(f)}, tree \in {Patched(old, f)} :
       LET tracking == {n \in staged : Tracks(tree, n)}
           presenting == {n \in staged : Presents(tree, n)}
           kept(facts, able) == Restored(facts, removed, able, tree) \ Covered(tree)
           instances == {tree[n].name : n \in Of(tree, "boundary")}
           regions == {n \in staged : tree[n].kind = "popover" /\ tree[n].serial # 0}
       IN  /\ Lawful(tree, staged)
           /\ nodes' = tree
           /\ seenMax' = CHOOSE m \in instances \union {seenMax} :
                            \A i \in instances \union {seenMax} : i <= m
           /\ hovered' = kept(hovered, tracking)
           /\ open' = kept(open, presenting)
           /\ pending' = kept(pending, presenting)
           /\ within' = kept(within, presenting)
           /\ requests' = requests \union Asks(removed, staged, tree)
           /\ serials' = [n \in (DOMAIN serials \ removed) \union regions |->
                            IF n \in staged THEN tree[n].serial ELSE serials[n]]
           /\ sizes' = RestoredValue(sizes, removed, staged, tree)

-----------------------------------------------------------------------------
(* The pointer.                                                            *)

OpenPopover(p) == open' = open \union {p} /\ pending' = pending \ {p}
\* Mutant: a popover that is closed goes on waiting.
ClosePopoverWaiting(p) == open' = open \ {p} /\ UNCHANGED pending

ClosePopover(p) == open' = open \ {p} /\ pending' = pending \ {p}

\* popover_hover_edge.
PopoverEdge(n, entered) ==
    IF ~ Presents(nodes, n) THEN UNCHANGED <<open, pending>>
    ELSE IF entered
      THEN IF nodes[n].delay = 0 THEN OpenPopover(n)
           ELSE /\ pending' = IF n \in open THEN pending ELSE pending \union {n}
                /\ UNCHANGED open
      ELSE IF n \in within THEN pending' = pending \ {n} /\ UNCHANGED open
           ELSE ClosePopover(n)

\* hover_transition, where it changes anything.
Hover(n, entered) ==
    /\ n \in Mounted /\ ~ BehindDialog(n) /\ Tracks(nodes, n)
    /\ (n \in hovered) # entered
    /\ hovered' = IF entered THEN hovered \union {n} ELSE hovered \ {n}
    /\ PopoverEdge(n, entered)
    /\ UNCHANGED <<nodes, seenMax, within, serials, requests, sizes>>

\* popover_elapse: the delay is over.
Elapse(p) ==
    /\ p \in pending
    /\ IF p \in hovered THEN OpenPopover(p)
       ELSE pending' = pending \ {p} /\ UNCHANGED open
    /\ UNCHANGED <<nodes, seenMax, hovered, within, serials, requests, sizes>>

\* dismiss_popovers: Escape.
Dismiss ==
    /\ open \union pending \union within # {}
    /\ open' = {} /\ pending' = {} /\ within' = {}
    /\ UNCHANGED <<nodes, seenMax, hovered, serials, requests, sizes>>

-----------------------------------------------------------------------------
(* Keyboard focus.                                                         *)

\* popover_focus_if_live and popover_focus: the window's listeners, one popover
\* at a time.
PopoverFocus(p, in) ==
    /\ "window" \in Drivers
    /\ p \in Mounted /\ Presents(nodes, p) /\ (in => ~ BehindDialog(p))
    /\ IF in THEN within' = within \union {p} /\ OpenPopover(p)
       ELSE /\ within' = within \ {p}
            /\ IF p \in hovered THEN UNCHANGED <<open, pending>> ELSE ClosePopover(p)
    /\ UNCHANGED <<nodes, seenMax, hovered, serials, requests, sizes>>

\* popover_focus_moved: the semantic runner's, for all popovers at once.
FocusMoved(c) ==
    LET containing == {p \in Above(nodes)[c] : Presents(nodes, p)}
        closed == (within \ containing) \ hovered
        entered == containing \ within
    IN  /\ within' = containing
        /\ open' = (open \ closed) \union entered
        /\ pending' = pending \ (closed \union entered)

Focusable(n) == nodes[n].kind = "button"

Focus(c) ==
    /\ "runner" \in Drivers
    /\ c \in Mounted /\ Focusable(c) /\ IsPresented(c) /\ ~ BehindDialog(c)
    /\ FocusMoved(c)
    /\ UNCHANGED <<nodes, seenMax, hovered, serials, requests, sizes>>

\* take_focus_request: the last live region that asked, and its first control.
LiveRequests == {r \in requests \intersect Mounted : ~ BehindDialog(r) /\ IsPresented(r)}
Asked(r) == {n \in Mounted : /\ Focusable(n) /\ r \in Above(nodes)[n]
                             /\ \A p \in Above(nodes)[n] \ open :
                                  r \in Above(nodes)[p] => ~ InContent(nodes, n, p)
                                                           \/ nodes[p].kind # "popover"}
TakeFocus ==
    /\ requests # {} /\ requests' = {}
    /\ LET taking == UNION {Earliest(nodes, Asked(r)) : r \in Latest(nodes, LiveRequests)}
       IN  IF taking = {} THEN UNCHANGED popovers ELSE \E c \in taking : FocusMoved(c)
    /\ UNCHANGED <<nodes, seenMax, hovered, serials, sizes>>

\* report_canvas_size, where it delivers the size.
ReportSize(n, s) ==
    /\ n \in Mounted /\ nodes[n].kind = "canvas"
    /\ n \in DOMAIN sizes => sizes[n] # s
    /\ sizes' = [m \in DOMAIN sizes \union {n} |-> IF m = n THEN s ELSE sizes[m]]
    /\ UNCHANGED <<nodes, seenMax, hovered, popovers, serials, requests>>

-----------------------------------------------------------------------------

InteractionNext ==
    \/ \E old \in NodeId \union {NoNode}, f \in Fragments : Patch(old, f)
    \/ \E n \in NodeId : \/ \E b \in BOOLEAN : Hover(n, b) \/ PopoverFocus(n, b)
                         \/ Elapse(n) \/ Focus(n)
                         \/ \E s \in Sizes : ReportSize(n, s)
    \/ Dismiss \/ TakeFocus

InteractionSpec == InteractionInit /\ [][InteractionNext]_interactionVars

-----------------------------------------------------------------------------
(* Properties.                                                             *)

\* Whatever is rebuilt under the pointer or the focus, the facts agree with
\* the tree and with each other: they are about mounted nodes that can have
\* them, a popover waits only while the pointer rests on it, presents only
\* for the pointer or the focus, never both waits and presents, and one that
\* holds focus presents.
FactsAgree ==
    /\ hovered \subseteq {n \in Mounted : Tracks(nodes, n)}
    /\ open \union pending \union within \subseteq {n \in Mounted : Presents(nodes, n)}
    /\ DOMAIN sizes \subseteq Of(nodes, "canvas")
    /\ DOMAIN serials = {n \in Of(nodes, "popover") : nodes[n].serial # 0}
    /\ pending \subseteq hovered /\ pending \intersect open = {}
    /\ within \subseteq open /\ open \subseteq hovered \union within

\* Nothing behind an active dialog is hovered, waits or holds focus, and no
\* popover beside it presents, however the dialog came to be there.
DialogShields ==
    /\ \A n \in hovered \union pending : ~ BehindDialog(n)
    /\ \A n \in open \union within :
          BehindDialog(n) => \E d \in Dialog : n \in Above(nodes)[d]

\* A rebuild neither replays nor drops what a person is doing: exactly the
\* nodes whose identity had a fact have it afterwards, if they can and no new
\* dialog covers them, also those inside a retained component.
CarriedByIdentity ==
    [][nodes' # nodes /\ Mounted # {} =>
         LET covered == Covered(nodes')
             was == [o \in Mounted |-> Identity(nodes)[o]]
         IN  \A n \in Mounted' :
               LET same == {o \in Mounted : was[o] = Identity(nodes')[n]}
                   kept(facts, can) == can /\ n \notin covered /\ same \intersect facts # {}
               IN  /\ n \in hovered' <=> kept(hovered, Tracks(nodes', n))
                   /\ n \in open' <=> kept(open, Presents(nodes', n))
                   /\ n \in pending' <=> kept(pending, Presents(nodes', n))
                   /\ n \in within' <=> kept(within, Presents(nodes', n))
                   /\ n \in DOMAIN sizes' <=> same \intersect DOMAIN sizes # {}
                   /\ \A o \in same \intersect DOMAIN sizes : sizes'[n] = sizes[o]]_interactionVars

\* Only a new serial asks: a region asks for focus when it appears with a
\* serial or its serial changes, and never again however often it is rebuilt.
OnlyNewSerialAsks ==
    [][\A n \in Of(nodes', "popover") :
         LET asked == \E o \in Of(nodes, "popover") :
                         /\ Identity(nodes)[o] = Identity(nodes')[n]
                         /\ nodes[o].serial = nodes'[n].serial
         IN  nodes' # nodes =>
               (n \in requests' \ requests <=> nodes'[n].serial # 0 /\ ~ asked)]_interactionVars
=============================================================================

------------------------- MODULE InteractionProofs --------------------------
(***************************************************************************)
(* What holds of the facts about the mounted graph for every set of        *)
(* fragments, every bound and every order of patches and events.           *)
(*                                                                         *)
(* A mounted tree is ranked (Tree), which gives what Above and Identity    *)
(* are (AboveIs, IdentityIs) and the one argument used about them, from    *)
(* the parents down (TreeInduction).  A patch puts its nodes in new places *)
(* or on the components it retains (PlacedIs, PatchedIs) and leaves a tree *)
(* (PatchedTree), in which what survives keeps its identity, its content   *)
(* and the ancestors that survive too (SurvivorIdentity, SurvivorPresents, *)
(* SurvivorsAbove).  So who has a mounted node's identity afterwards is    *)
(* that node or replaces it (SuccessorsAre), and what the facts say        *)
(* follows node by node.                                                   *)
(***************************************************************************)
EXTENDS Interaction, SequenceTheorems, WellFoundedInduction, TLAPS

-----------------------------------------------------------------------------
(* Trees.                                                                  *)

IsNode(x) ==
    x \in [kind : Kinds, name : {x.name}, up : NodeId \union {NoNode},
           at : Nat, hover : BOOLEAN, delay : Nat, serial : Nat]

\* A node is ranked above those it is in, so no node is in itself.
Ranked(t, R) == \A n \in DOMAIN t : t[n].up # NoNode => R[t[n].up] < R[n]

Tree(t) ==
    /\ t = [n \in DOMAIN t |-> t[n]] /\ DOMAIN t \subseteq NodeId
    /\ \A n \in DOMAIN t : IsNode(t[n]) /\ t[n].up \in DOMAIN t \union {NoNode}
    /\ \E K \in Nat : \E R \in [DOMAIN t -> 0 .. K] : Ranked(t, R)

\* Some function has what base says at a root, and G of what its parent has at
\* any other node.
Defines(t, V, base, G) ==
    \E g \in [DOMAIN t -> V] : \A n \in DOMAIN t :
        g[n] = IF t[n].up = NoNode THEN base[n] ELSE G[<<n, g[t[n].up]>>]

\* A set of numbers has a least one.
LEMMA LeastNumber ==
    ASSUME NEW T \in SUBSET Nat, T # {}
    PROVE  \E m \in T : \A k \in T : m <= k
<1> DEFINE L == {ss \in Nat \X Nat : ss[1] < ss[2]}
<1>1. IsWellFoundedOn(L, Nat)
  BY NatLessThanWellFounded DEF OpToRel
<1>2. \E x \in T : \A y \in T : ~ (<<y, x>> \in L)
  <2> HIDE DEF L
  <2> QED
    BY <1>1, WFMin
<1>3. \A x, y \in Nat : ~ (<<y, x>> \in L) => x <= y
  OBVIOUS
<1> QED
  BY <1>2, <1>3

\* No node is NoNode: places of a fragment are numbered from 1.
LEMMA NoNodeId == NoNode \notin NodeId
<1>1. \A f \in Fragments : 0 \notin DOMAIN f
  BY InteractionAssumption
<1> QED
  BY <1>1 DEF NoNode, NodeId

\* What holds of a node when it holds of its parent holds of every node.
LEMMA TreeInduction ==
    ASSUME NEW t, Tree(t), NEW S,
           \A n \in DOMAIN t : (t[n].up = NoNode \/ t[n].up \in S) => n \in S
    PROVE  \A n \in DOMAIN t : n \in S
<1>1. PICK K \in Nat : \E R \in [DOMAIN t -> 0 .. K] : Ranked(t, R)
  BY DEF Tree
<1>2. PICK R \in [DOMAIN t -> 0 .. K] : Ranked(t, R)
  BY <1>1
<1> DEFINE B == {n \in DOMAIN t : n \notin S}
           T == {R[n] : n \in B}
<1>3. SUFFICES ASSUME B # {} PROVE FALSE
  OBVIOUS
<1>4. T \in SUBSET Nat /\ T # {}
  BY <1>3
<1>5. PICK m \in T : \A k \in T : m <= k
  <2> HIDE DEF T
  <2> QED
    BY <1>4, LeastNumber
<1>6. PICK n \in B : R[n] = m
  BY <1>5
<1>7. t[n].up # NoNode /\ t[n].up \notin S
  BY <1>6
<1>8. t[n].up \in DOMAIN t
  BY <1>6, <1>7 DEF Tree
<1>9. R[t[n].up] \in T /\ R[t[n].up] < R[n]
  BY <1>2, <1>6, <1>7, <1>8 DEF Ranked
<1>10. m <= R[t[n].up] /\ R[t[n].up] \in Nat /\ R[n] \in Nat
  BY <1>5, <1>6, <1>8, <1>9
<1> QED
  BY <1>6, <1>9, <1>10

\* A function may be defined on a tree from the parents down.
LEMMA TreeRecursion ==
    ASSUME NEW t, Tree(t), NEW V, NEW base \in [DOMAIN t -> V],
           NEW G \in [(DOMAIN t) \X V -> V]
    PROVE  Defines(t, V, base, G)
<1> DEFINE D == DOMAIN t
<1>1. PICK K \in Nat : \E R \in [D -> 0 .. K] : Ranked(t, R)
  BY DEF Tree
<1>2. PICK R \in [D -> 0 .. K] : Ranked(t, R)
  BY <1>1
<1> DEFINE Below(k) == {n \in D : R[n] < k}
           Fits(g, k) == \A n \in Below(k) :
               g[n] = IF t[n].up = NoNode THEN base[n] ELSE G[<<n, g[t[n].up]>>]
           T == {k \in Nat : ~ \E g \in [Below(k) -> V] : Fits(g, k)}
<1>3. T = {}
  <2>1. SUFFICES ASSUME T # {} PROVE FALSE
    OBVIOUS
  <2>2. T \in SUBSET Nat
    OBVIOUS
  <2>3. PICK m \in T : \A k \in T : m <= k
    <3> HIDE DEF T
    <3> QED
      BY <2>1, <2>2, LeastNumber
  <2>4. m \in Nat /\ ~ \E g \in [Below(m) -> V] : Fits(g, m)
    OBVIOUS
  <2>5. m # 0
    <3>1. Below(0) = {}
      OBVIOUS
    <3>2. <<>> \in [Below(0) -> V] /\ Fits(<<>>, 0)
      BY <3>1
    <3> QED
      BY <2>4, <3>2
  <2>6. m - 1 \in Nat /\ ~ (m <= m - 1)
    BY <2>4, <2>5
  <2>7. m - 1 \notin T
    BY <2>3, <2>6
  <2>8. PICK g \in [Below(m - 1) -> V] : Fits(g, m - 1)
    BY <2>6, <2>7
  <2> DEFINE h == [n \in Below(m) |->
                     IF n \in Below(m - 1) THEN g[n]
                     ELSE IF t[n].up = NoNode THEN base[n] ELSE G[<<n, g[t[n].up]>>]]
  <2>9. ASSUME NEW n \in Below(m), t[n].up # NoNode
        PROVE  t[n].up \in Below(m - 1) /\ t[n].up \in Below(m)
    <3>1. t[n].up \in D /\ R[t[n].up] < R[n]
      BY <1>2, <2>9 DEF Tree, Ranked
    <3> QED
      BY <2>4, <3>1
  <2>10. h \in [Below(m) -> V]
    <3>1. ASSUME NEW n \in Below(m) PROVE h[n] \in V
      BY <2>8, <2>9
    <3> QED
      BY <3>1
  <2>11. Fits(h, m)
    <3>1. ASSUME NEW n \in Below(m)
          PROVE  h[n] = IF t[n].up = NoNode THEN base[n] ELSE G[<<n, h[t[n].up]>>]
      <4>1. CASE t[n].up = NoNode
        <5>1. n \in Below(m - 1) => g[n] = base[n]
          BY <2>8, <4>1
        <5> QED
          BY <4>1, <5>1
      <4>2. CASE t[n].up # NoNode
        <5>1. h[t[n].up] = g[t[n].up]
          BY <2>9, <4>2
        <5>2. n \in Below(m - 1) => g[n] = G[<<n, g[t[n].up]>>]
          BY <2>8, <4>2
        <5> QED
          BY <4>2, <5>1, <5>2
      <4> QED
        BY <4>1, <4>2
    <3> QED
      BY <3>1
  <2> QED
    BY <2>4, <2>10, <2>11
<1>4. K + 1 \in Nat /\ Below(K + 1) = D
  <2>1. \A n \in D : R[n] \in 0 .. K
    BY <1>2
  <2>2. \A n \in D : R[n] < K + 1
    BY <1>1, <2>1
  <2>3. K + 1 \in Nat
    BY <1>1
  <2>4. Below(K + 1) = D
    BY <2>2
  <2> QED
    BY <2>3, <2>4
<1>5. \E g \in [Below(K + 1) -> V] : Fits(g, K + 1)
  BY <1>3, <1>4
<1> QED
  BY <1>4, <1>5 DEF Defines

\* Above is what its recursion says, and finds mounted nodes only.
LEMMA AboveIs ==
    ASSUME NEW t, Tree(t)
    PROVE  /\ \A n \in DOMAIN t :
                Above(t)[n] = {n} \union IF t[n].up = NoNode THEN {} ELSE Above(t)[t[n].up]
           /\ \A n \in DOMAIN t : Above(t)[n] \subseteq DOMAIN t
<1> DEFINE D == DOMAIN t
           V == SUBSET DOMAIN t
           step(f, n) == {n} \union IF t[n].up = NoNode THEN {} ELSE f[t[n].up]
           walk(f) == f = [n \in D |-> step(f, n)]
           above == CHOOSE f : walk(f)
           base == [n \in DOMAIN t |-> {n}]
           G == [x \in (DOMAIN t) \X V |-> {x[1]} \union x[2]]
<1>1. base \in [DOMAIN t -> V] /\ G \in [(DOMAIN t) \X V -> V]
  OBVIOUS
<1>2. Defines(t, V, base, G)
  <2> HIDE DEF base, G, V
  <2> QED
    BY <1>1, TreeRecursion
<1>2a. PICK g \in [D -> V] : \A n \in D :
          g[n] = IF t[n].up = NoNode THEN base[n] ELSE G[<<n, g[t[n].up]>>]
  BY <1>2 DEF Defines
<1>3. \A n \in D : t[n].up # NoNode => t[n].up \in D
  BY DEF Tree
<1>4. \A n \in D : g[n] = step(g, n)
  <2>1. ASSUME NEW n \in D PROVE g[n] = step(g, n)
    <3>1. CASE t[n].up = NoNode
      BY <1>2a, <3>1
    <3>2. CASE t[n].up # NoNode
      <4>1. <<n, g[t[n].up]>> \in D \X V
        BY <1>2a, <1>3, <3>2
      <4> QED
        BY <1>2a, <3>2, <4>1
    <3> QED
      BY <3>1, <3>2
  <2> QED
    BY <2>1
<1>5. walk(g)
  BY <1>2a, <1>4
<1>6. walk(above)
  BY <1>5
<1>7. Above(t) = above
  BY DEF Above
<1> HIDE DEF above
<1>8. \A n \in D : above[n] = step(above, n)
  BY <1>6
<1> DEFINE S == {n \in D : above[n] \subseteq D}
<1>9. \A n \in D : (t[n].up = NoNode \/ t[n].up \in S) => n \in S
  BY <1>8
<1>10. \A n \in D : n \in S
  <2> HIDE DEF S
  <2> QED
    BY <1>9, TreeInduction
<1> QED
  BY <1>7, <1>8, <1>10

KeyOf(x) == <<x.kind, x.name>>

\* Identity is what its recursion says: a path of keys, never empty.
LEMMA IdentityIs ==
    ASSUME NEW t, Tree(t)
    PROVE  /\ \A n \in DOMAIN t :
                Identity(t)[n] = IF t[n].up = NoNode THEN <<KeyOf(t[n])>>
                                 ELSE Append(Identity(t)[t[n].up], KeyOf(t[n]))
           /\ Identity(t) \in [DOMAIN t -> Seq({KeyOf(t[n]) : n \in DOMAIN t})]
<1> DEFINE D == DOMAIN t
           W == {KeyOf(t[n]) : n \in DOMAIN t}
           V == Seq(W)
           step(f, n) == IF t[n].up = NoNode THEN <<KeyOf(t[n])>>
                         ELSE Append(f[t[n].up], KeyOf(t[n]))
           walk(f) == f = [n \in D |-> step(f, n)]
           path == CHOOSE f : walk(f)
           base == [n \in DOMAIN t |-> <<KeyOf(t[n])>>]
           G == [x \in (DOMAIN t) \X V |-> Append(x[2], KeyOf(t[x[1]]))]
<1>1. base \in [DOMAIN t -> V] /\ G \in [(DOMAIN t) \X V -> V]
  <2>1. \A n \in D : KeyOf(t[n]) \in W
    OBVIOUS
  <2> HIDE DEF W
  <2>2. \A n \in D : <<KeyOf(t[n])>> \in V
    BY <2>1
  <2>3. \A n \in D : \A s \in V : Append(s, KeyOf(t[n])) \in V
    BY <2>1
  <2> HIDE DEF V
  <2>4. base \in [DOMAIN t -> V]
    BY <2>2
  <2>5. G \in [(DOMAIN t) \X V -> V]
    BY <2>3
  <2> QED
    BY <2>4, <2>5
<1>2. Defines(t, V, base, G)
  <2> HIDE DEF base, G, V
  <2> QED
    BY <1>1, TreeRecursion
<1>3. PICK g \in [D -> V] : \A n \in D :
          g[n] = IF t[n].up = NoNode THEN base[n] ELSE G[<<n, g[t[n].up]>>]
  BY <1>2 DEF Defines
<1>4. \A n \in D : t[n].up # NoNode => t[n].up \in D
  BY DEF Tree
<1>5. \A n \in D : g[n] = step(g, n)
  <2>1. ASSUME NEW n \in D PROVE g[n] = step(g, n)
    <3> HIDE DEF V
    <3>1. CASE t[n].up = NoNode
      BY <1>3, <3>1
    <3>2. CASE t[n].up # NoNode
      <4>1. <<n, g[t[n].up]>> \in D \X V
        BY <1>3, <1>4, <3>2
      <4> QED
        BY <1>3, <3>2, <4>1
    <3> QED
      BY <3>1, <3>2
  <2> QED
    BY <2>1
<1>6. walk(g)
  <2> HIDE DEF V
  <2> QED
    BY <1>3, <1>5
<1>7. walk(path)
  BY <1>6
<1>8. Identity(t) = path
  BY DEF Identity, KeyOf
<1> HIDE DEF path
<1>9. path = [n \in D |-> step(path, n)]
  BY <1>7
<1>10. \A n \in D : path[n] = step(path, n)
  BY <1>9
<1> DEFINE S == {n \in D : path[n] \in V}
<1>11. \A n \in D : (t[n].up = NoNode \/ t[n].up \in S) => n \in S
  <2>1. \A n \in D : KeyOf(t[n]) \in W
    OBVIOUS
  <2> HIDE DEF W
  <2>2. \A n \in D : <<KeyOf(t[n])>> \in V
    BY <2>1
  <2>3. \A n \in D : \A s \in V : Append(s, KeyOf(t[n])) \in V
    BY <2>1
  <2> HIDE DEF V
  <2> QED
    BY <1>10, <2>2, <2>3
<1>12. \A n \in D : n \in S
  <2> HIDE DEF S
  <2> QED
    BY <1>11, TreeInduction
<1>13. path \in [D -> V]
  <2> HIDE DEF V
  <2> QED
    BY <1>9, <1>12
<1> QED
  BY <1>8, <1>10, <1>13

\* No path is empty.
LEMMA NotEmptyPath ==
    ASSUME NEW t, Tree(t), NEW n \in DOMAIN t
    PROVE  Identity(t)[n] # << >>
<1> DEFINE W == {KeyOf(t[m]) : m \in DOMAIN t}
<1>1. /\ Identity(t)[n] = IF t[n].up = NoNode THEN <<KeyOf(t[n])>>
                          ELSE Append(Identity(t)[t[n].up], KeyOf(t[n]))
      /\ t[n].up # NoNode => Identity(t)[t[n].up] \in Seq(W)
  BY IdentityIs DEF Tree
<1>2. KeyOf(t[n]) \in W
  OBVIOUS
<1> HIDE DEF W
<1>3. \A s \in Seq(W), k \in W : Append(s, k) # << >> /\ <<k>> # << >>
  OBVIOUS
<1> QED
  BY <1>1, <1>2, <1>3

\* An element's own key is the last of its path, and the rest are its parent's.
SameKeys(t, u, a, b) == Identity(t)[a] = Identity(u)[b]

LEMMA SameStep ==
    ASSUME NEW t, Tree(t), NEW u, Tree(u), NEW a \in DOMAIN t, NEW b \in DOMAIN u,
           SameKeys(t, u, a, b)
    PROVE  /\ t[a].kind = u[b].kind /\ t[a].name = u[b].name
           /\ t[a].up = NoNode <=> u[b].up = NoNode
           /\ t[a].up # NoNode => SameKeys(t, u, t[a].up, u[b].up)
<1> DEFINE W == {KeyOf(t[n]) : n \in DOMAIN t}
           X == {KeyOf(u[n]) : n \in DOMAIN u}
           Y == W \union X
<1>0. Y = W \union X
  OBVIOUS
<1>1. /\ Identity(t)[a] = IF t[a].up = NoNode THEN <<KeyOf(t[a])>>
                          ELSE Append(Identity(t)[t[a].up], KeyOf(t[a]))
      /\ t[a].up # NoNode => Identity(t)[t[a].up] \in Seq(W)
  BY IdentityIs DEF Tree
<1>2. /\ Identity(u)[b] = IF u[b].up = NoNode THEN <<KeyOf(u[b])>>
                          ELSE Append(Identity(u)[u[b].up], KeyOf(u[b]))
      /\ u[b].up # NoNode => Identity(u)[u[b].up] \in Seq(X)
  BY IdentityIs DEF Tree
<1>4. KeyOf(t[a]) \in Y /\ KeyOf(u[b]) \in Y
  OBVIOUS
<1> HIDE DEF W, X, Y
<1>5. /\ t[a].up # NoNode => Identity(t)[t[a].up] \in Seq(Y)
      /\ u[b].up # NoNode => Identity(u)[u[b].up] \in Seq(Y)
  BY <1>0, <1>1, <1>2
<1>3. /\ t[a].up # NoNode => Identity(t)[t[a].up] # << >>
      /\ u[b].up # NoNode => Identity(u)[u[b].up] # << >>
  BY NotEmptyPath DEF Tree
<1> DEFINE Add(s, k) == Append(s, k)
           One(k) == <<k>>
           None == << >>
           p == Identity(t)[t[a].up]
           q == Identity(u)[u[b].up]
           k == KeyOf(t[a])
           l == KeyOf(u[b])
<1>6. /\ One(k) = One(l) => k = l
      /\ p \in Seq(Y) /\ One(l) = Add(p, k) => p = None
      /\ q \in Seq(Y) /\ One(k) = Add(q, l) => q = None
      /\ p \in Seq(Y) /\ q \in Seq(Y) /\ Add(p, k) = Add(q, l) => p = q /\ k = l
  <2> HIDE DEF p, q, k, l
  <2>1. One(k) = One(l) => k = l
    OBVIOUS
  <2>2. k \in Y /\ l \in Y
    BY <1>4 DEF k, l
  <2>3. ASSUME p \in Seq(Y), One(l) = Add(p, k) PROVE p = None
    BY <2>2, <2>3
  <2>4. ASSUME q \in Seq(Y), One(k) = Add(q, l) PROVE q = None
    BY <2>2, <2>4
  <2>5. ASSUME p \in Seq(Y), q \in Seq(Y), Add(p, k) = Add(q, l) PROVE p = q /\ k = l
    BY <2>2, <2>5
  <2> QED
    BY <2>1, <2>3, <2>4, <2>5
<1>8. /\ Identity(t)[a] = IF t[a].up = NoNode THEN One(k) ELSE Add(p, k)
      /\ Identity(u)[b] = IF u[b].up = NoNode THEN One(l) ELSE Add(q, l)
      /\ t[a].up # NoNode => p \in Seq(Y) /\ p # None
      /\ u[b].up # NoNode => q \in Seq(Y) /\ q # None
  BY <1>1, <1>2, <1>3, <1>5
<1>9. SameKeys(t, u, t[a].up, u[b].up) <=> p = q
  BY DEF SameKeys
<1>10. Identity(t)[a] = Identity(u)[b]
  BY DEF SameKeys
<1>7. KeyOf(t[a]) = KeyOf(u[b]) /\ (t[a].up = NoNode <=> u[b].up = NoNode)
      /\ (t[a].up # NoNode => SameKeys(t, u, t[a].up, u[b].up))
  <2>1. k = l /\ (t[a].up = NoNode <=> u[b].up = NoNode)
        /\ (t[a].up # NoNode => p = q)
    <3> HIDE DEF Add, One, None, p, q, k, l
    <3> QED
      BY <1>6, <1>8, <1>10
  <2> QED
    BY <1>9, <2>1
<1> QED
  BY <1>7 DEF KeyOf

\* Nodes with one identity have ancestors with one identity.
LEMMA SamePath ==
    ASSUME NEW t, Tree(t), NEW u, Tree(u)
    PROVE  \A a \in DOMAIN t : \A b \in DOMAIN u : SameKeys(t, u, a, b) =>
              \A o \in Above(t)[a] : \E m \in Above(u)[b] : SameKeys(t, u, o, m)
<1> DEFINE Found(a) == \A b \in DOMAIN u : SameKeys(t, u, a, b) =>
              \A o \in Above(t)[a] : \E m \in Above(u)[b] : SameKeys(t, u, o, m)
           S == {a \in DOMAIN t : Found(a)}
<1>1. ASSUME NEW a \in DOMAIN t, t[a].up = NoNode \/ t[a].up \in S
      PROVE  a \in S
  <2>1. ASSUME NEW b \in DOMAIN u, SameKeys(t, u, a, b), NEW o \in Above(t)[a]
        PROVE  \E m \in Above(u)[b] : SameKeys(t, u, o, m)
    <3>1. /\ t[a].up = NoNode <=> u[b].up = NoNode
          /\ t[a].up # NoNode => SameKeys(t, u, t[a].up, u[b].up)
      BY <2>1, SameStep
    <3>2. Above(u)[b] = {b} \union IF u[b].up = NoNode THEN {} ELSE Above(u)[u[b].up]
      BY AboveIs
    <3>3. Above(t)[a] = {a} \union IF t[a].up = NoNode THEN {} ELSE Above(t)[t[a].up]
      BY AboveIs
    <3>4. CASE o = a
      BY <2>1, <3>2, <3>4
    <3>5. CASE o # a
      <4>1. t[a].up # NoNode /\ o \in Above(t)[t[a].up] /\ t[a].up \in S
        BY <1>1, <3>3, <3>5
      <4>2. u[b].up # NoNode /\ u[b].up \in DOMAIN u
        BY <3>1, <4>1 DEF Tree
      <4>3. \E m \in Above(u)[u[b].up] : SameKeys(t, u, o, m)
        BY <3>1, <4>1, <4>2
      <4> QED
        BY <3>2, <4>2, <4>3
    <3> QED
      BY <3>4, <3>5
  <2> QED
    BY <2>1
<1>2. \A a \in DOMAIN t : a \in S
  <2> HIDE DEF S
  <2> QED
    BY <1>1, TreeInduction
<1> QED
  BY <1>2

\* Above is a partial order, and a node's ancestors are in a line.
LEMMA AboveOrder ==
    ASSUME NEW t, Tree(t)
    PROVE  /\ \A n \in DOMAIN t : n \in Above(t)[n]
           /\ \A n \in DOMAIN t : \A a \in Above(t)[n] :
                 /\ a \in DOMAIN t /\ Above(t)[a] \subseteq Above(t)[n]
                 /\ a # n => n \notin Above(t)[a]
                 /\ \A b \in Above(t)[n] : a \in Above(t)[b] \/ b \in Above(t)[a]
<1>1. \A n \in DOMAIN t :
          Above(t)[n] = {n} \union IF t[n].up = NoNode THEN {} ELSE Above(t)[t[n].up]
  BY AboveIs
<1>2. \A n \in DOMAIN t : Above(t)[n] \subseteq DOMAIN t
  BY AboveIs
<1>3. PICK K \in Nat : \E R \in [DOMAIN t -> 0 .. K] : Ranked(t, R)
  BY DEF Tree
<1>4. PICK R \in [DOMAIN t -> 0 .. K] : Ranked(t, R)
  BY <1>3
<1>5. \A n \in DOMAIN t : R[n] \in Nat /\ (t[n].up # NoNode => t[n].up \in DOMAIN t)
  BY <1>4 DEF Tree
<1> DEFINE Good(n) == \A a \in Above(t)[n] :
                        /\ Above(t)[a] \subseteq Above(t)[n]
                        /\ a # n => R[a] < R[n]
                        /\ \A b \in Above(t)[n] : a \in Above(t)[b] \/ b \in Above(t)[a]
           S == {n \in DOMAIN t : Good(n)}
<1>6. ASSUME NEW n \in DOMAIN t, t[n].up = NoNode \/ t[n].up \in S
      PROVE  n \in S
  <2>1. CASE t[n].up = NoNode
    <3>1. Above(t)[n] = {n}
      BY <1>1, <2>1
    <3> QED
      BY <3>1
  <2>2. CASE t[n].up # NoNode
    <3> DEFINE p == t[n].up
    <3>1. Above(t)[n] = {n} \union Above(t)[p]
      BY <1>1, <2>2
    <3>2. p \in DOMAIN t /\ Good(p) /\ R[p] < R[n] /\ R[n] \in Nat /\ R[p] \in Nat
      BY <1>4, <1>5, <1>6, <2>2 DEF Ranked
    <3>3. \A a \in Above(t)[p] : R[a] \in Nat
      BY <1>2, <1>5, <3>2
    <3> HIDE DEF p
    <3>4. ASSUME NEW a \in Above(t)[n]
          PROVE  /\ Above(t)[a] \subseteq Above(t)[n]
                 /\ a # n => R[a] < R[n]
                 /\ \A b \in Above(t)[n] : a \in Above(t)[b] \/ b \in Above(t)[a]
      <4>1. a = n \/ a \in Above(t)[p]
        BY <3>1
      <4>2. Above(t)[a] \subseteq Above(t)[n]
        BY <3>1, <3>2, <4>1
      <4>3. a # n => R[a] < R[n]
        BY <3>2, <3>3, <4>1
      <4>4. \A b \in Above(t)[n] : a \in Above(t)[b] \/ b \in Above(t)[a]
        BY <3>1, <3>2, <4>1
      <4> QED
        BY <4>2, <4>3, <4>4
    <3> QED
      BY <3>4
  <2> QED
    BY <2>1, <2>2
<1>7. \A n \in DOMAIN t : n \in S
  <2> HIDE DEF S
  <2> QED
    BY <1>6, TreeInduction
<1>8. \A n \in DOMAIN t : n \in Above(t)[n]
  BY <1>1
<1>9. ASSUME NEW n \in DOMAIN t, NEW a \in Above(t)[n], a # n
      PROVE  n \notin Above(t)[a]
  <2>1. a \in DOMAIN t /\ R[a] < R[n] /\ R[a] \in Nat /\ R[n] \in Nat
    BY <1>2, <1>5, <1>7, <1>9
  <2>2. n \in Above(t)[a] => R[n] < R[a]
    BY <1>7, <1>9, <2>1
  <2> QED
    BY <2>1, <2>2
<1> QED
  BY <1>2, <1>7, <1>8, <1>9

\* No node is its own parent.
LEMMA UpDiffers ==
    ASSUME NEW t, Tree(t), NEW n \in DOMAIN t, t[n].up # NoNode
    PROVE  t[n].up # n
<1>1. PICK K \in Nat : \E R \in [DOMAIN t -> 0 .. K] : Ranked(t, R)
  BY DEF Tree
<1>2. PICK R \in [DOMAIN t -> 0 .. K] : Ranked(t, R)
  BY <1>1
<1>3. R[n] \in 0 .. K /\ R[t[n].up] < R[n]
  BY <1>2 DEF Ranked
<1> QED
  BY <1>1, <1>3

-----------------------------------------------------------------------------
(* What a patch does to the tree.                                          *)

\* No two mounted components have one instance.
NamesDiffer == \A a, b \in Of(nodes, "boundary") : nodes[a].name = nodes[b].name => a = b

\* What a patch has to find before it is asked for the tree it makes.
Accepted(old, f) ==
    /\ f \in Fragments
    /\ IF old = NoNode THEN Mounted = {} ELSE old \in Mounted
    /\ RetainsInside(old, f)
    /\ \A j \in DOMAIN f : \E c \in Copies : FreeId(j, c)

Root(old) == IF old = NoNode THEN NoNode ELSE nodes[old].up
Surviving(old, f) == Mounted \ Removed(old, f)
Retained(f, j) == f[j].kind = "retain"

\* Each node of the fragment has a place of its own: a fresh id, or the mounted
\* component it retains.
PlacedWell(f) ==
    /\ DOMAIN f = 1 .. Len(f) /\ Len(f) \in Nat \ {0}
    /\ \A j \in 1 .. Len(f) :
          IF Retained(f, j)
            THEN Placed(f, j) \in Frontier(f) /\ nodes[Placed(f, j)].name = f[j].name
            ELSE Placed(f, j) \in NodeId \ (Mounted \union requests) /\ Placed(f, j)[1] = j
    /\ \A i, j \in 1 .. Len(f) : Placed(f, i) = Placed(f, j) => i = j
    /\ \A n \in Frontier(f) : \E j \in 1 .. Len(f) : Retained(f, j) /\ Placed(f, j) = n
    /\ Staged(f) = {Placed(f, j) : j \in {i \in 1 .. Len(f) : ~ Retained(f, i)}}

LEMMA PlacedIs ==
    ASSUME NEW old, NEW f, Accepted(old, f), NamesDiffer
    PROVE  PlacedWell(f)
<1>1. DOMAIN f = 1 .. Len(f) /\ Len(f) \in Nat \ {0}
  BY InteractionAssumption DEF Accepted
<1>2. \A n \in Frontier(f) : n \in Of(nodes, "boundary")
  BY DEF Frontier
<1>3. ASSUME NEW j \in 1 .. Len(f), Retained(f, j)
      PROVE  Placed(f, j) \in Frontier(f) /\ nodes[Placed(f, j)].name = f[j].name
  <2>1. \E n \in Frontier(f) : nodes[n].name = f[j].name
    BY <1>1, <1>3 DEF Accepted, RetainsInside, Retained
  <2>2. Placed(f, j) = CHOOSE n \in Frontier(f) : nodes[n].name = f[j].name
    BY <1>3 DEF Placed, Retained
  <2> QED
    BY <2>1, <2>2
<1>4. ASSUME NEW j \in 1 .. Len(f), ~ Retained(f, j)
      PROVE  /\ Placed(f, j) \in NodeId \ (Mounted \union requests)
             /\ Placed(f, j)[1] = j
  <2> DEFINE Free == {c \in Copies : FreeId(j, c)}
  <2>1. Free \in SUBSET Nat /\ Free # {}
    BY <1>1, InteractionAssumption DEF Accepted
  <2>2. \E c \in Free : \A d \in Free : c <= d
    <3> HIDE DEF Free
    <3> QED
      BY <2>1, LeastNumber
  <2> DEFINE c == CHOOSE c \in Copies : FreeId(j, c) /\ \A d \in Copies :
                                                     FreeId(j, d) => c <= d
  <2>3. c \in Copies /\ FreeId(j, c)
    BY <2>2
  <2>4. Placed(f, j) = <<j, c>>
    BY <1>4 DEF Placed, Retained
  <2> HIDE DEF c
  <2> QED
    BY <2>3, <2>4 DEF FreeId
<1>5. Frontier(f) \subseteq Mounted
  BY DEF Frontier, Of, Mounted
<1>6. ASSUME NEW i \in 1 .. Len(f), NEW j \in 1 .. Len(f), Placed(f, i) = Placed(f, j)
      PROVE  i = j
  <2>1. CASE Retained(f, i) /\ Retained(f, j)
    <3>1. f[i].name = f[j].name
      BY <1>3, <1>6, <2>1
    <3> QED
      BY <2>1, <3>1, InteractionAssumption DEF Retained, Accepted
  <2>2. CASE ~ Retained(f, i) /\ ~ Retained(f, j)
    BY <1>4, <1>6, <2>2
  <2>3. CASE Retained(f, i) # Retained(f, j)
    <3>1. Retained(f, i) => Placed(f, i) \in Mounted /\ Placed(f, j) \notin Mounted
      BY <1>3, <1>4, <1>5, <2>3 DEF Retained
    <3>2. ~ Retained(f, i) => Placed(f, j) \in Mounted /\ Placed(f, i) \notin Mounted
      BY <1>3, <1>4, <1>5, <2>3 DEF Retained
    <3> QED
      BY <1>6, <3>1, <3>2
  <2> QED
    BY <2>1, <2>2, <2>3 DEF Retained
<1>7. ASSUME NEW n \in Frontier(f)
      PROVE  \E j \in 1 .. Len(f) : Retained(f, j) /\ Placed(f, j) = n
  <2>1. PICK j \in 1 .. Len(f) : Retained(f, j) /\ f[j].name = nodes[n].name
    BY <1>1 DEF Frontier, Retained
  <2>2. Placed(f, j) \in Frontier(f) /\ nodes[Placed(f, j)].name = nodes[n].name
    BY <1>3, <2>1
  <2>3. Placed(f, j) = n
    BY <1>2, <2>2 DEF NamesDiffer
  <2> QED
    BY <2>1, <2>3
<1>8. Staged(f) = {Placed(f, j) : j \in {i \in 1 .. Len(f) : ~ Retained(f, i)}}
  BY <1>1 DEF Staged, Retained
<1> QED
  BY <1>1, <1>3, <1>4, <1>6, <1>7, <1>8 DEF PlacedWell

\* A node keeps everything but its place when it is given another.
SameNode(x, y) == /\ x.kind = y.kind /\ x.name = y.name /\ x.hover = y.hover
                  /\ x.delay = y.delay /\ x.serial = y.serial

WillRewire(U, x, u, a, y) ==
    /\ x.kind \in Kinds
    /\ x \in [kind : Kinds \union {"retain"}, name : {x.name}, up : U,
              at : Nat, hover : BOOLEAN, delay : Nat, serial : Nat]
    /\ u \in NodeId \union {NoNode} /\ a \in Nat /\ y = [x EXCEPT !.up = u, !.at = a]

LEMMA Rewired ==
    ASSUME NEW U, NEW x, NEW u, NEW a, NEW y, WillRewire(U, x, u, a, y)
    PROVE  IsNode(y) /\ y.up = u /\ y.at = a /\ SameNode(y, x)
<1> USE DEF WillRewire
<1>1. y.up = u /\ y.at = a /\ SameNode(y, x)
  BY DEF SameNode
<1>2. y \in [kind : Kinds, name : {x.name}, up : NodeId \union {NoNode},
             at : Nat, hover : BOOLEAN, delay : Nat, serial : Nat]
  OBVIOUS
<1> QED
  BY <1>1, <1>2 DEF IsNode, SameNode

\* The tree a patch leaves.
PatchShape(old, f, tree) ==
    /\ DOMAIN tree = Surviving(old, f) \union Staged(f)
    /\ tree = [n \in DOMAIN tree |-> tree[n]]
    /\ Frontier(f) \subseteq Surviving(old, f)
    /\ \A j \in 1 .. Len(f) :
          /\ Placed(f, j) \in DOMAIN tree /\ IsNode(tree[Placed(f, j)])
          /\ SameNode(tree[Placed(f, j)], IF Retained(f, j) THEN nodes[Placed(f, j)] ELSE f[j])
          /\ tree[Placed(f, j)].up = IF j > 1 THEN Placed(f, f[j].up) ELSE Root(old)
          /\ tree[Placed(f, j)].at = IF j > 1 \/ old = NoNode THEN f[j].at ELSE nodes[old].at
          /\ j > 1 => f[j].up \in 1 .. Len(f) /\ f[j].up < j /\ ~ Retained(f, f[j].up)
    /\ \A n \in Surviving(old, f) \ Frontier(f) : tree[n] = nodes[n]

LEMMA PatchedIs ==
    ASSUME NEW old, NEW f, Accepted(old, f), Tree(nodes), NamesDiffer
    PROVE  PatchShape(old, f, Patched(old, f))
<1> DEFINE P(j) == Placed(f, j)
           placed == [j \in DOMAIN f |-> P(j)]
           up(j) == IF j > 1 THEN placed[f[j].up]
                    ELSE IF old = NoNode THEN NoNode ELSE nodes[old].up
           at(j) == IF j > 1 \/ old = NoNode THEN f[j].at ELSE nodes[old].at
           of(n) == CHOOSE j \in DOMAIN f : placed[j] = n
           tree == [n \in (Mounted \ Removed(old, f)) \union Staged(f) |->
                      IF n \in Staged(f)
                        THEN [f[of(n)] EXCEPT !.up = up(of(n)), !.at = at(of(n))]
                      ELSE IF n \in Frontier(f)
                        THEN [nodes[n] EXCEPT !.up = up(of(n)), !.at = at(of(n))]
                      ELSE nodes[n]]
<1>1. PlacedWell(f)
  BY PlacedIs
<1>2. DOMAIN f = 1 .. Len(f) /\ Len(f) \in Nat \ {0}
  BY <1>1 DEF PlacedWell
<1>3. \A j \in 1 .. Len(f) :
          /\ f[j] \in [kind : Kinds \union {"retain"}, name : {f[j].name}, up : 0 .. (j - 1),
                       at : Nat, hover : BOOLEAN, delay : Nat, serial : Nat]
          /\ j > 1 => f[j].up > 0 /\ ~ Retained(f, f[j].up)
  BY InteractionAssumption DEF Accepted, Retained
<1>4. \A j \in 1 .. Len(f) :
          /\ f[j].at \in Nat /\ f[j].kind \in Kinds \union {"retain"} /\ f[j].up \in 0 .. (j - 1)
  BY <1>3
<1>5. ASSUME NEW j \in 1 .. Len(f), j > 1
      PROVE  f[j].up \in 1 .. Len(f) /\ f[j].up < j /\ ~ Retained(f, f[j].up)
  <2>1. f[j].up \in 0 .. (j - 1) /\ f[j].up > 0 /\ ~ Retained(f, f[j].up)
    BY <1>3, <1>4, <1>5
  <2>2. j \in Nat /\ Len(f) \in Nat /\ j <= Len(f)
    BY <1>2
  <2> DEFINE m == f[j].up
  <2> HIDE DEF m
  <2>3. m \in 0 .. (j - 1) /\ m > 0
    BY <2>1 DEF m
  <2>4. m \in 1 .. Len(f) /\ m < j
    BY <2>2, <2>3
  <2> QED
    BY <2>1, <2>4 DEF m
<1>6. Patched(old, f) = tree
  BY DEF Patched, Surviving, Root
<1>7. Frontier(f) \subseteq Surviving(old, f)
  <2>1. \A n \in Frontier(f) : n \in Mounted /\ n \in Above(nodes)[n]
    BY AboveOrder DEF Frontier, Of, Mounted
  <2> QED
    BY <2>1 DEF Surviving, Removed
<1>8. \A j \in 1 .. Len(f) : P(j) \in NodeId /\ P(j) \in DOMAIN tree
  <2>1. ASSUME NEW j \in 1 .. Len(f) PROVE P(j) \in NodeId /\ P(j) \in DOMAIN tree
    <3>1. CASE Retained(f, j)
      <4>1. P(j) \in Frontier(f)
        BY <1>1, <3>1 DEF PlacedWell
      <4> QED
        BY <1>7, <4>1 DEF Surviving, Tree, Mounted
    <3>2. CASE ~ Retained(f, j)
      <4>1. P(j) \in NodeId /\ P(j) \in Staged(f)
        BY <1>1, <3>2 DEF PlacedWell
      <4> QED
        BY <4>1
    <3> QED
      BY <3>1, <3>2
  <2> QED
    BY <2>1
<1>9. \A n \in Mounted : IsNode(nodes[n]) /\ n \in NodeId
  BY DEF Tree, Mounted
<1>10. \A j \in 1 .. Len(f) : of(P(j)) = j
  <2>1. \A i, j \in 1 .. Len(f) : P(i) = P(j) => i = j
    BY <1>1 DEF PlacedWell
  <2> HIDE DEF P
  <2> QED
    BY <1>2, <2>1
<1>11. old # NoNode => nodes[old].up \in NodeId \union {NoNode} /\ nodes[old].at \in Nat
  BY <1>9 DEF Accepted, IsNode
<1>12. ASSUME NEW j \in 1 .. Len(f)
       PROVE  up(j) \in NodeId \union {NoNode} /\ at(j) \in Nat
  <2>1. j > 1 => P(f[j].up) \in NodeId
    BY <1>5, <1>8
  <2>2. Root(old) \in NodeId \union {NoNode}
    BY <1>11 DEF Root
  <2>3. f[j].at \in Nat
    BY <1>4
  <2>4. up(j) = IF j > 1 THEN P(f[j].up) ELSE Root(old)
    BY <1>2, <1>5 DEF Root
  <2> HIDE DEF P, up
  <2> QED
    BY <1>11, <2>1, <2>2, <2>3, <2>4
<1> DEFINE Right(j) ==
          /\ IsNode(tree[P(j)])
          /\ SameNode(tree[P(j)], IF Retained(f, j) THEN nodes[P(j)] ELSE f[j])
          /\ tree[P(j)].up = up(j) /\ tree[P(j)].at = at(j)
<1>12a. \A j \in 1 .. Len(f) : up(j) = IF j > 1 THEN P(f[j].up) ELSE Root(old)
  BY <1>2, <1>5 DEF Root
<1>13. ASSUME NEW j \in 1 .. Len(f) PROVE Right(j)
  <2>1. CASE Retained(f, j)
    <3>1. P(j) \in Frontier(f) /\ P(j) \notin Staged(f) /\ P(j) \in Mounted
      <4>1. P(j) \in Frontier(f) /\ P(j) \in Mounted
        BY <1>1, <1>7, <2>1 DEF PlacedWell, Surviving
      <4>2. \A n \in Staged(f) : n \notin Mounted
        BY <1>1 DEF PlacedWell
      <4> QED
        BY <4>1, <4>2
    <3>2. tree[P(j)] = [nodes[P(j)] EXCEPT !.up = up(j), !.at = at(j)]
      <4> HIDE DEF P, up, at, of
      <4> QED
        BY <1>8, <1>10, <3>1
    <3>3. IsNode(nodes[P(j)])
      BY <1>9, <3>1
    <3> DEFINE x == nodes[P(j)]
               u == up(j)
               a == at(j)
               y == tree[P(j)]
    <3>4. /\ x.kind \in Kinds
          /\ x \in [kind : Kinds \union {"retain"}, name : {x.name},
                    up : NodeId \union {NoNode},
                    at : Nat, hover : BOOLEAN, delay : Nat, serial : Nat]
      <4> HIDE DEF x
      <4>1. IsNode(x)
        BY <3>3 DEF x
      <4> QED
        BY <4>1 DEF IsNode
    <3>5. u \in NodeId \union {NoNode} /\ a \in Nat /\ y = [x EXCEPT !.up = u, !.at = a]
      BY <1>12, <3>2
    <3>6. IsNode(y) /\ y.up = u /\ y.at = a /\ SameNode(y, x)
      <4> HIDE DEF x, y, u, a
      <4>1. WillRewire(NodeId \union {NoNode}, x, u, a, y)
        BY <3>4, <3>5 DEF WillRewire
      <4> QED
        BY <4>1, Rewired
    <3> QED
      BY <2>1, <3>6
  <2>2. CASE ~ Retained(f, j)
    <3>1. P(j) \in Staged(f)
      BY <1>1, <2>2 DEF PlacedWell
    <3>2. tree[P(j)] = [f[j] EXCEPT !.up = up(j), !.at = at(j)]
      <4> HIDE DEF P, up, at, of
      <4> QED
        BY <1>8, <1>10, <3>1
    <3> DEFINE x == f[j]
               u == up(j)
               a == at(j)
               y == tree[P(j)]
    <3>4. /\ x.kind \in Kinds
          /\ x \in [kind : Kinds \union {"retain"}, name : {x.name}, up : 0 .. (j - 1),
                    at : Nat, hover : BOOLEAN, delay : Nat, serial : Nat]
      BY <1>3, <1>4, <2>2 DEF Retained
    <3>5. u \in NodeId \union {NoNode} /\ a \in Nat /\ y = [x EXCEPT !.up = u, !.at = a]
      BY <1>12, <3>2
    <3>6. IsNode(y) /\ y.up = u /\ y.at = a /\ SameNode(y, x)
      <4> HIDE DEF x, y, u, a
      <4>1. WillRewire(0 .. (j - 1), x, u, a, y)
        BY <3>4, <3>5 DEF WillRewire
      <4> QED
        BY <4>1, Rewired
    <3> QED
      BY <2>2, <3>6
  <2> QED
    BY <2>1, <2>2
<1>14. \A n \in Surviving(old, f) \ Frontier(f) : tree[n] = nodes[n]
  <2>1. \A n \in Staged(f) : n \notin Mounted
    BY <1>1 DEF PlacedWell
  <2>2. \A n \in Surviving(old, f) : n \notin Staged(f)
    BY <2>1 DEF Surviving
  <2> HIDE DEF of, up, at
  <2> QED
    BY <2>2 DEF Surviving
<1>15. DOMAIN tree = Surviving(old, f) \union Staged(f) /\ tree = [n \in DOMAIN tree |-> tree[n]]
  <2> HIDE DEF of, up, at
  <2> QED
    BY DEF Surviving
<1>15a. \A j \in 1 .. Len(f) :
           /\ tree[P(j)].up = IF j > 1 THEN P(f[j].up) ELSE Root(old)
           /\ tree[P(j)].at = IF j > 1 \/ old = NoNode THEN f[j].at ELSE nodes[old].at
  BY <1>12a, <1>13
<1> HIDE DEF tree
<1>16. PatchShape(old, f, tree)
  BY <1>5, <1>7, <1>8, <1>13, <1>14, <1>15, <1>15a DEF PatchShape
<1> QED
  BY <1>6, <1>16

\* The nodes that are not in what a patch replaces.
Outside(old) == {n \in Mounted : old \notin Above(nodes)[n]}
Grafted(f) == {Placed(f, j) : j \in 1 .. Len(f)}

Context(old, f, tree) ==
    Accepted(old, f) /\ Tree(nodes) /\ PlacedWell(f) /\ PatchShape(old, f, tree)

\* Where a patch cuts the mounted tree.
CutWell(old, f) ==
    /\ Frontier(f) \subseteq Surviving(old, f) /\ Frontier(f) \intersect Outside(old) = {}
    /\ \A n \in Frontier(f) : old \in Above(nodes)[n] /\ old # n /\ old \in Mounted
    /\ Outside(old) \subseteq Surviving(old, f)
    /\ \A n \in Outside(old) : nodes[n].up # NoNode => nodes[n].up \in Outside(old)
    /\ old # NoNode => old \in Removed(old, f) /\ Root(old) \in Outside(old) \union {NoNode}
    /\ \A n \in Surviving(old, f) \ Frontier(f) :
          /\ nodes[n].up # NoNode => nodes[n].up \in Surviving(old, f)
          /\ n \notin Outside(old) => nodes[n].up # NoNode /\ nodes[n].up \notin Outside(old)

LEMMA CutIs ==
    ASSUME NEW old, NEW f, NEW tree, Context(old, f, tree)
    PROVE  CutWell(old, f)
<1>0. Tree(nodes) /\ RetainsInside(old, f) /\ (IF old = NoNode THEN Mounted = {} ELSE old \in Mounted)
  BY DEF Context, Accepted
<1>1. \A n \in Mounted : n \in Above(nodes)[n]
  BY <1>0, AboveOrder DEF Mounted
<1>2. \A n \in Mounted : \A a \in Above(nodes)[n] :
          /\ a \in Mounted /\ Above(nodes)[a] \subseteq Above(nodes)[n]
          /\ a # n => n \notin Above(nodes)[a]
          /\ \A b \in Above(nodes)[n] : a \in Above(nodes)[b] \/ b \in Above(nodes)[a]
  BY <1>0, AboveOrder DEF Mounted
<1>3. \A n \in Mounted : Above(nodes)[n] =
          {n} \union IF nodes[n].up = NoNode THEN {} ELSE Above(nodes)[nodes[n].up]
  BY <1>0, AboveIs DEF Mounted
<1>4. \A n \in Mounted : nodes[n].up # NoNode => nodes[n].up \in Mounted
  BY <1>0 DEF Tree, Mounted
<1>5. Frontier(f) \subseteq Mounted
  BY DEF Frontier, Of, Mounted
<1>6. Frontier(f) \subseteq Surviving(old, f)
  BY DEF Context, PatchShape
<1>7. \A n \in Frontier(f) : /\ old \in Above(nodes)[n] /\ old # n /\ old \in Mounted
                             /\ Above(nodes)[n] \intersect Frontier(f) = {n}
  BY <1>0, <1>2, <1>5 DEF RetainsInside
<1>8. Frontier(f) \intersect Outside(old) = {} /\ Outside(old) \subseteq Surviving(old, f)
  BY <1>7 DEF Outside, Surviving, Removed
<1>9. ASSUME NEW n \in Outside(old), nodes[n].up # NoNode
      PROVE  nodes[n].up \in Outside(old)
  BY <1>3, <1>4, <1>9 DEF Outside
<1>10. ASSUME old # NoNode
       PROVE  old \in Removed(old, f) /\ Root(old) \in Outside(old) \union {NoNode}
  <2>1. old \in Mounted /\ old \in Above(nodes)[old]
    BY <1>0, <1>1, <1>10
  <2>2. ASSUME NEW y \in Above(nodes)[old], y \in Frontier(f) PROVE FALSE
    BY <1>2, <1>7, <2>1, <2>2
  <2>3. old \in Removed(old, f)
    BY <2>1, <2>2 DEF Removed
  <2>4. ASSUME nodes[old].up # NoNode PROVE nodes[old].up \in Outside(old)
    <3> DEFINE p == nodes[old].up
    <3>1. p \in Mounted /\ p \in Above(nodes)[p] /\ p \in Above(nodes)[old]
      BY <1>1, <1>3, <1>4, <2>1, <2>4
    <3>2. p # old
      BY <2>1, <2>4, <1>0, UpDiffers DEF Mounted
    <3> HIDE DEF p
    <3>3. old \notin Above(nodes)[p]
      BY <1>2, <2>1, <3>1, <3>2
    <3> QED
      BY <3>1, <3>3 DEF Outside, p
  <2> QED
    BY <1>10, <2>3, <2>4 DEF Root
<1>11. ASSUME NEW n \in Surviving(old, f) \ Frontier(f)
       PROVE  /\ nodes[n].up # NoNode => nodes[n].up \in Surviving(old, f)
              /\ n \notin Outside(old) => nodes[n].up # NoNode /\ nodes[n].up \notin Outside(old)
  <2>0. n \in Mounted /\ n \notin Removed(old, f)
    BY DEF Surviving
  <2>1. ASSUME nodes[n].up # NoNode, nodes[n].up \in Removed(old, f) PROVE FALSE
    <3>1. Above(nodes)[n] = {n} \union Above(nodes)[nodes[n].up]
      BY <1>3, <2>0, <2>1
    <3>2. old \in Above(nodes)[n] /\ Above(nodes)[n] \intersect Frontier(f) = {}
      BY <2>1, <3>1 DEF Removed
    <3> QED
      BY <2>0, <3>2 DEF Removed
  <2>2. nodes[n].up # NoNode => nodes[n].up \in Surviving(old, f)
    BY <1>4, <2>0, <2>1 DEF Surviving
  <2>3. ASSUME n \notin Outside(old)
        PROVE  nodes[n].up # NoNode /\ nodes[n].up \notin Outside(old)
    <3>1. old \in Above(nodes)[n]
      BY <2>0, <2>3 DEF Outside
    <3>2. old # NoNode /\ old # n
      BY <1>0, <1>10, <2>0
    <3>3. nodes[n].up # NoNode /\ old \in Above(nodes)[nodes[n].up]
      BY <1>3, <2>0, <3>1, <3>2
    <3> QED
      BY <3>3 DEF Outside
  <2> QED
    BY <2>2, <2>3
<1> QED
  BY <1>6, <1>7, <1>8, <1>9, <1>10, <1>11 DEF CutWell

\* What a patch leaves is a tree.
LEMMA PatchedTree ==
    ASSUME NEW old, NEW f, NEW tree, Context(old, f, tree)
    PROVE  Tree(tree)
<1> DEFINE P(j) == Placed(f, j)
<1>1. CutWell(old, f)
  BY CutIs
<1>2. /\ Len(f) \in Nat \ {0} /\ Tree(nodes) /\ PlacedWell(f) /\ PatchShape(old, f, tree)
  BY DEF Context, PlacedWell
<1>3. \A n \in Mounted : IsNode(nodes[n]) /\ n \in NodeId
  BY <1>2 DEF Tree, Mounted
<1>4. Grafted(f) = Frontier(f) \union Staged(f)
  <2>1. Frontier(f) \subseteq Grafted(f)
    BY <1>2 DEF PlacedWell, Grafted
  <2>2. Staged(f) \subseteq Grafted(f)
    BY <1>2 DEF PlacedWell, Grafted
  <2>3. ASSUME NEW j \in 1 .. Len(f) PROVE Placed(f, j) \in Frontier(f) \union Staged(f)
    BY <1>2 DEF PlacedWell
  <2> QED
    BY <2>1, <2>2, <2>3 DEF Grafted
<1>5. DOMAIN tree = (Surviving(old, f) \ Frontier(f)) \union Grafted(f)
  BY <1>1, <1>2, <1>4 DEF PatchShape, CutWell
<1>6. \A n \in Surviving(old, f) \ Frontier(f) : n \in Mounted /\ tree[n] = nodes[n]
  BY <1>2 DEF PatchShape, Surviving
<1>7. DOMAIN tree \subseteq NodeId
  <2>1. Staged(f) \subseteq NodeId
    BY <1>2 DEF PlacedWell
  <2> QED
    BY <1>2, <1>3, <2>1 DEF PatchShape, Surviving
<1>8. ASSUME NEW n \in DOMAIN tree
      PROVE  IsNode(tree[n]) /\ tree[n].up \in DOMAIN tree \union {NoNode}
  <2>1. CASE n \in Grafted(f)
    <3>1. PICK j \in 1 .. Len(f) : n = P(j)
      BY <2>1 DEF Grafted
    <3>2. IsNode(tree[n])
      BY <1>2, <3>1 DEF PatchShape
    <3>3. tree[n].up = IF j > 1 THEN P(f[j].up) ELSE Root(old)
      BY <1>2, <3>1 DEF PatchShape
    <3>4. j > 1 => P(f[j].up) \in Grafted(f)
      BY <1>2 DEF PatchShape, Grafted
    <3>5. Root(old) \in DOMAIN tree \union {NoNode}
      BY <1>1, <1>5 DEF CutWell, Root
    <3> QED
      BY <1>5, <3>2, <3>3, <3>4, <3>5
  <2>2. CASE n \in Surviving(old, f) \ Frontier(f)
    <3>1. tree[n] = nodes[n] /\ IsNode(tree[n])
      BY <1>3, <1>6, <2>2
    <3>2. nodes[n].up # NoNode => nodes[n].up \in Surviving(old, f)
      BY <1>1, <2>2 DEF CutWell
    <3> QED
      BY <1>2, <3>1, <3>2 DEF PatchShape
  <2> QED
    BY <1>5, <2>1, <2>2
<1>9. PICK K \in Nat : \E R \in [DOMAIN nodes -> 0 .. K] : Ranked(nodes, R)
  BY <1>2 DEF Tree
<1>10. PICK R \in [DOMAIN nodes -> 0 .. K] : Ranked(nodes, R)
  BY <1>9
<1>11. \A n \in Mounted : R[n] \in Nat /\ R[n] <= K
  <2>1. \A n \in Mounted : R[n] \in 0 .. K
    BY <1>10 DEF Mounted
  <2> QED
    BY <1>9, <2>1
<1>12. \A n \in Mounted : nodes[n].up # NoNode => R[nodes[n].up] < R[n]
  BY <1>10 DEF Ranked, Mounted
<1> DEFINE r0 == IF old = NoNode THEN 0 ELSE R[old]
           of(n) == CHOOSE j \in 1 .. Len(f) : P(j) = n
           C == K + Len(f) + 1
           Q == [n \in DOMAIN tree |-> IF n \in Outside(old) THEN R[n]
                                       ELSE IF n \in Grafted(f) THEN r0 + of(n) ELSE R[n] + C]
<1>13. r0 \in Nat /\ r0 <= K
  BY <1>9, <1>11 DEF Context, Accepted
<1>14. \A j \in 1 .. Len(f) : of(P(j)) = j /\ P(j) \in Grafted(f) /\ P(j) \notin Outside(old)
  <2>1. \A i, j \in 1 .. Len(f) : P(i) = P(j) => i = j
    BY <1>2 DEF PlacedWell
  <2>2. \A j \in 1 .. Len(f) : P(j) \in Grafted(f)
    BY DEF Grafted
  <2>3. \A n \in Staged(f) : n \notin Mounted
    BY <1>2 DEF PlacedWell
  <2>4. \A n \in Grafted(f) : n \notin Outside(old)
    BY <1>1, <1>4, <2>3 DEF CutWell, Outside
  <2> HIDE DEF P
  <2> QED
    BY <2>1, <2>2, <2>4
<1>15. \A j \in 1 .. Len(f) : P(j) \in DOMAIN tree /\ Q[P(j)] = r0 + j
  <2>1. \A j \in 1 .. Len(f) : P(j) \in DOMAIN tree
    BY <1>5, <1>14
  <2> HIDE DEF P, of, r0, C
  <2> QED
    BY <1>14, <2>1
<1>16. \A n \in Outside(old) : n \in DOMAIN tree /\ n \in Mounted /\ Q[n] = R[n]
  <2>1. \A n \in Outside(old) : n \in DOMAIN tree /\ n \in Mounted
    BY <1>1, <1>2 DEF CutWell, PatchShape, Outside
  <2> HIDE DEF P, of, r0, C
  <2> QED
    BY <2>1
<1>17. \A n \in Surviving(old, f) \ Frontier(f) :
          n \notin Outside(old) => n \in DOMAIN tree /\ Q[n] = R[n] + C
  <2>1. \A n \in Surviving(old, f) \ Frontier(f) : n \in DOMAIN tree /\ n \notin Grafted(f)
    <3>1. \A n \in Staged(f) : n \notin Surviving(old, f)
      BY <1>2 DEF PlacedWell, Surviving
    <3> QED
      BY <1>4, <1>5, <3>1
  <2> HIDE DEF P, of, r0, C
  <2> QED
    BY <2>1
<1>18. C \in Nat /\ C > K + Len(f)
  BY <1>2, <1>9
<1> HIDE DEF r0, Q, C
<1>19. ASSUME NEW n \in DOMAIN tree
       PROVE  Q[n] \in 0 .. (K + C)
  <2>1. CASE n \in Grafted(f)
    <3>1. PICK j \in 1 .. Len(f) : n = P(j)
      BY <2>1 DEF Grafted
    <3>2. Q[n] = r0 + j
      BY <1>15, <3>1
    <3>3. j \in Nat /\ j <= Len(f)
      BY <1>2
    <3> HIDE DEF P
    <3> QED
      BY <1>2, <1>9, <1>13, <1>18, <3>2, <3>3
  <2>2. CASE n \in Surviving(old, f) \ Frontier(f)
    <3>1. R[n] \in Nat /\ R[n] <= K
      BY <1>6, <1>11, <2>2
    <3>2. Q[n] = R[n] \/ Q[n] = R[n] + C
      BY <1>16, <1>17, <2>2
    <3> DEFINE r == R[n]
    <3> HIDE DEF r
    <3>3. r \in Nat /\ r <= K /\ (Q[n] = r \/ Q[n] = r + C)
      BY <3>1, <3>2 DEF r
    <3> QED
      BY <1>9, <1>18, <3>3
  <2> QED
    BY <1>5, <2>1, <2>2
<1>20. ASSUME NEW n \in DOMAIN tree, tree[n].up # NoNode
       PROVE  Q[tree[n].up] < Q[n]
  <2>1. CASE n \in Grafted(f)
    <3>1. PICK j \in 1 .. Len(f) : n = P(j)
      BY <2>1 DEF Grafted
    <3>2. tree[n].up = IF j > 1 THEN P(f[j].up) ELSE Root(old)
      BY <1>2, <3>1 DEF PatchShape
    <3>3. Q[n] = r0 + j /\ j \in Nat /\ j > 0
      BY <1>2, <1>15, <3>1
    <3>4. CASE j > 1
      <4>1. f[j].up \in 1 .. Len(f) /\ f[j].up < j
        BY <1>2, <3>4 DEF PatchShape
      <4>2. Q[tree[n].up] = r0 + f[j].up
        BY <1>15, <3>2, <3>4, <4>1
      <4> DEFINE i == f[j].up
      <4>3. i \in Nat /\ i < j /\ Q[tree[n].up] = r0 + i
        BY <1>2, <4>1, <4>2
      <4> HIDE DEF i
      <4> QED
        BY <1>13, <3>3, <4>3
    <3>5. CASE ~ (j > 1)
      <4>1. tree[n].up = Root(old) /\ old # NoNode /\ Root(old) = nodes[old].up
        BY <1>20, <3>2, <3>5 DEF Root
      <4>2. old \in Mounted /\ Root(old) \in Outside(old)
        BY <1>1, <1>20, <4>1 DEF CutWell, Context, Accepted
      <4>3. R[Root(old)] < R[old] /\ r0 = R[old] /\ Q[tree[n].up] = R[Root(old)]
        BY <1>12, <1>16, <1>20, <4>1, <4>2 DEF r0
      <4>4. R[Root(old)] \in Nat
        BY <1>11, <1>16, <4>2
      <4> DEFINE q == R[Root(old)]
      <4>5. q \in Nat /\ q < r0 /\ Q[tree[n].up] = q
        BY <4>3, <4>4
      <4> HIDE DEF q
      <4> QED
        BY <1>13, <3>3, <4>5
    <3> QED
      BY <3>4, <3>5
  <2>2. CASE n \in Surviving(old, f) \ Frontier(f)
    <3> DEFINE p == nodes[n].up
    <3>1. tree[n].up = p /\ n \in Mounted /\ p # NoNode
      BY <1>6, <1>20, <2>2
    <3>2. R[p] < R[n] /\ R[n] \in Nat
      BY <1>11, <1>12, <3>1
    <3>3. p \in Surviving(old, f) /\ p \in Mounted
      BY <1>1, <2>2, <3>1 DEF CutWell, Surviving
    <3>4. R[p] \in Nat
      BY <1>11, <3>3
    <3>5. n \in Outside(old) => p \in Outside(old)
      BY <1>1, <3>1 DEF CutWell
    <3>6. n \notin Outside(old) => p \notin Outside(old)
      BY <1>1, <2>2, <3>1 DEF CutWell
    <3> HIDE DEF p
    <3>7. CASE n \in Outside(old)
      BY <1>16, <3>1, <3>2, <3>5, <3>7
    <3>8. CASE n \notin Outside(old) /\ p \notin Frontier(f)
      <4>1. Q[n] = R[n] + C /\ Q[p] = R[p] + C
        BY <1>17, <2>2, <3>3, <3>6, <3>8
      <4> DEFINE a == R[p]
                 b == R[n]
      <4>2. a \in Nat /\ b \in Nat /\ a < b /\ Q[n] = b + C /\ Q[p] = a + C
        BY <3>2, <3>4, <4>1
      <4> HIDE DEF a, b
      <4>3. Q[p] < Q[n]
        BY <1>18, <4>2
      <4> QED
        BY <3>1, <4>3
    <3>9. CASE n \notin Outside(old) /\ p \in Frontier(f)
      <4>1. Q[n] = R[n] + C
        BY <1>17, <2>2, <3>9
      <4>2. PICK j \in 1 .. Len(f) : p = P(j)
        BY <1>4, <3>9 DEF Grafted
      <4>3. Q[p] = r0 + j /\ j \in Nat /\ j <= Len(f)
        BY <1>2, <1>15, <4>2
      <4> DEFINE b == R[n]
      <4>4. b \in Nat /\ Q[n] = b + C
        BY <3>2, <4>1
      <4> HIDE DEF b
      <4>5. Q[p] < Q[n]
        BY <1>2, <1>9, <1>13, <1>18, <4>3, <4>4
      <4> QED
        BY <3>1, <4>5
    <3> QED
      BY <3>7, <3>8, <3>9
  <2> QED
    BY <1>5, <2>1, <2>2
<1>21. K + C \in Nat /\ Q \in [DOMAIN tree -> 0 .. (K + C)] /\ Ranked(tree, Q)
  <2>1. K + C \in Nat
    BY <1>9, <1>18
  <2>2. Q \in [DOMAIN tree -> 0 .. (K + C)]
    BY <1>19 DEF Q
  <2>3. Ranked(tree, Q)
    BY <1>20 DEF Ranked
  <2> QED
    BY <2>1, <2>2, <2>3
<1>22. tree = [n \in DOMAIN tree |-> tree[n]]
  BY <1>2 DEF PatchShape
<1> QED
  BY <1>7, <1>8, <1>21, <1>22 DEF Tree

\* What is outside of what a patch replaces has the ancestors it had, and they
\* are above everything the patch put there.
LEMMA AboveKept ==
    ASSUME NEW old, NEW f, NEW tree, Context(old, f, tree)
    PROVE  /\ \A n \in Outside(old) : Above(tree)[n] = Above(nodes)[n]
           /\ Root(old) # NoNode =>
                \A n \in Grafted(f) : Above(nodes)[Root(old)] \subseteq Above(tree)[n]
<1>1. CutWell(old, f) /\ Tree(tree) /\ Tree(nodes) /\ PatchShape(old, f, tree)
  BY CutIs, PatchedTree DEF Context
<1>2. \A n \in DOMAIN tree : Above(tree)[n] =
          {n} \union IF tree[n].up = NoNode THEN {} ELSE Above(tree)[tree[n].up]
  BY <1>1, AboveIs
<1>3. \A n \in Mounted : Above(nodes)[n] =
          {n} \union IF nodes[n].up = NoNode THEN {} ELSE Above(nodes)[nodes[n].up]
  BY <1>1, AboveIs DEF Mounted
<1>4. \A n \in Outside(old) : n \in Mounted /\ n \in DOMAIN tree /\ tree[n] = nodes[n]
  BY <1>1 DEF CutWell, PatchShape, Outside
<1>5. \A n \in Outside(old) : Above(tree)[n] = Above(nodes)[n]
  <2> DEFINE S == {n \in DOMAIN nodes : n \in Outside(old) => Above(tree)[n] = Above(nodes)[n]}
  <2>1. ASSUME NEW n \in DOMAIN nodes, nodes[n].up = NoNode \/ nodes[n].up \in S
        PROVE  n \in S
    <3>1. ASSUME n \in Outside(old) PROVE Above(tree)[n] = Above(nodes)[n]
      <4>1. nodes[n].up # NoNode => nodes[n].up \in Outside(old)
        BY <1>1, <3>1 DEF CutWell
      <4>2. /\ Above(nodes)[n] = {n} \union IF nodes[n].up = NoNode THEN {}
                                          ELSE Above(nodes)[nodes[n].up]
            /\ Above(tree)[n] = {n} \union IF nodes[n].up = NoNode THEN {}
                                         ELSE Above(tree)[nodes[n].up]
        BY <1>2, <1>3, <1>4, <3>1
      <4>3. nodes[n].up # NoNode => Above(tree)[nodes[n].up] = Above(nodes)[nodes[n].up]
        BY <2>1, <4>1
      <4> QED
        BY <4>2, <4>3
    <3> QED
      BY <3>1
  <2>2. \A n \in DOMAIN nodes : n \in S
    <3> HIDE DEF S
    <3> QED
      BY <1>1, <2>1, TreeInduction
  <2> QED
    BY <1>4, <2>2 DEF Mounted
<1>6. ASSUME Root(old) # NoNode, NEW n \in Grafted(f)
      PROVE  Above(nodes)[Root(old)] \subseteq Above(tree)[n]
  <2> DEFINE A == Above(nodes)[Root(old)]
             S == {m \in DOMAIN tree : m \in Grafted(f) => A \subseteq Above(tree)[m]}
  <2>1. A = Above(tree)[Root(old)]
    <3>1. Root(old) \in Outside(old)
      BY <1>1, <1>6 DEF CutWell, Root
    <3> QED
      BY <1>5, <3>1
  <2>2. ASSUME NEW m \in DOMAIN tree, tree[m].up = NoNode \/ tree[m].up \in S
        PROVE  m \in S
    <3>1. ASSUME m \in Grafted(f) PROVE A \subseteq Above(tree)[m]
      <4>1. PICK j \in 1 .. Len(f) : m = Placed(f, j)
        BY <3>1 DEF Grafted
      <4>2. tree[m].up = IF j > 1 THEN Placed(f, f[j].up) ELSE Root(old)
        BY <1>1, <4>1 DEF PatchShape
      <4>3. CASE j > 1
        <5>1. tree[m].up \in Grafted(f)
          BY <1>1, <4>2, <4>3 DEF PatchShape, Grafted
        <5>2. tree[m].up \in DOMAIN tree
          BY <1>1, <5>1 DEF PatchShape, Grafted
        <5>3. tree[m].up # NoNode
          BY <1>1, <5>2, NoNodeId DEF Tree
        <5>4. A \subseteq Above(tree)[tree[m].up]
          BY <2>2, <5>1, <5>3
        <5> QED
          BY <1>2, <5>3, <5>4
      <4>4. CASE ~ (j > 1)
        BY <1>2, <1>6, <2>1, <4>2, <4>4
      <4> QED
        BY <4>3, <4>4
    <3> QED
      BY <3>1
  <2>3. \A m \in DOMAIN tree : m \in S
    <3> HIDE DEF S
    <3> QED
      BY <1>1, <2>2, TreeInduction
  <2>4. n \in DOMAIN tree
    BY <1>1 DEF PatchShape, Grafted
  <2> QED
    BY <2>3, <2>4
<1> QED
  BY <1>5, <1>6

\* Above what was removed there survives only what is above the place of the
\* patch; below it, only what the fragment retained.
LEMMA AboveRemoved ==
    ASSUME NEW old, NEW f, NEW tree, Context(old, f, tree), NEW d \in Surviving(old, f)
    PROVE  /\ \A o \in Removed(old, f) : d \in Above(nodes)[o] =>
                 Root(old) # NoNode /\ d \in Above(nodes)[Root(old)]
           /\ \A o \in Removed(old, f) : o \in Above(nodes)[d] =>
                 \E x \in Frontier(f) : x \in Above(nodes)[d] /\ o \in Above(nodes)[x]
<1>1. CutWell(old, f) /\ Tree(nodes) /\ d \in Mounted /\ d \notin Removed(old, f)
  BY CutIs DEF Context, Surviving
<1>2. /\ \A n \in Mounted : n \in Above(nodes)[n]
      /\ \A n \in Mounted : \A a \in Above(nodes)[n] :
            /\ a \in Mounted /\ Above(nodes)[a] \subseteq Above(nodes)[n]
            /\ a # n => n \notin Above(nodes)[a]
            /\ \A b \in Above(nodes)[n] : a \in Above(nodes)[b] \/ b \in Above(nodes)[a]
  BY <1>1, AboveOrder DEF Mounted
<1>3. \A n \in Mounted : Above(nodes)[n] =
          {n} \union IF nodes[n].up = NoNode THEN {} ELSE Above(nodes)[nodes[n].up]
  BY <1>1, AboveIs DEF Mounted
<1>4. ASSUME NEW o \in Removed(old, f), d \in Above(nodes)[o]
      PROVE  Root(old) # NoNode /\ d \in Above(nodes)[Root(old)]
  <2>1. o \in Mounted /\ old \in Above(nodes)[o] /\ Above(nodes)[o] \intersect Frontier(f) = {}
    BY DEF Removed
  <2>2. Above(nodes)[d] \subseteq Above(nodes)[o]
    BY <1>2, <1>4, <2>1
  <2>3. old \notin Above(nodes)[d]
    BY <1>1, <2>1, <2>2 DEF Removed
  <2>4. d \in Above(nodes)[old] /\ d # old /\ old \in Mounted
    BY <1>1, <1>2, <1>4, <2>1, <2>3
  <2>5. nodes[old].up # NoNode /\ d \in Above(nodes)[nodes[old].up]
    BY <1>3, <2>4
  <2>6. old # NoNode
    BY <1>1, <2>4, NoNodeId DEF Tree, Mounted
  <2> QED
    BY <2>5, <2>6 DEF Root
<1>5. ASSUME NEW o \in Removed(old, f), o \in Above(nodes)[d]
      PROVE  \E x \in Frontier(f) : x \in Above(nodes)[d] /\ o \in Above(nodes)[x]
  <2>1. o \in Mounted /\ old \in Above(nodes)[o] /\ Above(nodes)[o] \intersect Frontier(f) = {}
    BY DEF Removed
  <2>2. old \in Above(nodes)[d]
    BY <1>1, <1>2, <1>5, <2>1
  <2>3. PICK x \in Frontier(f) : x \in Above(nodes)[d]
    BY <1>1, <2>2 DEF Removed
  <2>4. x \notin Above(nodes)[o]
    BY <2>1
  <2>5. o \in Above(nodes)[x]
    BY <1>1, <1>2, <1>5, <2>3, <2>4
  <2> QED
    BY <2>3, <2>5
<1> QED
  BY <1>4, <1>5

\* What survives a patch keeps those of its ancestors that survive.
LEMMA SurvivorsAbove ==
    ASSUME NEW old, NEW f, NEW tree, Context(old, f, tree)
    PROVE  \A a \in Surviving(old, f) : \A b \in Surviving(old, f) :
              b \in Above(nodes)[a] => b \in Above(tree)[a]
<1>1. CutWell(old, f) /\ Tree(tree) /\ Tree(nodes) /\ PatchShape(old, f, tree)
  BY CutIs, PatchedTree DEF Context
<1>2. \A n \in DOMAIN tree : Above(tree)[n] =
          {n} \union IF tree[n].up = NoNode THEN {} ELSE Above(tree)[tree[n].up]
  BY <1>1, AboveIs
<1>3. \A n \in Mounted : Above(nodes)[n] =
          {n} \union IF nodes[n].up = NoNode THEN {} ELSE Above(nodes)[nodes[n].up]
  BY <1>1, AboveIs DEF Mounted
<1>4. \A n \in Mounted : \A a \in Above(nodes)[n] :
            /\ a \in Mounted /\ Above(nodes)[a] \subseteq Above(nodes)[n]
            /\ a # n => n \notin Above(nodes)[a]
  BY <1>1, AboveOrder DEF Mounted
<1>5. Surviving(old, f) \subseteq Mounted /\ Surviving(old, f) \subseteq DOMAIN tree
  BY <1>1 DEF PatchShape, Surviving
<1> DEFINE Kept(a) == \A b \in Surviving(old, f) : b \in Above(nodes)[a] => b \in Above(tree)[a]
           S == {a \in DOMAIN nodes : a \in Surviving(old, f) => Kept(a)}
<1>6. ASSUME NEW a \in DOMAIN nodes, nodes[a].up = NoNode \/ nodes[a].up \in S,
             a \in Surviving(old, f)
      PROVE  Kept(a)
  <2>1. ASSUME NEW b \in Surviving(old, f), b \in Above(nodes)[a]
        PROVE  b \in Above(tree)[a]
    <3>1. CASE b = a
      BY <1>2, <1>5, <3>1
    <3>2. CASE b # a /\ a \notin Frontier(f)
      <4>1. tree[a] = nodes[a]
        BY <1>1, <1>6, <3>2 DEF PatchShape
      <4>2. nodes[a].up # NoNode /\ b \in Above(nodes)[nodes[a].up]
        BY <1>3, <1>5, <1>6, <2>1, <3>2
      <4>3. nodes[a].up \in Surviving(old, f)
        BY <1>1, <1>6, <3>2, <4>2 DEF CutWell
      <4>4. b \in Above(tree)[nodes[a].up]
        BY <1>6, <4>2, <4>3
      <4> QED
        BY <1>2, <1>5, <1>6, <4>1, <4>2, <4>4
    <3>3. CASE b # a /\ a \in Frontier(f)
      <4>1. old \in Above(nodes)[a] /\ old # a /\ old \in Mounted
        BY <1>1, <3>3 DEF CutWell
      <4> DEFINE p == nodes[a].up
      <4>2. p # NoNode /\ b \in Above(nodes)[p] /\ old \in Above(nodes)[p] /\ p \in Mounted
        <5>1. p # NoNode /\ b \in Above(nodes)[p] /\ old \in Above(nodes)[p]
          BY <1>3, <1>5, <1>6, <2>1, <3>3, <4>1
        <5> QED
          BY <1>1, <1>6, <5>1 DEF Tree, Mounted
      <4>3. Above(nodes)[a] \intersect Frontier(f) = {a} /\ a \in Mounted
        BY <1>5, <1>6, <3>3 DEF Context, Accepted, RetainsInside
      <4>4. p \in Removed(old, f)
        <5>1. Above(nodes)[p] \subseteq Above(nodes)[a] /\ a \notin Above(nodes)[p]
          <6>1. p \in Above(nodes)[a] /\ p # a
            <7>1. p \in Above(nodes)[p]
              BY <1>1, <4>2, AboveOrder DEF Mounted
            <7>2. p # a
              BY <1>1, <1>6, <4>2, UpDiffers
            <7> QED
              BY <1>3, <4>2, <4>3, <7>1, <7>2
          <6> QED
            BY <1>4, <4>3, <6>1
        <5> QED
          BY <4>2, <4>3, <5>1 DEF Removed
      <4> HIDE DEF p
      <4>5. Root(old) # NoNode /\ b \in Above(nodes)[Root(old)]
        BY <4>2, <4>4, AboveRemoved
      <4>6. a \in Grafted(f)
        BY <3>3 DEF Context, PlacedWell, Grafted
      <4> QED
        BY <4>5, <4>6, AboveKept
    <3> QED
      BY <3>1, <3>2, <3>3
  <2> QED
    BY <2>1
<1>7. \A a \in DOMAIN nodes : a \in S
  <2>1. \A a \in DOMAIN nodes : (nodes[a].up = NoNode \/ nodes[a].up \in S) => a \in S
    BY <1>6
  <2> HIDE DEF S
  <2> QED
    BY <1>1, <2>1, TreeInduction
<1> QED
  BY <1>5, <1>7 DEF Mounted

\* What survives a patch keeps its identity.
LEMMA SurvivorIdentity ==
    ASSUME NEW old, NEW f, NEW tree, Context(old, f, tree), Lawful(tree, Staged(f))
    PROVE  \A n \in Surviving(old, f) : SameKeys(nodes, tree, n, n)
<1>1. CutWell(old, f) /\ Tree(tree) /\ Tree(nodes) /\ PatchShape(old, f, tree)
  BY CutIs, PatchedTree DEF Context
<1>2. Surviving(old, f) \subseteq Mounted /\ Surviving(old, f) \subseteq DOMAIN tree
  BY <1>1 DEF PatchShape, Surviving
<1>3. \A n \in DOMAIN tree :
                Identity(tree)[n] = IF tree[n].up = NoNode THEN <<KeyOf(tree[n])>>
                                 ELSE Append(Identity(tree)[tree[n].up], KeyOf(tree[n]))
  BY <1>1, IdentityIs
<1>4. \A n \in DOMAIN nodes :
                Identity(nodes)[n] = IF nodes[n].up = NoNode THEN <<KeyOf(nodes[n])>>
                                 ELSE Append(Identity(nodes)[nodes[n].up], KeyOf(nodes[n]))
  BY <1>1, IdentityIs
<1>5. ASSUME NEW n \in Frontier(f) PROVE SameKeys(nodes, tree, n, n)
  <2>1. PICK j \in 1 .. Len(f) : Retained(f, j) /\ Placed(f, j) = n
    BY DEF Context, PlacedWell
  <2>2. SameNode(tree[n], nodes[n])
    BY <1>1, <2>1 DEF PatchShape
  <2>3. n \in DOMAIN nodes /\ nodes[n].kind = "boundary" /\ n \in DOMAIN tree
    BY <1>1, <1>2 DEF Frontier, Of, CutWell
  <2>4. n \in Of(tree, "boundary") /\ n \in Of(nodes, "boundary") /\ nodes[n].name = tree[n].name
    BY <2>2, <2>3 DEF Of, SameNode
  <2> QED
    BY <2>4 DEF Lawful, SameKeys
<1> DEFINE S == {n \in DOMAIN nodes : n \in Surviving(old, f) => SameKeys(nodes, tree, n, n)}
<1>6. ASSUME NEW n \in DOMAIN nodes, nodes[n].up = NoNode \/ nodes[n].up \in S,
             n \in Surviving(old, f)
      PROVE  SameKeys(nodes, tree, n, n)
  <2>1. CASE n \notin Frontier(f)
    <3>1. tree[n] = nodes[n] /\ n \in DOMAIN tree
      BY <1>1, <1>2, <1>6, <2>1 DEF PatchShape
    <3>2. nodes[n].up # NoNode => nodes[n].up \in Surviving(old, f)
      BY <1>1, <1>6, <2>1 DEF CutWell
    <3>3. nodes[n].up # NoNode => SameKeys(nodes, tree, nodes[n].up, nodes[n].up)
      BY <1>6, <3>2
    <3> QED
      BY <1>3, <1>4, <3>1, <3>3 DEF SameKeys
  <2> QED
    BY <1>5, <2>1
<1>7. \A n \in DOMAIN nodes : n \in S
  <2>1. \A n \in DOMAIN nodes : (nodes[n].up = NoNode \/ nodes[n].up \in S) => n \in S
    BY <1>6
  <2> HIDE DEF S
  <2> QED
    BY <1>1, <2>1, TreeInduction
<1> QED
  BY <1>2, <1>7 DEF Mounted

\* A popover that survives a patch has content if it had.
LEMMA SurvivorPresents ==
    ASSUME NEW old, NEW f, NEW tree, Context(old, f, tree),
           NEW n \in Surviving(old, f), Presents(nodes, n)
    PROVE  Presents(tree, n)
<1>1. CutWell(old, f) /\ Tree(nodes) /\ PatchShape(old, f, tree)
  BY CutIs DEF Context
<1>2. Surviving(old, f) \subseteq Mounted /\ Surviving(old, f) \subseteq DOMAIN tree
  BY <1>1 DEF PatchShape, Surviving
<1>3. \A m \in Mounted : m \in Above(nodes)[m] /\ Above(nodes)[m] =
          {m} \union IF nodes[m].up = NoNode THEN {} ELSE Above(nodes)[nodes[m].up]
  BY <1>1, AboveIs, AboveOrder DEF Mounted
<1>4. nodes[n].kind = "popover" /\ n \in Mounted /\ n # NoNode
  BY <1>1, <1>2, NoNodeId DEF Presents, Tree, Mounted
<1>5. n \notin Frontier(f)
  BY <1>4 DEF Frontier, Of
<1>6. tree[n].kind = "popover"
  BY <1>1, <1>4, <1>5 DEF PatchShape
<1>7. PICK c \in DOMAIN nodes : nodes[c].up = n /\ nodes[c].at > 0
  BY DEF Presents
<1>8. c \in Mounted /\ Above(nodes)[c] = {c} \union Above(nodes)[n]
  BY <1>3, <1>4, <1>7 DEF Mounted
<1>9. old \in Above(nodes)[n] => Above(nodes)[n] \intersect Frontier(f) # {}
  BY <1>4 DEF Surviving, Removed
<1>10. c # n /\ c \notin Above(nodes)[n]
  <2>1. n # c
    BY <1>1, <1>4, <1>7, UpDiffers
  <2>2. n \in Above(nodes)[c]
    BY <1>3, <1>4, <1>8
  <2> QED
    BY <1>1, <1>7, <2>1, <2>2, AboveOrder
<1>11. ASSUME c \in Surviving(old, f) PROVE Presents(tree, n)
  <2>1. ASSUME c \in Frontier(f) PROVE FALSE
    <3>1. old \in Above(nodes)[c] /\ old # c
      BY <1>1, <2>1 DEF CutWell
    <3>2. Above(nodes)[c] \intersect Frontier(f) = {c}
      BY <2>1 DEF Context, Accepted, RetainsInside
    <3> QED
      BY <1>8, <1>9, <1>10, <3>1, <3>2
  <2>2. tree[c] = nodes[c] /\ c \in DOMAIN tree
    BY <1>1, <1>2, <1>11, <2>1 DEF PatchShape
  <2> QED
    BY <1>6, <1>7, <2>2 DEF Presents
<1>12. ASSUME c \in Removed(old, f) PROVE Presents(tree, n)
  <2>1. old \in Above(nodes)[c] /\ Above(nodes)[c] \intersect Frontier(f) = {}
    BY <1>12 DEF Removed
  <2>2. old = c
    BY <1>8, <1>9, <2>1
  <2>3. old # NoNode
    BY <1>1, <1>8, <2>2, NoNodeId DEF Tree, Mounted
  <2>4. 1 \in 1 .. Len(f) /\ ~ (1 > 1)
    BY DEF Context, PlacedWell
  <2>5. /\ Placed(f, 1) \in DOMAIN tree /\ tree[Placed(f, 1)].up = n
        /\ tree[Placed(f, 1)].at = nodes[old].at
    BY <1>1, <1>7, <2>2, <2>3, <2>4 DEF PatchShape, Root
  <2> QED
    BY <1>6, <1>7, <2>2, <2>5 DEF Presents
<1> QED
  BY <1>8, <1>11, <1>12 DEF Surviving

-----------------------------------------------------------------------------
(* The invariant, and what a patch does to it.                             *)

\* No two mounted nodes have one identity: what is carried by identity goes to
\* one node.
IdentitiesDiffer == \A a, b \in Mounted : SameKeys(nodes, nodes, a, b) => a = b
SerialsMatch == \A n \in DOMAIN serials : serials[n] = nodes[n].serial

InteractionInv ==
    /\ Tree(nodes) /\ NamesDiffer /\ IdentitiesDiffer
    /\ SerialsMatch /\ FactsAgree /\ DialogShields

PatchStep(old, f, tree) ==
    InteractionInv /\ Context(old, f, tree) /\ Lawful(tree, Staged(f))

\* The facts of one kind after a patch, and who can be given them.
After(facts, old, f, tree, able) ==
    Restored(facts, Removed(old, f), able, tree) \ Covered(tree)
Tracking(f, tree) == {n \in Staged(f) : Tracks(tree, n)}
Presenting(f, tree) == {n \in Staged(f) : Presents(tree, n)}

\* A node with the identity of a mounted one either is it or replaces it.
Successors(old, f, tree) ==
    /\ DOMAIN tree = Surviving(old, f) \union Staged(f)
    /\ Surviving(old, f) \subseteq Mounted /\ Removed(old, f) \subseteq Mounted
    /\ Staged(f) \intersect (Mounted \union requests) = {}
    /\ \A n \in Surviving(old, f) : /\ SameNode(tree[n], nodes[n]) /\ n \notin Removed(old, f)
                                    /\ SameKeys(nodes, tree, n, n)
    /\ \A n \in DOMAIN tree : \A o \in Mounted : SameKeys(nodes, tree, o, n) =>
          /\ nodes[o].kind = tree[n].kind
          /\ n \in Surviving(old, f) => o = n
          /\ n \in Staged(f) => o \in Removed(old, f)

LEMMA SuccessorsAre ==
    ASSUME NEW old, NEW f, NEW tree, PatchStep(old, f, tree)
    PROVE  Successors(old, f, tree)
<1>1. /\ Tree(nodes) /\ Tree(tree) /\ PatchShape(old, f, tree) /\ IdentitiesDiffer
      /\ PlacedWell(f) /\ Context(old, f, tree) /\ Lawful(tree, Staged(f))
  BY PatchedTree DEF PatchStep, Context, InteractionInv
<1>2. /\ DOMAIN tree = Surviving(old, f) \union Staged(f)
      /\ Surviving(old, f) \subseteq Mounted /\ Removed(old, f) \subseteq Mounted
  BY <1>1 DEF PatchShape, Surviving, Removed
<1>3. Staged(f) \intersect (Mounted \union requests) = {}
  BY <1>1 DEF PlacedWell
<1>4. \A n \in Surviving(old, f) : SameKeys(nodes, tree, n, n)
  BY <1>1, SurvivorIdentity
<1>5. ASSUME NEW n \in Surviving(old, f)
      PROVE  SameNode(tree[n], nodes[n]) /\ n \notin Removed(old, f)
  <2>1. n \in Frontier(f) => SameNode(tree[n], nodes[n])
    <3>1. ASSUME n \in Frontier(f) PROVE SameNode(tree[n], nodes[n])
      <4>1. PICK j \in 1 .. Len(f) : Retained(f, j) /\ Placed(f, j) = n
        BY <1>1, <3>1 DEF PlacedWell
      <4> QED
        BY <1>1, <4>1 DEF PatchShape
    <3> QED
      BY <3>1
  <2>2. n \notin Frontier(f) => SameNode(tree[n], nodes[n])
    BY <1>1 DEF PatchShape, SameNode
  <2> QED
    BY <2>1, <2>2 DEF Surviving
<1>6. ASSUME NEW n \in DOMAIN tree, NEW o \in Mounted, SameKeys(nodes, tree, o, n)
      PROVE  /\ nodes[o].kind = tree[n].kind
             /\ n \in Surviving(old, f) => o = n
             /\ n \in Staged(f) => o \in Removed(old, f)
  <2>1. nodes[o].kind = tree[n].kind
    BY <1>1, <1>6, SameStep DEF Mounted
  <2>2. ASSUME n \in Surviving(old, f) PROVE o = n
    <3>1. SameKeys(nodes, nodes, o, n) /\ n \in Mounted
      BY <1>2, <1>4, <1>6, <2>2 DEF SameKeys
    <3> QED
      BY <1>1, <3>1 DEF IdentitiesDiffer
  <2>3. ASSUME n \in Staged(f), o \notin Removed(old, f) PROVE FALSE
    <3>1. o \in Surviving(old, f) /\ o \in DOMAIN tree /\ o # n
      BY <1>2, <1>3, <2>3 DEF Surviving
    <3>2. Identity(tree)[o] = Identity(tree)[n]
      BY <1>4, <1>6, <3>1 DEF SameKeys
    <3> QED
      BY <1>1, <3>1, <3>2 DEF Lawful
  <2> QED
    BY <2>1, <2>2, <2>3
<1> QED
  BY <1>2, <1>3, <1>4, <1>5, <1>6 DEF Successors

\* Who has a fact after a patch: who kept it, or replaces a node that had it.
LEMMA AfterIs ==
    ASSUME NEW old, NEW f, NEW tree, PatchStep(old, f, tree),
           NEW facts \in SUBSET Mounted, NEW able \in SUBSET Staged(f)
    PROVE  \A n : n \in After(facts, old, f, tree, able) <=>
              /\ n \notin Covered(tree)
              /\ \/ n \in facts /\ n \in Surviving(old, f)
                 \/ n \in able /\ \E o \in facts : o \in Removed(old, f)
                                                  /\ SameKeys(nodes, tree, o, n)
<1>1. facts \ Removed(old, f) = facts \intersect Surviving(old, f)
  BY DEF Surviving
<1>2. \A n : Identity(tree)[n] \in Carried(facts, Removed(old, f)) <=>
         \E o \in facts : o \in Removed(old, f) /\ SameKeys(nodes, tree, o, n)
  BY DEF Carried, SameKeys
<1>3. Restored(facts, Removed(old, f), able, tree) =
         (facts \intersect Surviving(old, f))
         \union {n \in able : Identity(tree)[n] \in Carried(facts, Removed(old, f))}
  BY <1>1 DEF Restored
<1> QED
  BY <1>2, <1>3 DEF After

\* FactsAgree and DialogShields of any tree and facts.
AgreeOn(t, h, o, p, w) ==
    /\ h \subseteq {n \in DOMAIN t : Tracks(t, n)}
    /\ o \union p \union w \subseteq {n \in DOMAIN t : Presents(t, n)}
    /\ p \subseteq h /\ p \intersect o = {} /\ w \subseteq o /\ o \subseteq h \union w
Behind(t, n) == Of(t, "dialog") # {} /\ Above(t)[n] \intersect Of(t, "dialog") = {}
ShieldOn(t, h, o, p, w) ==
    /\ \A n \in h \union p : ~ Behind(t, n)
    /\ \A n \in o \union w : Behind(t, n) => \E d \in Of(t, "dialog") : n \in Above(t)[d]

AfterHovered(old, f, tree) == After(hovered, old, f, tree, Tracking(f, tree))
AfterOpen(old, f, tree) == After(open, old, f, tree, Presenting(f, tree))
AfterPending(old, f, tree) == After(pending, old, f, tree, Presenting(f, tree))
AfterWithin(old, f, tree) == After(within, old, f, tree, Presenting(f, tree))

LEMMA PatchAgrees ==
    ASSUME NEW old, NEW f, NEW tree, PatchStep(old, f, tree)
    PROVE  AgreeOn(tree, AfterHovered(old, f, tree), AfterOpen(old, f, tree),
                   AfterPending(old, f, tree), AfterWithin(old, f, tree))
<1> DEFINE h == AfterHovered(old, f, tree)
           o == AfterOpen(old, f, tree)
           p == AfterPending(old, f, tree)
           w == AfterWithin(old, f, tree)
           Same(a, n) == SameKeys(nodes, tree, a, n)
           Had(facts, able, n) ==
              /\ n \notin Covered(tree)
              /\ \/ n \in facts /\ n \in Surviving(old, f)
                 \/ n \in able /\ \E a \in facts : a \in Removed(old, f) /\ Same(a, n)
<1>1. Successors(old, f, tree)
  BY SuccessorsAre
<1>2. /\ hovered \subseteq {n \in Mounted : Tracks(nodes, n)}
      /\ open \union pending \union within \subseteq {n \in Mounted : Presents(nodes, n)}
      /\ pending \subseteq hovered /\ pending \intersect open = {}
      /\ within \subseteq open /\ open \subseteq hovered \union within
  BY DEF PatchStep, InteractionInv, FactsAgree
<1>3. /\ \A n : n \in h <=> Had(hovered, Tracking(f, tree), n)
      /\ \A n : n \in o <=> Had(open, Presenting(f, tree), n)
      /\ \A n : n \in p <=> Had(pending, Presenting(f, tree), n)
      /\ \A n : n \in w <=> Had(within, Presenting(f, tree), n)
  <2>1. /\ hovered \in SUBSET Mounted /\ open \in SUBSET Mounted
        /\ pending \in SUBSET Mounted /\ within \in SUBSET Mounted
    BY <1>2
  <2>2. Tracking(f, tree) \in SUBSET Staged(f) /\ Presenting(f, tree) \in SUBSET Staged(f)
    BY DEF Tracking, Presenting
  <2>3. \A n : n \in h <=> Had(hovered, Tracking(f, tree), n)
    BY <2>1, <2>2, AfterIs DEF AfterHovered
  <2>4. \A n : n \in o <=> Had(open, Presenting(f, tree), n)
    BY <2>1, <2>2, AfterIs DEF AfterOpen
  <2>5. \A n : n \in p <=> Had(pending, Presenting(f, tree), n)
    BY <2>1, <2>2, AfterIs DEF AfterPending
  <2>6. \A n : n \in w <=> Had(within, Presenting(f, tree), n)
    BY <2>1, <2>2, AfterIs DEF AfterWithin
  <2> QED
    BY <2>3, <2>4, <2>5, <2>6
<1>4. /\ \A n \in Tracking(f, tree) : n \in Staged(f) /\ Tracks(tree, n) /\ n \in DOMAIN tree
      /\ \A n \in Presenting(f, tree) : /\ n \in Staged(f) /\ Presents(tree, n) /\ n \in DOMAIN tree
                                        /\ n \in Tracking(f, tree)
      /\ \A n \in Staged(f) : n \notin Surviving(old, f)
  BY <1>1 DEF Successors, Tracking, Presenting, Presents, Tracks
<1>5. \A a, b \in Mounted : \A n : Same(a, n) /\ Same(b, n) => a = b
  BY DEF SameKeys, PatchStep, InteractionInv, IdentitiesDiffer
<1>6. \A n \in Surviving(old, f) :
          /\ n \in DOMAIN tree
          /\ Tracks(nodes, n) => Tracks(tree, n)
          /\ Presents(nodes, n) => Presents(tree, n)
  <2>1. ASSUME NEW n \in Surviving(old, f), Presents(nodes, n) PROVE Presents(tree, n)
    BY <2>1, SurvivorPresents DEF PatchStep
  <2>2. ASSUME NEW n \in Surviving(old, f), Tracks(nodes, n) PROVE Tracks(tree, n)
    BY <1>1, <2>2 DEF Tracks, Successors, SameNode
  <2> QED
    BY <1>1, <2>1, <2>2 DEF Successors
<1> HIDE DEF h, o, p, w, Same
<1>7. h \subseteq {n \in DOMAIN tree : Tracks(tree, n)}
  BY <1>2, <1>3, <1>4, <1>6
<1>8. o \union p \union w \subseteq {n \in DOMAIN tree : Presents(tree, n)}
  BY <1>2, <1>3, <1>4, <1>6
<1>9. p \subseteq h
  BY <1>2, <1>3, <1>4
<1>10. p \intersect o = {}
  <2>1. ASSUME NEW n, n \in p, n \in o PROVE FALSE
    <3>1. Had(pending, Presenting(f, tree), n) /\ Had(open, Presenting(f, tree), n)
      BY <1>3, <2>1
    <3>2. CASE n \in Surviving(old, f)
      BY <1>2, <1>4, <3>1, <3>2
    <3>3. CASE n \notin Surviving(old, f)
      <4>1. PICK a \in pending : Same(a, n)
        BY <3>1, <3>3
      <4>2. PICK b \in open : Same(b, n)
        BY <3>1, <3>3
      <4>3. a = b
        BY <1>2, <1>5, <4>1, <4>2
      <4> QED
        BY <1>2, <4>3
    <3> QED
      BY <3>2, <3>3
  <2> QED
    BY <2>1
<1>11. w \subseteq o
  BY <1>2, <1>3, <1>4
<1>12. o \subseteq h \union w
  BY <1>2, <1>3, <1>4
<1> QED
  BY <1>7, <1>8, <1>9, <1>10, <1>11, <1>12 DEF AgreeOn, h, o, p, w

\* A node that the patch's dialogs do not cover is behind one only if the dialog
\* was there before.
LEMMA OldDialog ==
    ASSUME NEW old, NEW f, NEW tree, PatchStep(old, f, tree),
           NEW n \in DOMAIN tree, n \notin Covered(tree), Behind(tree, n)
    PROVE  Of(tree, "dialog") = Dialog /\ Dialog # {} /\ Dialog \subseteq Surviving(old, f)
<1>1. Of(tree, "dialog") = Dialog /\ Dialog # {}
  BY DEF Covered, Behind
<1>2. Dialog \subseteq Mounted /\ Dialog \subseteq DOMAIN tree
  BY <1>1 DEF Dialog, Of, Mounted
<1>3. Successors(old, f, tree)
  BY SuccessorsAre
<1> QED
  BY <1>1, <1>2, <1>3 DEF Successors

LEMMA PatchShields ==
    ASSUME NEW old, NEW f, NEW tree, PatchStep(old, f, tree)
    PROVE  ShieldOn(tree, AfterHovered(old, f, tree), AfterOpen(old, f, tree),
                    AfterPending(old, f, tree), AfterWithin(old, f, tree))
<1>1. /\ Successors(old, f, tree) /\ Context(old, f, tree) /\ Tree(tree) /\ Tree(nodes)
      /\ CutWell(old, f)
  BY SuccessorsAre, PatchedTree, CutIs DEF PatchStep, Context
<1>2. /\ hovered \subseteq Mounted /\ open \subseteq Mounted
      /\ pending \subseteq Mounted /\ within \subseteq Mounted
  BY DEF PatchStep, InteractionInv, FactsAgree
<1>3. /\ \A n \in hovered \union pending : ~ BehindDialog(n)
      /\ \A n \in open \union within : BehindDialog(n) => \E d \in Dialog : n \in Above(nodes)[d]
  BY DEF PatchStep, InteractionInv, DialogShields
<1>4. \A n \in Surviving(old, f) : \A d \in Surviving(old, f) :
          d \in Above(nodes)[n] => d \in Above(tree)[n]
  BY <1>1, SurvivorsAbove
<1>5. ASSUME NEW n \in Staged(f), NEW o \in Removed(old, f), NEW d \in Surviving(old, f),
             d \in Above(nodes)[o]
      PROVE  d \in Above(tree)[n]
  <2>1. Root(old) # NoNode /\ d \in Above(nodes)[Root(old)]
    BY <1>1, <1>5, AboveRemoved
  <2>2. n \in Grafted(f)
    BY <1>1 DEF Context, PlacedWell, Grafted
  <2> QED
    BY <1>1, <2>1, <2>2, AboveKept
<1>6. ASSUME NEW n \in Staged(f), NEW o \in Removed(old, f), NEW d \in Surviving(old, f),
             SameKeys(nodes, tree, o, n), o \in Above(nodes)[d]
      PROVE  n \in Above(tree)[d]
  <2>1. PICK x \in Frontier(f) : x \in Above(nodes)[d] /\ o \in Above(nodes)[x]
    BY <1>1, <1>6, AboveRemoved
  <2>2. x \in Surviving(old, f) /\ x \in DOMAIN nodes /\ x \in DOMAIN tree /\ d \in DOMAIN tree
    BY <1>1, <2>1 DEF CutWell, Successors, Mounted
  <2>3. x \in Above(tree)[d]
    BY <1>4, <2>1, <2>2
  <2>4. SameKeys(nodes, tree, x, x)
    BY <1>1, <2>2 DEF Successors
  <2>5. PICK m \in Above(tree)[x] : SameKeys(nodes, tree, o, m)
    BY <1>1, <2>1, <2>2, <2>4, SamePath
  <2>6. m \in DOMAIN tree /\ Above(tree)[x] \subseteq Above(tree)[d] /\ n \in DOMAIN tree
    BY <1>1, <2>2, <2>3, <2>5, AboveOrder DEF Successors
  <2>7. Identity(tree)[m] = Identity(tree)[n]
    BY <1>6, <2>5 DEF SameKeys
  <2>8. m = n
    BY <2>6, <2>7 DEF PatchStep, Lawful
  <2> QED
    BY <2>5, <2>6, <2>8
<1>7. Tracking(f, tree) \in SUBSET Staged(f) /\ Presenting(f, tree) \in SUBSET Staged(f)
  BY DEF Tracking, Presenting
<1>8. ASSUME NEW facts \in SUBSET Mounted, NEW able \in SUBSET Staged(f),
             NEW n \in After(facts, old, f, tree, able), Behind(tree, n)
      PROVE  \E o \in facts : /\ BehindDialog(o)
                              /\ \A d \in Dialog : o \in Above(nodes)[d] => n \in Above(tree)[d]
                              /\ Of(tree, "dialog") = Dialog
  <2>1. /\ n \notin Covered(tree)
        /\ \/ n \in facts /\ n \in Surviving(old, f)
           \/ n \in able /\ \E o \in facts : o \in Removed(old, f)
                                            /\ SameKeys(nodes, tree, o, n)
    BY AfterIs
  <2>2. n \in DOMAIN tree
    BY <1>1, <2>1 DEF Successors
  <2>3. Of(tree, "dialog") = Dialog /\ Dialog # {} /\ Dialog \subseteq Surviving(old, f)
    BY <1>8, <2>1, <2>2, OldDialog
  <2>4. \A d \in Dialog : d \notin Above(tree)[n]
    BY <1>8, <2>3 DEF Behind
  <2>5. CASE n \in facts /\ n \in Surviving(old, f)
    <3>1. BehindDialog(n)
      BY <1>4, <2>3, <2>4, <2>5 DEF BehindDialog
    <3> QED
      BY <1>4, <2>3, <2>5, <3>1
  <2>6. CASE n \in able /\ \E o \in facts : o \in Removed(old, f) /\ SameKeys(nodes, tree, o, n)
    <3>1. PICK o \in facts : o \in Removed(old, f) /\ SameKeys(nodes, tree, o, n)
      BY <2>6
    <3>2. n \in Staged(f)
      BY <2>6
    <3>3. BehindDialog(o)
      BY <1>5, <2>3, <2>4, <3>1, <3>2 DEF BehindDialog
    <3>4. \A d \in Dialog : o \in Above(nodes)[d] => n \in Above(tree)[d]
      BY <1>6, <2>3, <3>1, <3>2
    <3> QED
      BY <2>3, <3>1, <3>3, <3>4
  <2> QED
    BY <2>1, <2>5, <2>6
<1>9. \A n \in AfterHovered(old, f, tree) \union AfterPending(old, f, tree) : ~ Behind(tree, n)
  BY <1>2, <1>3, <1>7, <1>8 DEF AfterHovered, AfterPending
<1>10. \A n \in AfterOpen(old, f, tree) \union AfterWithin(old, f, tree) :
          Behind(tree, n) => \E d \in Of(tree, "dialog") : n \in Above(tree)[d]
  <2>1. ASSUME NEW facts \in {open, within},
               NEW n \in After(facts, old, f, tree, Presenting(f, tree)), Behind(tree, n)
        PROVE  \E d \in Of(tree, "dialog") : n \in Above(tree)[d]
    <3>1. facts \in SUBSET Mounted /\ facts \subseteq open \union within
      BY <1>2, <2>1
    <3>2. PICK o \in facts : /\ BehindDialog(o)
                             /\ \A d \in Dialog : o \in Above(nodes)[d] => n \in Above(tree)[d]
                             /\ Of(tree, "dialog") = Dialog
      BY <1>7, <1>8, <2>1, <3>1
    <3> QED
      BY <1>3, <3>1, <3>2
  <2> QED
    BY <2>1 DEF AfterOpen, AfterWithin
<1> QED
  BY <1>9, <1>10 DEF ShieldOn

\* What is kept with a value, after a patch.
Regions(f, tree) == {n \in Staged(f) : tree[n].kind = "popover" /\ tree[n].serial # 0}
SerialsAfter(old, f, tree) ==
    [n \in (DOMAIN serials \ Removed(old, f)) \union Regions(f, tree) |->
        IF n \in Staged(f) THEN tree[n].serial ELSE serials[n]]
SizesAfter(old, f, tree) == RestoredValue(sizes, Removed(old, f), Staged(f), tree)

\* What became of the serials and the sizes.
ValuesWell(old, f, tree) ==
    /\ DOMAIN SerialsAfter(old, f, tree) = {n \in Of(tree, "popover") : tree[n].serial # 0}
    /\ \A n \in DOMAIN SerialsAfter(old, f, tree) :
          SerialsAfter(old, f, tree)[n] = tree[n].serial
    /\ \A n \in DOMAIN tree :
          LET same == {o \in Mounted : SameKeys(nodes, tree, o, n)}
          IN  /\ n \in DOMAIN SizesAfter(old, f, tree) <=> same \intersect DOMAIN sizes # {}
              /\ \A o \in same \intersect DOMAIN sizes :
                    SizesAfter(old, f, tree)[n] = sizes[o]
    /\ DOMAIN SizesAfter(old, f, tree) \subseteq Of(tree, "canvas")

LEMMA PatchValues ==
    ASSUME NEW old, NEW f, NEW tree, PatchStep(old, f, tree)
    PROVE  ValuesWell(old, f, tree)
<1>1. Successors(old, f, tree)
  BY SuccessorsAre
<1>2. /\ DOMAIN serials = {n \in Of(nodes, "popover") : nodes[n].serial # 0}
      /\ \A n \in DOMAIN serials : serials[n] = nodes[n].serial
      /\ DOMAIN sizes \subseteq Of(nodes, "canvas")
  BY DEF PatchStep, InteractionInv, FactsAgree, SerialsMatch
<1>3. \A n \in Surviving(old, f) :
          /\ n \in Mounted /\ n \in DOMAIN tree /\ n \notin Removed(old, f) /\ n \notin Staged(f)
          /\ tree[n].kind = nodes[n].kind /\ tree[n].serial = nodes[n].serial
  BY <1>1 DEF Successors, SameNode
<1>4. \A n \in Staged(f) : n \in DOMAIN tree /\ n \notin Mounted
  BY <1>1 DEF Successors
<1>5. Mounted = Surviving(old, f) \union Removed(old, f)
  BY DEF Surviving, Removed
<1>6. DOMAIN tree = Surviving(old, f) \union Staged(f)
  BY <1>1 DEF Successors
<1> DEFINE ser == SerialsAfter(old, f, tree)
<1>7. DOMAIN ser = (DOMAIN serials \ Removed(old, f)) \union Regions(f, tree)
  BY DEF SerialsAfter
<1>8. DOMAIN ser = {n \in Of(tree, "popover") : tree[n].serial # 0}
  <2>1. ASSUME NEW n \in DOMAIN ser PROVE n \in Of(tree, "popover") /\ tree[n].serial # 0
    <3>1. CASE n \in DOMAIN serials /\ n \notin Removed(old, f)
      BY <1>2, <1>3, <1>5, <3>1 DEF Of, Mounted
    <3>2. CASE n \in Regions(f, tree)
      BY <1>4, <3>2 DEF Of, Regions
    <3> QED
      BY <1>7, <2>1, <3>1, <3>2
  <2>2. ASSUME NEW n \in Of(tree, "popover"), tree[n].serial # 0 PROVE n \in DOMAIN ser
    <3>1. n \in DOMAIN tree /\ tree[n].kind = "popover"
      BY DEF Of
    <3>2. CASE n \in Surviving(old, f)
      BY <1>2, <1>3, <1>7, <2>2, <3>1, <3>2 DEF Of, Mounted
    <3>3. CASE n \in Staged(f)
      BY <1>7, <2>2, <3>1, <3>3 DEF Regions
    <3> QED
      BY <1>6, <3>1, <3>2, <3>3
  <2> HIDE DEF ser
  <2> QED
    BY <2>1, <2>2
<1>9. ASSUME NEW n \in DOMAIN ser PROVE ser[n] = tree[n].serial
  <2>1. ser[n] = IF n \in Staged(f) THEN tree[n].serial ELSE serials[n]
    BY <1>7, <1>9 DEF SerialsAfter
  <2>2. n \notin Staged(f) => n \in DOMAIN serials /\ n \notin Removed(old, f)
    BY <1>7, <1>9 DEF Regions
  <2>3. n \notin Staged(f) => n \in Surviving(old, f)
    BY <1>2, <1>5, <2>2 DEF Of, Mounted
  <2> QED
    BY <1>2, <1>3, <2>1, <2>2, <2>3
<1> DEFINE siz == SizesAfter(old, f, tree)
           had == DOMAIN sizes \intersect Removed(old, f)
           carried(n) == {o \in had : Identity(nodes)[o] = Identity(tree)[n]}
<1>10. siz = [n \in (DOMAIN sizes \ Removed(old, f)) \union {s \in Staged(f) : carried(s) # {}} |->
                 IF n \in Staged(f) THEN sizes[CHOOSE o \in carried(n) : TRUE] ELSE sizes[n]]
  BY DEF SizesAfter, RestoredValue
<1> HIDE DEF siz
<1>11. ASSUME NEW n \in DOMAIN tree
       PROVE  LET same == {o \in Mounted : SameKeys(nodes, tree, o, n)}
              IN  /\ n \in DOMAIN siz <=> same \intersect DOMAIN sizes # {}
                  /\ \A o \in same \intersect DOMAIN sizes : siz[n] = sizes[o]
  <2> DEFINE same == {o \in Mounted : SameKeys(nodes, tree, o, n)}
  <2>1. CASE n \in Surviving(old, f)
    <3>1. same = {n}
      BY <1>1, <1>3, <2>1 DEF Successors
    <3>2. n \in DOMAIN siz <=> n \in DOMAIN sizes
      BY <1>3, <1>10, <2>1
    <3>3. n \in DOMAIN sizes => siz[n] = sizes[n]
      BY <1>3, <1>10, <2>1
    <3> HIDE DEF same
    <3> QED
      BY <3>1, <3>2, <3>3 DEF same
  <2>2. CASE n \in Staged(f)
    <3>1. carried(n) = same \intersect DOMAIN sizes
      <4>1. \A o \in same : o \in Removed(old, f) /\ Identity(nodes)[o] = Identity(tree)[n]
        BY <1>1, <2>2 DEF Successors, SameKeys
      <4>2. \A o \in carried(n) : o \in same /\ o \in DOMAIN sizes
        BY <1>5 DEF SameKeys
      <4> QED
        BY <4>1, <4>2
    <3>2. \A a, b \in same : a = b
      BY DEF PatchStep, InteractionInv, IdentitiesDiffer, SameKeys
    <3>3. n \notin DOMAIN sizes
      BY <1>2, <1>4, <2>2 DEF Of, Mounted
    <3> HIDE DEF same, carried
    <3>4. n \in DOMAIN siz <=> carried(n) # {}
      BY <1>10, <2>2, <3>3
    <3>5. carried(n) # {} => siz[n] = sizes[CHOOSE o \in carried(n) : TRUE]
      BY <1>10, <2>2, <3>4
    <3>6. ASSUME NEW o \in same \intersect DOMAIN sizes PROVE siz[n] = sizes[o]
      <4>1. o \in carried(n) /\ carried(n) # {}
        BY <3>1, <3>6
      <4>2. (CHOOSE a \in carried(n) : TRUE) \in carried(n)
        BY <4>1
      <4>3. (CHOOSE a \in carried(n) : TRUE) = o
        BY <3>1, <3>2, <4>1, <4>2
      <4> QED
        BY <3>5, <4>1, <4>3
    <3> QED
      BY <3>1, <3>4, <3>6 DEF same
  <2> QED
    BY <1>6, <2>1, <2>2
<1>12. ASSUME NEW n \in DOMAIN siz PROVE n \in Of(tree, "canvas")
  <2>1. n \in DOMAIN tree
    <3>1. n \in DOMAIN sizes /\ n \notin Removed(old, f) => n \in Surviving(old, f)
      BY <1>2, <1>5 DEF Of, Mounted
    <3>2. n \in (DOMAIN sizes \ Removed(old, f)) \union {s \in Staged(f) : carried(s) # {}}
      BY <1>10, <1>12
    <3> QED
      BY <1>6, <3>1, <3>2
  <2>2. PICK o \in Mounted : SameKeys(nodes, tree, o, n) /\ o \in DOMAIN sizes
    BY <1>11, <1>12, <2>1
  <2>3. tree[n].kind = "canvas"
    BY <1>1, <1>2, <2>1, <2>2 DEF Successors, Of
  <2> QED
    BY <2>1, <2>3 DEF Of
<1> QED
  BY <1>8, <1>9, <1>11, <1>12 DEF siz, ValuesWell

\* A step that is a patch.
PatchEffect(old, f, tree) ==
    /\ PatchStep(old, f, tree) /\ nodes' = tree
    /\ hovered' = AfterHovered(old, f, tree) /\ open' = AfterOpen(old, f, tree)
    /\ pending' = AfterPending(old, f, tree) /\ within' = AfterWithin(old, f, tree)
    /\ requests' = requests \union Asks(Removed(old, f), Staged(f), tree)
    /\ serials' = SerialsAfter(old, f, tree) /\ sizes' = SizesAfter(old, f, tree)

LEMMA PatchDoes ==
    ASSUME InteractionInv, NEW old, NEW f \in Fragments, Patch(old, f)
    PROVE  PatchEffect(old, f, Patched(old, f))
<1> DEFINE tree == Patched(old, f)
<1>1. Accepted(old, f)
  BY DEF Patch, Accepted
<1>2. /\ Lawful(tree, Staged(f)) /\ nodes' = tree
      /\ hovered' = Restored(hovered, Removed(old, f), {n \in Staged(f) : Tracks(tree, n)}, tree)
                    \ Covered(tree)
      /\ open' = Restored(open, Removed(old, f), {n \in Staged(f) : Presents(tree, n)}, tree)
                 \ Covered(tree)
      /\ pending' = Restored(pending, Removed(old, f), {n \in Staged(f) : Presents(tree, n)}, tree)
                    \ Covered(tree)
      /\ within' = Restored(within, Removed(old, f), {n \in Staged(f) : Presents(tree, n)}, tree)
                   \ Covered(tree)
      /\ requests' = requests \union Asks(Removed(old, f), Staged(f), tree)
      /\ serials' = [n \in (DOMAIN serials \ Removed(old, f)) \union
                           {n \in Staged(f) : tree[n].kind = "popover" /\ tree[n].serial # 0} |->
                        IF n \in Staged(f) THEN tree[n].serial ELSE serials[n]]
      /\ sizes' = RestoredValue(sizes, Removed(old, f), Staged(f), tree)
  <2> HIDE DEF tree
  <2>1. tree = Patched(old, f)
    BY DEF tree
  <2> QED
    BY <2>1 DEF Patch
<1>3. Tree(nodes) /\ NamesDiffer
  BY DEF InteractionInv
<1>4. Context(old, f, tree)
  BY <1>1, <1>3, PlacedIs, PatchedIs DEF Context
<1> HIDE DEF tree
<1>5. PatchStep(old, f, tree)
  BY <1>2, <1>4 DEF PatchStep
<1>6. PatchEffect(old, f, tree)
  BY <1>2, <1>5 DEF PatchEffect, AfterHovered, AfterOpen, AfterPending, AfterWithin, After,
       Tracking, Presenting, SerialsAfter, Regions, SizesAfter
<1> QED
  BY <1>6 DEF tree

LEMMA PatchKeeps ==
    ASSUME InteractionInv, NEW old, NEW f \in Fragments, Patch(old, f)
    PROVE  InteractionInv'
<1>1. PICK tree : PatchEffect(old, f, tree)
  BY PatchDoes
<1>2. PatchStep(old, f, tree) /\ nodes' = tree
  BY <1>1 DEF PatchEffect
<1>3. Tree(tree)
  BY <1>2, PatchedTree DEF PatchStep
<1>4. /\ \A a, b \in Of(tree, "boundary") : tree[a].name = tree[b].name => a = b
      /\ \A a, b \in DOMAIN tree : Identity(tree)[a] = Identity(tree)[b] => a = b
  BY <1>2 DEF PatchStep, Lawful
<1>5. AgreeOn(tree, hovered', open', pending', within')
  <2>1. AgreeOn(tree, AfterHovered(old, f, tree), AfterOpen(old, f, tree),
                AfterPending(old, f, tree), AfterWithin(old, f, tree))
    BY <1>2, PatchAgrees
  <2> QED
    BY <1>1, <2>1 DEF PatchEffect
<1>6. ShieldOn(tree, hovered', open', pending', within')
  <2>1. ShieldOn(tree, AfterHovered(old, f, tree), AfterOpen(old, f, tree),
                 AfterPending(old, f, tree), AfterWithin(old, f, tree))
    BY <1>2, PatchShields
  <2> QED
    BY <1>1, <2>1 DEF PatchEffect
<1>7. /\ DOMAIN serials' = {n \in Of(tree, "popover") : tree[n].serial # 0}
      /\ \A n \in DOMAIN serials' : serials'[n] = tree[n].serial
      /\ DOMAIN sizes' \subseteq Of(tree, "canvas")
  <2>1. serials' = SerialsAfter(old, f, tree) /\ sizes' = SizesAfter(old, f, tree)
    BY <1>1 DEF PatchEffect
  <2>2. /\ DOMAIN SerialsAfter(old, f, tree) = {n \in Of(tree, "popover") : tree[n].serial # 0}
        /\ \A n \in DOMAIN SerialsAfter(old, f, tree) :
              SerialsAfter(old, f, tree)[n] = tree[n].serial
        /\ DOMAIN SizesAfter(old, f, tree) \subseteq Of(tree, "canvas")
    <3>1. ValuesWell(old, f, tree)
      BY <1>2, PatchValues
    <3> QED
      BY <3>1 DEF ValuesWell
  <2> QED
    BY <2>1, <2>2
<1>8. Tree(nodes)' /\ NamesDiffer' /\ IdentitiesDiffer' /\ SerialsMatch'
  BY <1>2, <1>3, <1>4, <1>7 DEF NamesDiffer, IdentitiesDiffer, SerialsMatch, SameKeys, Mounted
<1>9. FactsAgree'
  BY <1>2, <1>5, <1>7 DEF FactsAgree, AgreeOn, Mounted
<1>10. DialogShields'
  BY <1>2, <1>6 DEF DialogShields, ShieldOn, Behind, BehindDialog, Dialog
<1> QED
  BY <1>8, <1>9, <1>10 DEF InteractionInv

-----------------------------------------------------------------------------
(* The other steps leave the tree alone.                                   *)

\* What such a step has to show.
LEMMA FactStep ==
    ASSUME InteractionInv, UNCHANGED <<nodes, serials>>,
           AgreeOn(nodes, hovered', open', pending', within'),
           ShieldOn(nodes, hovered', open', pending', within'),
           DOMAIN sizes' \subseteq Of(nodes, "canvas")
    PROVE  InteractionInv'
<1>1. nodes' = nodes /\ serials' = serials
  OBVIOUS
<1>2. Tree(nodes)' /\ NamesDiffer' /\ IdentitiesDiffer' /\ SerialsMatch'
  BY <1>1 DEF InteractionInv, NamesDiffer, IdentitiesDiffer, SerialsMatch, Mounted
<1>3. FactsAgree'
  BY <1>1 DEF InteractionInv, FactsAgree, AgreeOn, Mounted
<1>4. DialogShields'
  BY <1>1 DEF DialogShields, ShieldOn, Behind, BehindDialog, Dialog
<1> QED
  BY <1>2, <1>3, <1>4 DEF InteractionInv

LEMMA FactsNow ==
    ASSUME InteractionInv
    PROVE  /\ AgreeOn(nodes, hovered, open, pending, within)
           /\ ShieldOn(nodes, hovered, open, pending, within)
           /\ DOMAIN sizes \subseteq Of(nodes, "canvas")
           /\ \A n : BehindDialog(n) <=> Behind(nodes, n)
<1>1. \A n : BehindDialog(n) <=> Behind(nodes, n)
  BY DEF BehindDialog, Behind, Dialog
<1> QED
  BY <1>1 DEF InteractionInv, FactsAgree, DialogShields, AgreeOn, ShieldOn, Mounted, Dialog

\* The pointer.
LEMMA PointerKeeps ==
    ASSUME InteractionInv, NEW n, NEW b \in BOOLEAN, Hover(n, b) \/ Elapse(n)
    PROVE  InteractionInv'
<1>1. /\ AgreeOn(nodes, hovered, open, pending, within)
      /\ ShieldOn(nodes, hovered, open, pending, within)
      /\ DOMAIN sizes \subseteq Of(nodes, "canvas")
      /\ \A m : BehindDialog(m) <=> Behind(nodes, m)
  BY FactsNow
<1>2. UNCHANGED <<nodes, serials, sizes, within>>
  BY DEF Hover, Elapse
<1>3. ASSUME Hover(n, b) PROVE /\ AgreeOn(nodes, hovered', open', pending', within')
                               /\ ShieldOn(nodes, hovered', open', pending', within')
  <2>1. /\ n \in DOMAIN nodes /\ ~ Behind(nodes, n) /\ Tracks(nodes, n)
        /\ hovered' = IF b THEN hovered \union {n} ELSE hovered \ {n}
        /\ PopoverEdge(n, b) /\ (n \in hovered) # b
    BY <1>1, <1>3 DEF Hover, Mounted
  <2>2. CASE ~ Presents(nodes, n)
    <3>1. n \notin open \union pending \union within
      BY <1>1, <2>2 DEF AgreeOn
    <3> QED
      BY <1>1, <1>2, <2>1, <2>2, <3>1 DEF AgreeOn, ShieldOn, PopoverEdge
  <2>3. CASE Presents(nodes, n) /\ b
    BY <1>1, <1>2, <2>1, <2>3 DEF AgreeOn, ShieldOn, PopoverEdge, OpenPopover
  <2>4. CASE Presents(nodes, n) /\ ~ b
    BY <1>1, <1>2, <2>1, <2>4 DEF AgreeOn, ShieldOn, PopoverEdge, ClosePopover
  <2> QED
    BY <2>2, <2>3, <2>4
<1>4. ASSUME Elapse(n) PROVE /\ AgreeOn(nodes, hovered', open', pending', within')
                             /\ ShieldOn(nodes, hovered', open', pending', within')
  BY <1>1, <1>4 DEF Elapse, AgreeOn, ShieldOn, OpenPopover
<1>5. DOMAIN sizes' \subseteq Of(nodes, "canvas")
  BY <1>1, <1>2
<1>6. UNCHANGED <<nodes, serials>>
  BY <1>2
<1> QED
  BY <1>3, <1>4, <1>5, <1>6, FactStep

\* The window's focus, one popover at a time, and Escape.
LEMMA WindowKeeps ==
    ASSUME InteractionInv, NEW n, NEW b \in BOOLEAN, PopoverFocus(n, b) \/ Dismiss
    PROVE  InteractionInv'
<1>1. /\ AgreeOn(nodes, hovered, open, pending, within)
      /\ ShieldOn(nodes, hovered, open, pending, within)
      /\ DOMAIN sizes \subseteq Of(nodes, "canvas")
      /\ \A m : BehindDialog(m) <=> Behind(nodes, m)
  BY FactsNow
<1>2. UNCHANGED <<nodes, serials, sizes, hovered>>
  BY DEF PopoverFocus, Dismiss
<1>3. ASSUME PopoverFocus(n, b) PROVE /\ AgreeOn(nodes, hovered', open', pending', within')
                                      /\ ShieldOn(nodes, hovered', open', pending', within')
  <2>1. n \in DOMAIN nodes /\ Presents(nodes, n)
    BY <1>3 DEF PopoverFocus, Mounted
  <2>2. CASE b
    <3>1. /\ ~ Behind(nodes, n) /\ within' = within \union {n}
          /\ open' = open \union {n} /\ pending' = pending \ {n}
      BY <1>1, <1>3, <2>2 DEF PopoverFocus, OpenPopover
    <3> QED
      BY <1>1, <1>2, <2>1, <3>1 DEF AgreeOn, ShieldOn
  <2>3. CASE ~ b
    <3>1. /\ within' = within \ {n}
          /\ IF n \in hovered THEN UNCHANGED <<open, pending>>
             ELSE open' = open \ {n} /\ pending' = pending \ {n}
      BY <1>3, <2>3 DEF PopoverFocus, ClosePopover
    <3> QED
      BY <1>1, <1>2, <2>1, <3>1 DEF AgreeOn, ShieldOn
  <2> QED
    BY <2>2, <2>3
<1>4. ASSUME Dismiss PROVE /\ AgreeOn(nodes, hovered', open', pending', within')
                           /\ ShieldOn(nodes, hovered', open', pending', within')
  BY <1>1, <1>2, <1>4 DEF Dismiss, AgreeOn, ShieldOn
<1>5. DOMAIN sizes' \subseteq Of(nodes, "canvas")
  BY <1>1, <1>2
<1>6. UNCHANGED <<nodes, serials>>
  BY <1>2
<1> QED
  BY <1>3, <1>4, <1>5, <1>6, FactStep

\* The runner's focus: every popover around a control that is not behind a dialog
\* is, if it is behind one, around the dialog.
LEMMA FocusMovedKeeps ==
    ASSUME InteractionInv, NEW c \in Mounted, ~ BehindDialog(c), FocusMoved(c),
           UNCHANGED <<nodes, serials, sizes, hovered>>
    PROVE  InteractionInv'
<1>1. /\ AgreeOn(nodes, hovered, open, pending, within)
      /\ ShieldOn(nodes, hovered, open, pending, within)
      /\ DOMAIN sizes \subseteq Of(nodes, "canvas")
      /\ \A m : BehindDialog(m) <=> Behind(nodes, m)
  BY FactsNow
<1> DEFINE containing == {p \in Above(nodes)[c] : Presents(nodes, p)}
           closed == (within \ containing) \ hovered
           entered == containing \ within
<1>2. /\ within' = containing
      /\ open' = (open \ closed) \union entered
      /\ pending' = pending \ (closed \union entered)
  BY DEF FocusMoved
<1>3. Tree(nodes) /\ c \in DOMAIN nodes
  BY DEF InteractionInv, Mounted
<1>4. containing \subseteq {n \in DOMAIN nodes : Presents(nodes, n)}
  BY <1>3, AboveIs
<1>5. ASSUME NEW p \in containing, Behind(nodes, p)
      PROVE  \E d \in Of(nodes, "dialog") : p \in Above(nodes)[d]
  <2>1. Of(nodes, "dialog") # {} /\ Above(nodes)[p] \intersect Of(nodes, "dialog") = {}
    BY <1>5 DEF Behind
  <2>2. ~ Behind(nodes, c)
    BY <1>1
  <2>3. PICK d \in Of(nodes, "dialog") : d \in Above(nodes)[c]
    BY <2>1, <2>2 DEF Behind
  <2>4. p \in Above(nodes)[d] \/ d \in Above(nodes)[p]
    BY <1>3, <2>3, AboveOrder
  <2> QED
    BY <2>1, <2>3, <2>4
<1> HIDE DEF containing
<1>6. AgreeOn(nodes, hovered', open', pending', within')
  <2>1. hovered' = hovered
    OBVIOUS
  <2>2. open' \subseteq open \union containing /\ pending' \subseteq pending
    BY <1>2
  <2>3. open' \union pending' \union within' \subseteq {n \in DOMAIN nodes : Presents(nodes, n)}
    BY <1>1, <1>2, <1>4, <2>2 DEF AgreeOn
  <2>4. pending' \subseteq hovered /\ pending' \intersect open' = {}
    BY <1>1, <1>2 DEF AgreeOn
  <2>5. within' \subseteq open' /\ open' \subseteq hovered \union within'
    BY <1>1, <1>2 DEF AgreeOn
  <2> QED
    BY <1>1, <2>1, <2>3, <2>4, <2>5 DEF AgreeOn
<1>7. ShieldOn(nodes, hovered', open', pending', within')
  <2>1. hovered' = hovered /\ pending' \subseteq pending
        /\ open' \subseteq open \union containing /\ within' = containing
    BY <1>2
  <2> QED
    BY <1>1, <1>5, <2>1 DEF ShieldOn
<1>8. DOMAIN sizes' \subseteq Of(nodes, "canvas")
  BY <1>1
<1>9. UNCHANGED <<nodes, serials>>
  OBVIOUS
<1> QED
  BY <1>6, <1>7, <1>8, <1>9, FactStep

LEMMA RunnerKeeps ==
    ASSUME InteractionInv, NEW c, Focus(c) \/ TakeFocus
    PROVE  InteractionInv'
<1>1. UNCHANGED <<nodes, serials, sizes, hovered>>
  BY DEF Focus, TakeFocus
<1>2. ASSUME Focus(c) PROVE InteractionInv'
  BY <1>1, <1>2, FocusMovedKeeps DEF Focus
<1>3. ASSUME TakeFocus PROVE InteractionInv'
  <2> DEFINE taking == UNION {Earliest(nodes, Asked(r)) : r \in Latest(nodes, LiveRequests)}
  <2>1. IF taking = {} THEN UNCHANGED popovers ELSE \E x \in taking : FocusMoved(x)
    BY <1>3 DEF TakeFocus
  <2>2. CASE taking = {}
    <3>1. UNCHANGED <<open, pending, within>>
      BY <2>1, <2>2 DEF popovers
    <3>2. /\ AgreeOn(nodes, hovered, open, pending, within)
          /\ ShieldOn(nodes, hovered, open, pending, within)
          /\ DOMAIN sizes \subseteq Of(nodes, "canvas")
      BY FactsNow
    <3>3. /\ AgreeOn(nodes, hovered', open', pending', within')
          /\ ShieldOn(nodes, hovered', open', pending', within')
          /\ DOMAIN sizes' \subseteq Of(nodes, "canvas")
      BY <1>1, <3>1, <3>2
    <3>4. UNCHANGED <<nodes, serials>>
      BY <1>1
    <3> QED
      BY <3>3, <3>4, FactStep
  <2>3. CASE taking # {}
    <3>1. PICK x \in taking : FocusMoved(x)
      BY <2>1, <2>3
    <3>2. PICK r \in Latest(nodes, LiveRequests) : x \in Earliest(nodes, Asked(r))
      BY <3>1
    <3>3. r \in LiveRequests /\ x \in Asked(r)
      BY <3>2 DEF Latest, Earliest
    <3>4. ~ BehindDialog(r) /\ x \in Mounted /\ r \in Above(nodes)[x]
      BY <3>3 DEF LiveRequests, Asked
    <3>5. Above(nodes)[r] \subseteq Above(nodes)[x]
      BY <3>4, AboveOrder DEF InteractionInv, Mounted
    <3>6. ~ BehindDialog(x)
      BY <3>4, <3>5 DEF BehindDialog
    <3> QED
      BY <1>1, <3>1, <3>4, <3>6, FocusMovedKeeps
  <2> QED
    BY <2>2, <2>3
<1> QED
  BY <1>2, <1>3

LEMMA SizeKeeps ==
    ASSUME InteractionInv, NEW n, NEW s, ReportSize(n, s)
    PROVE  InteractionInv'
<1>1. UNCHANGED <<nodes, serials, hovered, open, pending, within>>
  BY DEF ReportSize, popovers
<1>2. /\ AgreeOn(nodes, hovered, open, pending, within)
      /\ ShieldOn(nodes, hovered, open, pending, within)
      /\ DOMAIN sizes \subseteq Of(nodes, "canvas")
  BY FactsNow
<1>3. /\ AgreeOn(nodes, hovered', open', pending', within')
      /\ ShieldOn(nodes, hovered', open', pending', within')
  BY <1>1, <1>2
<1>4. DOMAIN sizes' \subseteq Of(nodes, "canvas")
  BY <1>2 DEF ReportSize, Of, Mounted
<1>5. UNCHANGED <<nodes, serials>>
  BY <1>1
<1> QED
  BY <1>3, <1>4, <1>5, FactStep

-----------------------------------------------------------------------------
(* The theorems.                                                           *)

LEMMA InitHolds ==
    ASSUME InteractionInit
    PROVE  InteractionInv
<1>1. /\ DOMAIN nodes = {} /\ nodes = [n \in {} |-> {}] /\ DOMAIN serials = {} /\ DOMAIN sizes = {}
      /\ hovered = {} /\ open = {} /\ pending = {} /\ within = {}
  BY DEF InteractionInit
<1>2. Tree(nodes)
  <2>1. [n \in {} |-> 0] \in [DOMAIN nodes -> 0 .. 0] /\ Ranked(nodes, [n \in {} |-> 0])
    BY <1>1 DEF Ranked
  <2>2. nodes = [n \in DOMAIN nodes |-> nodes[n]]
    BY <1>1
  <2> QED
    BY <1>1, <2>1, <2>2 DEF Tree
<1>3. NamesDiffer /\ IdentitiesDiffer /\ SerialsMatch
  BY <1>1 DEF NamesDiffer, IdentitiesDiffer, SerialsMatch, Of, Mounted
<1>4. FactsAgree /\ DialogShields
  BY <1>1 DEF FactsAgree, DialogShields, Of
<1> QED
  BY <1>2, <1>3, <1>4 DEF InteractionInv

LEMMA NextKeeps ==
    ASSUME InteractionInv, [InteractionNext]_interactionVars
    PROVE  InteractionInv'
<1>1. ASSUME NEW old \in NodeId \union {NoNode}, NEW f \in Fragments, Patch(old, f)
      PROVE  InteractionInv'
  BY <1>1, PatchKeeps
<1>2. ASSUME NEW n \in NodeId, NEW b \in BOOLEAN, Hover(n, b) PROVE InteractionInv'
  BY <1>2, PointerKeeps
<1>3. ASSUME NEW n \in NodeId, NEW b \in BOOLEAN, PopoverFocus(n, b) PROVE InteractionInv'
  BY <1>3, WindowKeeps
<1>4. ASSUME NEW n \in NodeId, Elapse(n) PROVE InteractionInv'
  BY <1>4, PointerKeeps
<1>5. ASSUME NEW n \in NodeId, Focus(n) PROVE InteractionInv'
  BY <1>5, RunnerKeeps
<1>6. ASSUME NEW n \in NodeId, NEW s \in Sizes, ReportSize(n, s) PROVE InteractionInv'
  BY <1>6, SizeKeeps
<1>7. ASSUME Dismiss PROVE InteractionInv'
  BY <1>7, WindowKeeps
<1>8. ASSUME TakeFocus PROVE InteractionInv'
  BY <1>8, RunnerKeeps
<1>9. ASSUME UNCHANGED interactionVars PROVE InteractionInv'
  <2>1. UNCHANGED <<nodes, serials, sizes, hovered, open, pending, within>>
    BY <1>9 DEF interactionVars, popovers
  <2>2. /\ AgreeOn(nodes, hovered, open, pending, within)
        /\ ShieldOn(nodes, hovered, open, pending, within)
        /\ DOMAIN sizes \subseteq Of(nodes, "canvas")
    BY FactsNow
  <2>3. /\ AgreeOn(nodes, hovered', open', pending', within')
        /\ ShieldOn(nodes, hovered', open', pending', within')
        /\ DOMAIN sizes' \subseteq Of(nodes, "canvas")
    BY <2>1, <2>2
  <2>4. UNCHANGED <<nodes, serials>>
    BY <2>1
  <2> QED
    BY <2>3, <2>4, FactStep
<1> QED
  BY <1>1, <1>2, <1>3, <1>4, <1>5, <1>6, <1>7, <1>8, <1>9 DEF InteractionNext

\* The mounted graph stays a tree in which no identity and no instance occurs
\* twice, and what a person is doing stays in agreement with it, whatever is
\* rendered in whatever order (bridge.rs, apply_inner and the handlers).
THEOREM InteractionInductive == InteractionSpec => []InteractionInv
<1>1. InteractionInit => InteractionInv
  BY InitHolds
<1>2. InteractionInv /\ [InteractionNext]_interactionVars => InteractionInv'
  BY NextKeeps
<1> QED
  BY <1>1, <1>2, PTL DEF InteractionSpec

\* The facts about the pointer, the popovers, the sizes and the serials agree with
\* the tree and with each other after every patch and every event.
THEOREM FactsAgreeHolds == InteractionSpec => []FactsAgree
<1>1. InteractionInv => FactsAgree
  BY DEF InteractionInv
<1> QED
  BY <1>1, InteractionInductive, PTL

\* Nothing behind an active dialog is hovered, waits or holds focus, and no popover
\* beside it presents.
THEOREM DialogShieldsHolds == InteractionSpec => []DialogShields
<1>1. InteractionInv => DialogShields
  BY DEF InteractionInv
<1> QED
  BY <1>1, InteractionInductive, PTL

\* Only a patch changes the tree.
LEMMA PatchOnly ==
    ASSUME [InteractionNext]_interactionVars, nodes' # nodes
    PROVE  \E old \in NodeId \union {NoNode}, f \in Fragments : Patch(old, f)
<1>1. ~ UNCHANGED interactionVars
  BY DEF interactionVars
<1>2. \A n, b, s : ~ (Hover(n, b) \/ PopoverFocus(n, b) \/ Elapse(n) \/ Focus(n)
                      \/ ReportSize(n, s) \/ Dismiss \/ TakeFocus)
  BY DEF Hover, PopoverFocus, Elapse, Focus, ReportSize, Dismiss, TakeFocus
<1> QED
  BY <1>1, <1>2 DEF InteractionNext

\* Who has a fact after a patch: whoever can, is not covered and has the identity of
\* one that had it.
CarriedTo(old, f, tree, n) ==
    LET same == {o \in Mounted : SameKeys(nodes, tree, o, n)}
        kept(facts, can) == can /\ n \notin Covered(tree) /\ same \intersect facts # {}
    IN  /\ n \in AfterHovered(old, f, tree) <=> kept(hovered, Tracks(tree, n))
        /\ n \in AfterOpen(old, f, tree) <=> kept(open, Presents(tree, n))
        /\ n \in AfterPending(old, f, tree) <=> kept(pending, Presents(tree, n))
        /\ n \in AfterWithin(old, f, tree) <=> kept(within, Presents(tree, n))

LEMMA PatchCarries ==
    ASSUME NEW old, NEW f, NEW tree, PatchStep(old, f, tree), NEW n \in DOMAIN tree
    PROVE  CarriedTo(old, f, tree, n)
<1> DEFINE same == {o \in Mounted : SameKeys(nodes, tree, o, n)}
<1>1. Successors(old, f, tree)
  BY SuccessorsAre
<1>2. /\ hovered \subseteq {m \in Mounted : Tracks(nodes, m)}
      /\ open \union pending \union within \subseteq {m \in Mounted : Presents(nodes, m)}
  BY DEF PatchStep, InteractionInv, FactsAgree
<1>3. /\ n \in Staged(f) <=> n \notin Surviving(old, f)
      /\ n \in Surviving(old, f) => same = {n}
      /\ n \in Staged(f) => same \subseteq Removed(old, f)
      /\ Removed(old, f) \subseteq Mounted
  BY <1>1 DEF Successors
<1>4. n \in Surviving(old, f) => /\ Tracks(nodes, n) => Tracks(tree, n)
                                 /\ Presents(nodes, n) => Presents(tree, n)
  <2>1. ASSUME n \in Surviving(old, f), Presents(nodes, n) PROVE Presents(tree, n)
    BY <2>1, SurvivorPresents DEF PatchStep
  <2>2. ASSUME n \in Surviving(old, f), Tracks(nodes, n) PROVE Tracks(tree, n)
    BY <1>1, <2>2 DEF Tracks, Successors, SameNode
  <2> QED
    BY <2>1, <2>2
<1>5. ASSUME NEW facts \in SUBSET Mounted, NEW able \in SUBSET Staged(f)
      PROVE  n \in After(facts, old, f, tree, able) <=>
                /\ n \notin Covered(tree) /\ same \intersect facts # {}
                /\ n \in Surviving(old, f) \/ n \in able
  <2>1. n \in After(facts, old, f, tree, able) <=>
              /\ n \notin Covered(tree)
              /\ \/ n \in facts /\ n \in Surviving(old, f)
                 \/ n \in able /\ \E o \in facts : o \in Removed(old, f)
                                                  /\ SameKeys(nodes, tree, o, n)
    BY AfterIs
  <2>2. n \in Surviving(old, f) => (n \in facts <=> same \intersect facts # {})
    BY <1>3
  <2>3. n \in Staged(f) => ((\E o \in facts : o \in Removed(old, f) /\ SameKeys(nodes, tree, o, n))
                            <=> same \intersect facts # {})
    BY <1>3
  <2> HIDE DEF same
  <2> QED
    BY <1>3, <2>1, <2>2, <2>3
<1>6. /\ n \in Tracking(f, tree) <=> n \in Staged(f) /\ Tracks(tree, n)
      /\ n \in Presenting(f, tree) <=> n \in Staged(f) /\ Presents(tree, n)
      /\ Tracking(f, tree) \in SUBSET Staged(f) /\ Presenting(f, tree) \in SUBSET Staged(f)
  BY DEF Tracking, Presenting
<1>7. /\ hovered \in SUBSET Mounted /\ open \in SUBSET Mounted
      /\ pending \in SUBSET Mounted /\ within \in SUBSET Mounted
  BY <1>2
<1>8. \A facts \in {open, pending, within} : facts \in SUBSET Mounted /\
          (n \in Surviving(old, f) /\ same \intersect facts # {} => Presents(tree, n))
  BY <1>2, <1>3, <1>4
<1>9. n \in Surviving(old, f) /\ same \intersect hovered # {} => Tracks(tree, n)
  BY <1>2, <1>3, <1>4
<1> HIDE DEF same
<1>10. n \in AfterHovered(old, f, tree) <=>
           Tracks(tree, n) /\ n \notin Covered(tree) /\ same \intersect hovered # {}
  <2>1. n \in AfterHovered(old, f, tree) <=>
                /\ n \notin Covered(tree) /\ same \intersect hovered # {}
                /\ n \in Surviving(old, f) \/ n \in Tracking(f, tree)
    BY <1>5, <1>6, <1>7 DEF AfterHovered
  <2> QED
    BY <1>3, <1>6, <1>9, <2>1
<1>11. ASSUME NEW facts \in {open, pending, within}
       PROVE  n \in After(facts, old, f, tree, Presenting(f, tree)) <=>
                Presents(tree, n) /\ n \notin Covered(tree) /\ same \intersect facts # {}
  <2>1. n \in After(facts, old, f, tree, Presenting(f, tree)) <=>
                /\ n \notin Covered(tree) /\ same \intersect facts # {}
                /\ n \in Surviving(old, f) \/ n \in Presenting(f, tree)
    BY <1>5, <1>6, <1>8
  <2> QED
    BY <1>3, <1>6, <1>8, <2>1
<1> QED
  BY <1>10, <1>11 DEF CarriedTo, AfterOpen, AfterPending, AfterWithin, same

\* A rebuild neither replays nor drops what a person is doing, also inside a
\* component the fragment retains.
THEOREM CarriedHolds == InteractionSpec => CarriedByIdentity
<1> DEFINE A == nodes' # nodes /\ Mounted # {} =>
                  LET covered == Covered(nodes')
                      was == [o \in Mounted |-> Identity(nodes)[o]]
                  IN  \A n \in Mounted' :
                        LET same == {o \in Mounted : was[o] = Identity(nodes')[n]}
                            kept(facts, can) == can /\ n \notin covered /\ same \intersect facts # {}
                        IN  /\ n \in hovered' <=> kept(hovered, Tracks(nodes', n))
                            /\ n \in open' <=> kept(open, Presents(nodes', n))
                            /\ n \in pending' <=> kept(pending, Presents(nodes', n))
                            /\ n \in within' <=> kept(within, Presents(nodes', n))
                            /\ n \in DOMAIN sizes' <=> same \intersect DOMAIN sizes # {}
                            /\ \A o \in same \intersect DOMAIN sizes : sizes'[n] = sizes[o]
<1>1. ASSUME InteractionInv, [InteractionNext]_interactionVars PROVE [A]_interactionVars
  <2>1. SUFFICES ASSUME nodes' # nodes PROVE A
    OBVIOUS
  <2>2. PICK old \in NodeId \union {NoNode}, f \in Fragments : Patch(old, f)
    BY <1>1, <2>1, PatchOnly
  <2>3. PICK tree : PatchEffect(old, f, tree)
    BY <1>1, <2>2, PatchDoes
  <2>4. /\ PatchStep(old, f, tree) /\ nodes' = tree
        /\ hovered' = AfterHovered(old, f, tree) /\ open' = AfterOpen(old, f, tree)
        /\ pending' = AfterPending(old, f, tree) /\ within' = AfterWithin(old, f, tree)
        /\ sizes' = SizesAfter(old, f, tree)
    BY <2>3 DEF PatchEffect
  <2>5. ASSUME NEW n \in DOMAIN tree
        PROVE  LET same == {o \in Mounted : Identity(nodes)[o] = Identity(tree)[n]}
                   kept(facts, can) == /\ can /\ n \notin Covered(tree)
                                       /\ same \intersect facts # {}
               IN  /\ n \in hovered' <=> kept(hovered, Tracks(tree, n))
                   /\ n \in open' <=> kept(open, Presents(tree, n))
                   /\ n \in pending' <=> kept(pending, Presents(tree, n))
                   /\ n \in within' <=> kept(within, Presents(tree, n))
                   /\ n \in DOMAIN sizes' <=> same \intersect DOMAIN sizes # {}
                   /\ \A o \in same \intersect DOMAIN sizes : sizes'[n] = sizes[o]
    <3>1. CarriedTo(old, f, tree, n)
      BY <2>4, PatchCarries
    <3>2. LET same == {o \in Mounted : SameKeys(nodes, tree, o, n)}
          IN  /\ n \in DOMAIN SizesAfter(old, f, tree) <=> same \intersect DOMAIN sizes # {}
              /\ \A o \in same \intersect DOMAIN sizes :
                    SizesAfter(old, f, tree)[n] = sizes[o]
      <4>1. ValuesWell(old, f, tree)
        BY <2>4, PatchValues
      <4> QED
        BY <4>1 DEF ValuesWell
    <3> QED
      BY <2>4, <3>1, <3>2 DEF CarriedTo, SameKeys
  <2>6. \A n : {o \in Mounted : [x \in Mounted |-> Identity(nodes)[x]][o] = Identity(tree)[n]}
               = {o \in Mounted : Identity(nodes)[o] = Identity(tree)[n]}
    OBVIOUS
  <2>7. Mounted' = DOMAIN tree
    BY <2>4 DEF Mounted
  <2> QED
    BY <2>4, <2>5, <2>6, <2>7
<1> QED
  BY <1>1, InteractionInductive, PTL DEF InteractionSpec, CarriedByIdentity

\* A region asks for focus when it appears with a serial or its serial changes, and
\* never again however often it is rebuilt.
THEOREM OnlyNewSerialHolds == InteractionSpec => OnlyNewSerialAsks
<1> DEFINE A == \A n \in Of(nodes', "popover") :
                  LET asked == \E o \in Of(nodes, "popover") :
                                  /\ Identity(nodes)[o] = Identity(nodes')[n]
                                  /\ nodes[o].serial = nodes'[n].serial
                  IN  nodes' # nodes =>
                        (n \in requests' \ requests <=> nodes'[n].serial # 0 /\ ~ asked)
<1>1. ASSUME InteractionInv, [InteractionNext]_interactionVars PROVE [A]_interactionVars
  <2>1. SUFFICES ASSUME nodes' # nodes PROVE A
    OBVIOUS
  <2>2. PICK old \in NodeId \union {NoNode}, f \in Fragments : Patch(old, f)
    BY <1>1, <2>1, PatchOnly
  <2>3. PICK tree : PatchEffect(old, f, tree)
    BY <1>1, <2>2, PatchDoes
  <2>4. /\ PatchStep(old, f, tree) /\ nodes' = tree /\ Successors(old, f, tree)
        /\ requests' = requests \union Asks(Removed(old, f), Staged(f), tree)
    BY <2>3, SuccessorsAre DEF PatchEffect
  <2>5. /\ DOMAIN serials = {o \in Of(nodes, "popover") : nodes[o].serial # 0}
        /\ \A o \in DOMAIN serials : serials[o] = nodes[o].serial
    BY <1>1 DEF InteractionInv, FactsAgree, SerialsMatch
  <2> DEFINE Asked1(n) == \E o \in Of(nodes, "popover") :
                             /\ Identity(nodes)[o] = Identity(tree)[n]
                             /\ nodes[o].serial = tree[n].serial
  <2>6. ASSUME NEW n \in Of(tree, "popover")
        PROVE  n \in requests' \ requests <=> tree[n].serial # 0 /\ ~ Asked1(n)
    <3>1. n \in DOMAIN tree /\ tree[n].kind = "popover"
      BY DEF Of
    <3>2. CASE n \in Surviving(old, f)
      <4>1. n \notin Staged(f) /\ n \in Of(nodes, "popover")
            /\ Identity(nodes)[n] = Identity(tree)[n] /\ nodes[n].serial = tree[n].serial
        BY <2>4, <3>1, <3>2 DEF Successors, SameNode, SameKeys, Of, Mounted
      <4>2. n \notin Asks(Removed(old, f), Staged(f), tree)
        BY <4>1 DEF Asks
      <4> QED
        BY <2>4, <4>1, <4>2
    <3>3. CASE n \in Staged(f)
      <4>1. n \notin requests
        BY <2>4, <3>3 DEF Successors
      <4>2. n \in Asks(Removed(old, f), Staged(f), tree) <=>
               /\ tree[n].serial # 0
               /\ ~ \E o \in DOMAIN serials \intersect Removed(old, f) :
                       /\ Identity(nodes)[o] = Identity(tree)[n]
                       /\ serials[o] = tree[n].serial
        BY <3>1, <3>3 DEF Asks
      <4>3. ASSUME NEW o \in Of(nodes, "popover"), tree[n].serial # 0,
                   Identity(nodes)[o] = Identity(tree)[n], nodes[o].serial = tree[n].serial
            PROVE  o \in DOMAIN serials \intersect Removed(old, f) /\ serials[o] = tree[n].serial
        <5>1. o \in Mounted /\ o \in DOMAIN serials /\ serials[o] = tree[n].serial
          BY <2>5, <4>3 DEF Of, Mounted
        <5>2. o \in Removed(old, f)
          BY <2>4, <3>1, <3>3, <4>3, <5>1 DEF Successors, SameKeys
        <5> QED
          BY <5>1, <5>2
      <4>4. ASSUME NEW o \in DOMAIN serials
            PROVE  o \in Of(nodes, "popover") /\ serials[o] = nodes[o].serial
        BY <2>5
      <4> QED
        BY <2>4, <4>1, <4>2, <4>3, <4>4
    <3> QED
      BY <2>4, <3>1, <3>2, <3>3 DEF Successors
  <2> QED
    BY <2>4, <2>6
<1> QED
  BY <1>1, InteractionInductive, PTL DEF InteractionSpec, OnlyNewSerialAsks
=============================================================================

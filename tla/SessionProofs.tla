--------------------------- MODULE SessionProofs ----------------------------
(***************************************************************************)
(* What holds of a turn for every application: any tree of sites, any of   *)
(* them transparent, memoised, without a key or optional, and any values.  *)
(*                                                                         *)
(* The entries of the session and the mounted nodes are two sets with at   *)
(* most one element for each site, and the parent of each (IsTree).  A     *)
(* rendering reaches some of the sites under the boundary it is for and    *)
(* retains some of these (Reach), and what it splices in is a tree again   *)
(* whose elements lie in each other as their sites do (Spliced, Puts).  So *)
(* one account of a splice serves both sides: Installed for the session's  *)
(* entries and Patched for the graph.  Retained boundaries have the input  *)
(* they remember, so what they show depends on nothing else                *)
(* (SameInside), and what is not rendered has the input it had             *)
(* (SameOutside).  RenderKeeps puts that together for one rendering, and   *)
(* TurnKeeps says which one a turn asks for.                               *)
(***************************************************************************)
EXTENDS Session, SequenceTheorems, FiniteSetTheorems, WellFoundedInduction, TLAPS

-----------------------------------------------------------------------------
(* The sites.                                                              *)

\* A set of numbers has a least one.
LEMMA LeastOf ==
    ASSUME NEW T \in SUBSET Nat, T # {}
    PROVE  \E m \in T : \A k \in T : m <= k
<1> DEFINE R == {ss \in Nat \X Nat : ss[1] < ss[2]}
<1>1. IsWellFoundedOn(R, Nat)
  BY NatLessThanWellFounded DEF OpToRel
<1>2. \E x \in T : \A y \in T : ~ (<<y, x>> \in R)
  <2> HIDE DEF R
  <2> QED
    BY <1>1, WFMin
<1>3. \A x, y \in Nat : ~ (<<y, x>> \in R) => x <= y
  OBVIOUS
<1> QED
  BY <1>2, <1>3

\* A site is ranked below its parent, so no site is in itself.
RanksSites(rank, k) ==
    rank \in [Site -> 0 .. k] /\ \A c \in Site \ {Top} : rank[Parent[c]] < rank[c]

LEMMA SitesRanked == \E k \in Nat : \E rank : RanksSites(rank, k)
<1>1. Cardinality(Site) \in Nat
  BY SessionAssumption, FS_CardinalityType
<1>2. \E rank : RanksSites(rank, Cardinality(Site))
  BY SessionAssumption DEF RanksSites
<1> QED
  BY <1>1, <1>2

LEMMA ParentSite == \A c \in Site \ {Top} : Parent[c] \in Site
BY SessionAssumption

\* What holds of each site of D when it holds of its parent, or which is a root,
\* holds of them all.
LEMMA SiteInduction ==
    ASSUME NEW D \in SUBSET Site, NEW S,
           \A c \in D : (c # Top /\ Parent[c] \in D => Parent[c] \in S) => c \in S
    PROVE  \A c \in D : c \in S
<1>1. PICK k \in Nat : \E rank : RanksSites(rank, k)
  BY SitesRanked
<1>2. PICK rank : RanksSites(rank, k)
  BY <1>1
<1> DEFINE B == {c \in D : c \notin S}
           T == {rank[c] : c \in B}
<1>3. SUFFICES ASSUME B # {} PROVE FALSE
  OBVIOUS
<1>4. T \in SUBSET Nat /\ T # {}
  BY <1>2, <1>3 DEF RanksSites
<1>5. PICK m \in T : \A l \in T : m <= l
  <2> HIDE DEF T
  <2> QED
    BY <1>4, LeastOf
<1>6. PICK c \in B : rank[c] = m
  BY <1>5
<1>7. c # Top /\ Parent[c] \in D /\ Parent[c] \notin S
  BY <1>6
<1>8. rank[Parent[c]] \in T /\ rank[Parent[c]] < rank[c]
  BY <1>2, <1>6, <1>7 DEF RanksSites
<1>9. m <= rank[Parent[c]] /\ rank[Parent[c]] \in Nat /\ rank[c] \in Nat
  BY <1>2, <1>5, <1>6, <1>7, <1>8 DEF RanksSites
<1> QED
  BY <1>6, <1>8, <1>9

\* The same from the leaves up.
LEMMA LeafInduction ==
    ASSUME NEW D \in SUBSET Site, NEW S,
           \A c \in D : (\A d \in D \ {Top} : Parent[d] = c => d \in S) => c \in S
    PROVE  \A c \in D : c \in S
<1>1. PICK k \in Nat : \E rank : RanksSites(rank, k)
  BY SitesRanked
<1>2. PICK rank : RanksSites(rank, k)
  BY <1>1
<1> DEFINE B == {c \in D : c \notin S}
           T == {k - rank[c] : c \in B}
<1>3. SUFFICES ASSUME B # {} PROVE FALSE
  OBVIOUS
<1>4. T \in SUBSET Nat /\ T # {}
  <2>1. \A c \in B : rank[c] \in 0 .. k
    BY <1>2 DEF RanksSites
  <2>2. \A c \in B : k - rank[c] \in Nat
    BY <2>1
  <2> QED
    BY <1>3, <2>2
<1>5. PICK m \in T : \A l \in T : m <= l
  <2> HIDE DEF T
  <2> QED
    BY <1>4, LeastOf
<1>6. PICK c \in B : k - rank[c] = m
  BY <1>5
<1>7. PICK d \in D \ {Top} : Parent[d] = c /\ d \notin S
  BY <1>6
<1>8. k - rank[d] \in T /\ rank[c] < rank[d]
  BY <1>2, <1>7 DEF RanksSites
<1>9. m <= k - rank[d] /\ rank[d] \in Nat /\ rank[c] \in Nat
  BY <1>2, <1>5, <1>6, <1>7, <1>8 DEF RanksSites
<1> QED
  BY <1>1, <1>6, <1>8, <1>9

\* Some function on D has what base says at a root, and G of what the parent has
\* at any other site.
Descends(D, Roots, V, base, G) ==
    \E g \in [D -> V] : \A c \in D :
        g[c] = IF c \in Roots THEN base[c] ELSE G[<<c, g[Parent[c]]>>]

\* It may be defined from the parents down.
LEMMA SiteRecursion ==
    ASSUME NEW D \in SUBSET Site, NEW Roots \in SUBSET D, NEW V,
           NEW base \in [D -> V], NEW G \in [D \X V -> V],
           \A c \in D \ Roots : c # Top /\ Parent[c] \in D
    PROVE  Descends(D, Roots, V, base, G)
<1>1. PICK k \in Nat : \E rank : RanksSites(rank, k)
  BY SitesRanked
<1>2. PICK R : RanksSites(R, k)
  BY <1>1
<1> DEFINE Below(i) == {c \in D : R[c] < i}
           Fits(g, i) == \A c \in Below(i) :
               g[c] = IF c \in Roots THEN base[c] ELSE G[<<c, g[Parent[c]]>>]
           T == {i \in Nat : ~ \E g \in [Below(i) -> V] : Fits(g, i)}
<1>3. T = {}
  <2>1. SUFFICES ASSUME T # {} PROVE FALSE
    OBVIOUS
  <2>2. T \in SUBSET Nat
    OBVIOUS
  <2>3. PICK m \in T : \A i \in T : m <= i
    <3> HIDE DEF T
    <3> QED
      BY <2>1, <2>2, LeastOf
  <2>4. m \in Nat /\ ~ \E g \in [Below(m) -> V] : Fits(g, m)
    OBVIOUS
  <2>5. m # 0
    <3>1. Below(0) = {}
      BY <1>2 DEF RanksSites
    <3>2. <<>> \in [Below(0) -> V] /\ Fits(<<>>, 0)
      BY <3>1
    <3> QED
      BY <2>4, <3>2
  <2>6. m - 1 \in Nat /\ ~ (m <= m - 1)
    BY <2>4, <2>5
  <2>7. m - 1 \notin T
    BY <2>3, <2>6
  <2>8. PICK g \in [Below(m - 1) -> V] : Fits(g, m - 1)
    BY <2>6, <2>7
  <2> DEFINE h == [c \in Below(m) |->
                     IF c \in Below(m - 1) THEN g[c]
                     ELSE IF c \in Roots THEN base[c] ELSE G[<<c, g[Parent[c]]>>]]
  <2>9. ASSUME NEW c \in Below(m), c \notin Roots
        PROVE  Parent[c] \in Below(m - 1) /\ Parent[c] \in Below(m)
    <3>1. Parent[c] \in D /\ R[Parent[c]] < R[c]
      BY <1>2, <2>9 DEF RanksSites
    <3>2. R[Parent[c]] \in Nat /\ R[c] \in Nat /\ R[c] < m
      BY <1>2, <3>1 DEF RanksSites
    <3> QED
      BY <2>4, <3>1, <3>2
  <2>10. h \in [Below(m) -> V]
    <3>1. ASSUME NEW c \in Below(m) PROVE h[c] \in V
      <4>1. CASE c \in Below(m - 1)
        BY <2>8, <4>1
      <4>2. CASE c \notin Below(m - 1) /\ c \in Roots
        BY <4>2
      <4>3. CASE c \notin Below(m - 1) /\ c \notin Roots
        <5>1. <<c, g[Parent[c]]>> \in D \X V
          BY <2>8, <2>9, <4>3
        <5> QED
          BY <4>3, <5>1
      <4> QED
        BY <4>1, <4>2, <4>3
    <3> QED
      BY <3>1
  <2>11. Fits(h, m)
    <3>1. ASSUME NEW c \in Below(m)
          PROVE  h[c] = IF c \in Roots THEN base[c] ELSE G[<<c, h[Parent[c]]>>]
      <4>1. CASE c \in Roots
        <5>1. c \in Below(m - 1) => g[c] = base[c]
          BY <2>8, <4>1
        <5> QED
          BY <4>1, <5>1
      <4>2. CASE c \notin Roots
        <5>1. h[Parent[c]] = g[Parent[c]]
          BY <2>9, <4>2
        <5>2. c \in Below(m - 1) => g[c] = G[<<c, g[Parent[c]]>>]
          BY <2>8, <4>2
        <5> QED
          BY <4>2, <5>1, <5>2
      <4> QED
        BY <4>1, <4>2
    <3> QED
      BY <3>1
  <2> QED
    BY <2>4, <2>10, <2>11
<1>4. k + 1 \in Nat /\ Below(k + 1) = D
  <2>1. \A c \in D : R[c] \in 0 .. k
    BY <1>2 DEF RanksSites
  <2>2. \A c \in D : R[c] < k + 1
    BY <1>1, <2>1
  <2> QED
    BY <1>1, <2>2
<1>5. \E g \in [Below(k + 1) -> V] : Fits(g, k + 1)
  BY <1>3, <1>4
<1> QED
  BY <1>4, <1>5 DEF Descends

\* Over is what its recursion says.
LEMMA OverIs ==
    /\ \A c \in Site : Over[c] = IF c = Top THEN {} ELSE {Parent[c]} \cup Over[Parent[c]]
    /\ \A c \in Site : Over[c] \subseteq Site
<1> DEFINE D == Site
           Roots == {Top}
           V == SUBSET Site
           step(f, c) == IF c = Top THEN {} ELSE {Parent[c]} \cup f[Parent[c]]
           walk(f) == f = [c \in Site |-> step(f, c)]
           over == CHOOSE f : walk(f)
           base == [c \in D |-> {}]
           G == [x \in D \X V |-> ({Parent[x[1]]} \cap Site) \cup x[2]]
<1>1. base \in [D -> V] /\ G \in [D \X V -> V]
  OBVIOUS
<1>2. D \in SUBSET Site /\ Roots \in SUBSET D /\ \A c \in D \ Roots : c # Top /\ Parent[c] \in D
  BY SessionAssumption, ParentSite
<1>3. Descends(D, Roots, V, base, G)
  <2> HIDE DEF base, G, V, D, Roots
  <2> QED
    BY <1>1, <1>2, SiteRecursion
<1>4. PICK g \in [D -> V] : \A c \in D :
          g[c] = IF c \in Roots THEN base[c] ELSE G[<<c, g[Parent[c]]>>]
  BY <1>3 DEF Descends
<1>5. \A c \in D : g[c] = step(g, c)
  <2>1. ASSUME NEW c \in D, c # Top PROVE g[c] = step(g, c)
    <3>1. Parent[c] \in Site /\ <<c, g[Parent[c]]>> \in D \X V
      BY <1>4, <2>1, ParentSite
    <3>2. {Parent[c]} \cap Site = {Parent[c]}
      BY <3>1
    <3>3. G[<<c, g[Parent[c]]>>] = ({Parent[c]} \cap Site) \cup g[Parent[c]]
      BY <3>1
    <3>4. g[c] = G[<<c, g[Parent[c]]>>]
      BY <1>4, <2>1
    <3> HIDE DEF G
    <3> QED
      BY <2>1, <3>2, <3>3, <3>4
  <2> QED
    BY <1>4, <2>1
<1>6. walk(g)
  BY <1>4, <1>5
<1>7. walk(over)
  BY <1>6
<1>8. Over = over
  BY DEF Over
<1> HIDE DEF over
<1>9. \A c \in D : over[c] = step(over, c)
  BY <1>7
<1> DEFINE S == {c \in D : over[c] \subseteq D}
<1>10. \A c \in D : (c # Top /\ Parent[c] \in D => Parent[c] \in S) => c \in S
  BY <1>9, ParentSite
<1>11. \A c \in D : c \in S
  <2> HIDE DEF S
  <2> QED
    BY <1>10, SiteInduction
<1> QED
  BY <1>8, <1>9, <1>11

\* What lies in what: a site is in itself and in what its parent is in.
LEMMA UnderIs ==
    /\ \A c \in Site : Under(c) \subseteq Site /\ c \in Under(c)
    /\ \A c, d \in Site : d \in Under(c) <=> d = c \/ (d # Top /\ Parent[d] \in Under(c))
    /\ \A c, d, e \in Site : d \in Under(c) /\ e \in Under(d) => e \in Under(c)
    /\ Under(Top) = Site
    /\ \A c, d, e \in Site : e \in Under(c) /\ e \in Under(d) => c \in Under(d) \/ d \in Under(c)
    /\ \A c, d \in Site : c \in Under(d) /\ d \in Under(c) => c = d
    /\ \A c \in Site \ {Top} : c \in Under(Parent[c]) /\ Parent[c] \notin Under(c)
<1>1. \A c \in Site : Under(c) \subseteq Site /\ c \in Under(c)
  BY DEF Under
<1>2. \A c, d \in Site : d \in Under(c) <=> d = c \/ (d # Top /\ Parent[d] \in Under(c))
  <2>1. ASSUME NEW c \in Site, NEW d \in Site
        PROVE  d \in Under(c) <=> d = c \/ (d # Top /\ Parent[d] \in Under(c))
    <3>1. Over[d] = IF d = Top THEN {} ELSE {Parent[d]} \cup Over[Parent[d]]
      BY OverIs
    <3>2. d # Top => Parent[d] \in Site
      BY ParentSite
    <3> QED
      BY <3>1, <3>2 DEF Under
  <2> QED
    BY <2>1
<1>3. ASSUME NEW c \in Site, NEW d \in Site, d \in Under(c)
      PROVE  \A e \in Site : e \in Under(d) => e \in Under(c)
  <2> DEFINE S == {e \in Site : e \in Under(d) => e \in Under(c)}
  <2>1. \A e \in Site : (e # Top /\ Parent[e] \in Site => Parent[e] \in S) => e \in S
    <3>1. \A e \in Site : e # Top => Parent[e] \in Site
      BY ParentSite
    <3> QED
      BY <1>2, <1>3, <3>1
  <2> HIDE DEF S
  <2>2. \A e \in Site : e \in S
    BY <2>1, SiteInduction
  <2> QED
    BY <2>2 DEF S
<1>4. Under(Top) = Site
  <2> DEFINE S == {e \in Site : e \in Under(Top)}
  <2>1. \A e \in Site : (e # Top /\ Parent[e] \in Site => Parent[e] \in S) => e \in S
    <3>1. \A e \in Site : e # Top => Parent[e] \in Site
      BY ParentSite
    <3>2. Top \in Site
      BY SessionAssumption
    <3> QED
      BY <1>2, <3>1, <3>2
  <2> HIDE DEF S
  <2>2. \A e \in Site : e \in S
    BY <2>1, SiteInduction
  <2> QED
    BY <1>1, <2>2, SessionAssumption DEF S
<1>5. ASSUME NEW c \in Site, NEW d \in Site
      PROVE  \A e \in Site : e \in Under(c) /\ e \in Under(d) => c \in Under(d) \/ d \in Under(c)
  <2> DEFINE S == {e \in Site : e \in Under(c) /\ e \in Under(d) => c \in Under(d) \/ d \in Under(c)}
  <2>1. \A e \in Site : (e # Top /\ Parent[e] \in Site => Parent[e] \in S) => e \in S
    <3>1. \A e \in Site : e # Top => Parent[e] \in Site
      BY ParentSite
    <3> QED
      BY <1>2, <3>1
  <2> HIDE DEF S
  <2>2. \A e \in Site : e \in S
    BY <2>1, SiteInduction
  <2> QED
    BY <2>2 DEF S
<1>6. PICK k \in Nat : \E rank : RanksSites(rank, k)
  BY SitesRanked
<1>7. PICK rank : RanksSites(rank, k)
  BY <1>6
<1>8. \A c \in Site : rank[c] \in Nat
  BY <1>7 DEF RanksSites
<1>9. ASSUME NEW c \in Site
      PROVE  \A e \in Site : e \in Under(c) => e = c \/ rank[c] < rank[e]
  <2> DEFINE S == {e \in Site : e \in Under(c) => e = c \/ rank[c] < rank[e]}
  <2>1. \A e \in Site : (e # Top /\ Parent[e] \in Site => Parent[e] \in S) => e \in S
    <3>1. \A e \in Site : e # Top => Parent[e] \in Site /\ rank[Parent[e]] < rank[e]
      BY <1>7, ParentSite DEF RanksSites
    <3> QED
      BY <1>2, <1>8, <3>1
  <2> HIDE DEF S
  <2>2. \A e \in Site : e \in S
    BY <2>1, SiteInduction
  <2> QED
    BY <2>2 DEF S
<1>10. \A c, d \in Site : c \in Under(d) /\ d \in Under(c) => c = d
  BY <1>8, <1>9
<1>11. \A c \in Site \ {Top} : c \in Under(Parent[c]) /\ Parent[c] \notin Under(c)
  <2>1. ASSUME NEW c \in Site \ {Top} PROVE c \in Under(Parent[c]) /\ Parent[c] \notin Under(c)
    <3>1. Parent[c] \in Site /\ rank[Parent[c]] < rank[c]
      BY <1>7, ParentSite DEF RanksSites
    <3>2. c \in Under(Parent[c])
      BY <1>1, <1>2, <3>1
    <3> QED
      BY <1>8, <1>9, <3>1, <3>2
  <2> QED
    BY <2>1
<1> QED
  BY <1>1, <1>2, <1>3, <1>4, <1>5, <1>10, <1>11

\* The holder of a site is at it or above it, and in every holder that is.
LEMMA HolderIs ==
    /\ \A c \in Site : HolderAt[c] = IF c \in Transparent THEN HolderAt[Parent[c]] ELSE c
    /\ \A c \in Site : HolderAt[c] \in Holders /\ c \in Under(HolderAt[c])
    /\ \A c \in Site, e \in Holders : c \in Under(e) => HolderAt[c] \in Under(e)
    /\ \A c, t \in Site : c \in Under(t) /\ HolderAt[c] \notin Under(t) =>
          t \in Transparent /\ HolderAt[c] = HolderAt[t]
<1> DEFINE D == Site
           Roots == Site \ Transparent
           V == Site
           step(f, c) == IF c \in Transparent THEN f[Parent[c]] ELSE c
           walk(f) == f = [c \in Site |-> step(f, c)]
           at == CHOOSE f : walk(f)
           base == [c \in D |-> c]
           G == [x \in D \X V |-> x[2]]
<1>0. \A c \in Transparent : c \in Site \ {Top} /\ Parent[c] \in Site
  BY SessionAssumption, ParentSite
<1>1. base \in [D -> V] /\ G \in [D \X V -> V]
  OBVIOUS
<1>2. D \in SUBSET Site /\ Roots \in SUBSET D /\ \A c \in D \ Roots : c # Top /\ Parent[c] \in D
  BY <1>0
<1>3. Descends(D, Roots, V, base, G)
  <2> HIDE DEF base, G, V, D, Roots
  <2> QED
    BY <1>1, <1>2, SiteRecursion
<1>4. PICK g \in [D -> V] : \A c \in D :
          g[c] = IF c \in Roots THEN base[c] ELSE G[<<c, g[Parent[c]]>>]
  BY <1>3 DEF Descends
<1>5. \A c \in D : g[c] = step(g, c)
  BY <1>0, <1>4
<1>6. walk(g)
  BY <1>4, <1>5
<1>7. walk(at)
  BY <1>6
<1>8. HolderAt = at
  BY DEF HolderAt
<1> HIDE DEF at
<1>9. \A c \in D : HolderAt[c] = step(HolderAt, c)
  BY <1>7, <1>8
<1>10. \A c \in Site : HolderAt[c] \in Holders /\ c \in Under(HolderAt[c])
  <2> DEFINE S == {c \in Site : HolderAt[c] \in Holders /\ c \in Under(HolderAt[c])}
  <2>1. \A c \in D : (c # Top /\ Parent[c] \in D => Parent[c] \in S) => c \in S
    <3>1. ASSUME NEW c \in D, c # Top /\ Parent[c] \in D => Parent[c] \in S PROVE c \in S
      <4>1. CASE c \in Transparent
        <5>1. HolderAt[c] = HolderAt[Parent[c]] /\ Parent[c] \in S /\ c # Top
          BY <1>0, <1>9, <3>1, <4>1
        <5>2. HolderAt[c] \in Site
          BY <5>1 DEF Holders
        <5> QED
          BY <5>1, <5>2, UnderIs
      <4>2. CASE c \notin Transparent
        BY <1>9, <4>2, UnderIs DEF Holders
      <4> QED
        BY <4>1, <4>2
    <3> QED
      BY <3>1
  <2> HIDE DEF S
  <2>2. \A c \in D : c \in S
    BY <2>1, SiteInduction
  <2> QED
    BY <2>2 DEF S
<1>11. ASSUME NEW e \in Holders PROVE \A c \in Site : c \in Under(e) => HolderAt[c] \in Under(e)
  <2> DEFINE S == {c \in Site : c \in Under(e) => HolderAt[c] \in Under(e)}
  <2>1. \A c \in D : (c # Top /\ Parent[c] \in D => Parent[c] \in S) => c \in S
    <3>1. ASSUME NEW c \in D, c # Top /\ Parent[c] \in D => Parent[c] \in S PROVE c \in S
      <4>1. CASE c \in Transparent
        <5>1. HolderAt[c] = HolderAt[Parent[c]] /\ Parent[c] \in S /\ c # e
          BY <1>0, <1>9, <3>1, <4>1 DEF Holders
        <5>2. e \in Site
          BY DEF Holders
        <5>3. c \in Under(e) => Parent[c] \in Under(e)
          BY <5>1, <5>2, UnderIs
        <5> QED
          BY <5>1, <5>3
      <4>2. CASE c \notin Transparent
        BY <1>9, <4>2
      <4> QED
        BY <4>1, <4>2
    <3> QED
      BY <3>1
  <2> HIDE DEF S
  <2>2. \A c \in D : c \in S
    BY <2>1, SiteInduction
  <2> QED
    BY <2>2 DEF S
<1>12. ASSUME NEW t \in Site
       PROVE  \A c \in Site : c \in Under(t) /\ HolderAt[c] \notin Under(t) =>
                  t \in Transparent /\ HolderAt[c] = HolderAt[t]
  <2> DEFINE S == {c \in Site : c \in Under(t) /\ HolderAt[c] \notin Under(t) =>
                      t \in Transparent /\ HolderAt[c] = HolderAt[t]}
  <2>1. \A c \in D : (c # Top /\ Parent[c] \in D => Parent[c] \in S) => c \in S
    <3>1. ASSUME NEW c \in D, c # Top /\ Parent[c] \in D => Parent[c] \in S PROVE c \in S
      <4>1. CASE c \in Transparent /\ c # t
        <5>1. HolderAt[c] = HolderAt[Parent[c]] /\ Parent[c] \in S
          BY <1>0, <1>9, <3>1, <4>1
        <5>2. c \in Under(t) => Parent[c] \in Under(t)
          BY <4>1, UnderIs
        <5> QED
          BY <5>1, <5>2
      <4>2. CASE c \in Transparent /\ c = t
        BY <4>2
      <4>3. CASE c \notin Transparent
        BY <1>9, <4>3
      <4> QED
        BY <4>1, <4>2, <4>3
    <3> QED
      BY <3>1
  <2> HIDE DEF S
  <2>2. \A c \in D : c \in S
    BY <2>1, SiteInduction
  <2> QED
    BY <2>2 DEF S
<1> QED
  BY <1>9, <1>10, <1>11, <1>12

-----------------------------------------------------------------------------
(* What a site is given.                                                   *)

\* What a renderer is passed: the value of the nearest holder above it.
Given(c, s) == IF c = Top THEN Nothing ELSE s[HolderAt[Parent[c]]]

LEMMA PassedIs == \A c \in Site : PassedNow[c] = Given(c, cells)
<1> DEFINE step(f, c) == IF c = Top THEN Nothing ELSE Seen(Parent[c], f[Parent[c]], cells)
           walk(f) == f = [c \in Site |-> step(f, c)]
           now == CHOOSE f : walk(f)
           g == [c \in Site |-> Given(c, cells)]
<1>1. ASSUME NEW c \in Site PROVE g[c] = step(g, c)
  <2>1. CASE c = Top
    BY <2>1 DEF Given
  <2>2. CASE c # Top
    <3>1. Parent[c] \in Site
      BY <2>2, ParentSite
    <3>2. Parent[c] \in Transparent => Parent[c] # Top
      BY SessionAssumption
    <3> QED
      BY <2>2, <3>1, <3>2, HolderIs DEF Given, Seen
  <2> QED
    BY <2>1, <2>2
<1>2. walk(g)
  <2> HIDE DEF g
  <2>1. g = [c \in Site |-> g[c]]
    BY DEF g
  <2> QED
    BY <1>1, <2>1
<1>3. walk(now)
  <2> HIDE DEF g
  <2> QED
    BY <1>2
<1>4. PassedNow = now
  BY DEF PassedNow
<1> HIDE DEF now
<1>5. \A c \in Site : now[c] = step(now, c)
  BY <1>3
<1> DEFINE S == {c \in Site : now[c] = Given(c, cells)}
<1>6. \A c \in Site : (c # Top /\ Parent[c] \in Site => Parent[c] \in S) => c \in S
  <2>1. ASSUME NEW c \in Site, c # Top /\ Parent[c] \in Site => Parent[c] \in S PROVE c \in S
    <3>1. CASE c = Top
      BY <1>5, <3>1 DEF Given
    <3>2. CASE c # Top
      <4>1. Parent[c] \in Site /\ Parent[c] \in S
        BY <2>1, <3>2, ParentSite
      <4>2. Parent[c] \in Transparent => Parent[c] # Top
        BY SessionAssumption
      <4>3. now[c] = Seen(Parent[c], Given(Parent[c], cells), cells)
        BY <1>5, <3>2, <4>1
      <4> QED
        BY <3>2, <4>1, <4>2, <4>3, HolderIs DEF Given, Seen
    <3> QED
      BY <3>1, <3>2
  <2> QED
    BY <2>1
<1>7. \A c \in Site : c \in S
  <2> HIDE DEF S
  <2> QED
    BY <1>6, SiteInduction
<1> QED
  BY <1>4, <1>7

\* Two states of the application that differ in a part of it only.
SameOutside(s, r, t) == \A c \in Holders \ Under(t) : s[c] = r[c]
SameInside(s, r, e) == \A c \in Under(e) \ Transparent : s[c] = r[c]

\* Outside what changed, and at its top, a renderer is passed what it was.
LEMMA GivenOutside ==
    ASSUME NEW t \in Site, NEW s, NEW r, SameOutside(s, r, t),
           NEW c \in Site, c \notin Under(t) \/ c = t
    PROVE  Given(c, s) = Given(c, r)
<1>1. CASE c = Top
  BY <1>1 DEF Given
<1>2. CASE c # Top
  <2> DEFINE h == HolderAt[Parent[c]]
  <2>1. Parent[c] \in Site /\ h \in Holders /\ Parent[c] \in Under(h)
    BY <1>2, ParentSite, HolderIs
  <2>2. Parent[c] \notin Under(t)
    BY <1>2, <2>1, UnderIs
  <2>3. h \notin Under(t)
    BY <2>1, <2>2, UnderIs DEF Holders
  <2> QED
    BY <1>2, <2>1, <2>3 DEF Given, SameOutside
<1> QED
  BY <1>1, <1>2

\* In a holder whose part did not change, it is too.
LEMMA GivenInside ==
    ASSUME NEW e \in Holders, NEW s, NEW r, SameInside(s, r, e),
           NEW c \in Under(e), c # e
    PROVE  Given(c, s) = Given(c, r)
<1>1. e \in Site /\ c \in Site
  BY UnderIs DEF Holders
<1>2. c # Top /\ Parent[c] \in Under(e) /\ Parent[c] \in Site
  BY <1>1, UnderIs, ParentSite
<1>3. HolderAt[Parent[c]] \in Under(e) /\ HolderAt[Parent[c]] \in Holders
  BY <1>2, HolderIs
<1> QED
  BY <1>2, <1>3 DEF Given, SameInside, Holders

-----------------------------------------------------------------------------
(* Trees of instances, and of nodes.                                       *)

\* There is one of each site, and one of its parent.
IsTree(X) ==
    /\ X \subseteq Site \X Number
    /\ \A x, y \in X : x[1] = y[1] => x = y
    /\ \A x \in X : x[1] # Top => \E y \in X : y[1] = Parent[x[1]]

Inside(X, x) == {y \in X : y[1] # Top /\ Parent[y[1]] = x[1]}
Down(X) == [x \in X |-> {y \in X : y[1] \in Under(x[1])}]

\* An element with those inside it, and so on down, is all that lies under it.
LEMMA DownIs ==
    ASSUME NEW X, IsTree(X)
    PROVE  /\ \A x \in X : Down(X)[x] = {x} \cup UNION {Down(X)[y] : y \in Inside(X, x)}
           /\ \A f : (\A x \in X : f[x] = {x} \cup UNION {f[y] : y \in Inside(X, x)})
                        => \A x \in X : f[x] = Down(X)[x]
<1>0. \A x \in X : x[1] \in Site
  BY DEF IsTree
<1>1. ASSUME NEW x \in X
      PROVE  Down(X)[x] = {x} \cup UNION {Down(X)[y] : y \in Inside(X, x)}
  <2>1. ASSUME NEW y \in X, y[1] \in Under(x[1]), y # x
        PROVE  \E z \in Inside(X, x) : y[1] \in Under(z[1])
    <3> DEFINE S == {c \in Site : \A w \in X : w[1] = c /\ c \in Under(x[1]) =>
                        w = x \/ \E z \in Inside(X, x) : c \in Under(z[1])}
    <3>1. \A c \in Site : (c # Top /\ Parent[c] \in Site => Parent[c] \in S) => c \in S
      <4>1. ASSUME NEW c \in Site, c # Top /\ Parent[c] \in Site => Parent[c] \in S,
                   NEW w \in X, w[1] = c, c \in Under(x[1]), w # x
            PROVE  \E z \in Inside(X, x) : c \in Under(z[1])
        <5>1. c # x[1]
          BY <4>1 DEF IsTree
        <5>2. c # Top /\ Parent[c] \in Under(x[1]) /\ Parent[c] \in Site
          BY <1>0, <4>1, <5>1, UnderIs, ParentSite
        <5>3. PICK p \in X : p[1] = Parent[c]
          BY <4>1, <5>2 DEF IsTree
        <5>4. p = x \/ \E z \in Inside(X, x) : Parent[c] \in Under(z[1])
          BY <4>1, <5>2, <5>3
        <5>5. CASE p = x
          <6>1. w \in Inside(X, x)
            BY <4>1, <5>2, <5>3, <5>5 DEF Inside
          <6> QED
            BY <4>1, <6>1, UnderIs
        <5>6. ASSUME NEW z \in Inside(X, x), Parent[c] \in Under(z[1])
              PROVE  c \in Under(z[1])
          <6>1. z[1] \in Site
            BY <1>0 DEF Inside
          <6> QED
            BY <4>1, <5>2, <5>6, <6>1, UnderIs
        <5> QED
          BY <5>4, <5>5, <5>6
      <4> QED
        BY <4>1
    <3> HIDE DEF S
    <3>2. \A c \in Site : c \in S
      BY <3>1, SiteInduction
    <3> QED
      BY <1>0, <2>1, <3>2 DEF S
  <2>2. ASSUME NEW z \in Inside(X, x), NEW y \in X, y[1] \in Under(z[1])
        PROVE  y[1] \in Under(x[1])
    <3>1. z \in X /\ z[1] \in Site /\ z[1] # Top /\ Parent[z[1]] = x[1]
      BY <1>0 DEF Inside
    <3>2. z[1] \in Under(x[1])
      BY <1>0, <3>1, UnderIs
    <3> QED
      BY <1>0, <2>2, <3>1, <3>2, UnderIs
  <2>3. x[1] \in Under(x[1])
    BY <1>0, UnderIs
  <2>4. Inside(X, x) \subseteq X
    BY DEF Inside
  <2>5. \A z \in X : Down(X)[z] = {y \in X : y[1] \in Under(z[1])}
    BY DEF Down
  <2>6. ASSUME NEW y \in Down(X)[x]
        PROVE  y \in {x} \cup UNION {Down(X)[z] : z \in Inside(X, x)}
    <3>1. y \in X /\ y[1] \in Under(x[1])
      BY <2>5
    <3>2. ASSUME NEW z \in Inside(X, x), y[1] \in Under(z[1]) PROVE y \in Down(X)[z]
      BY <2>4, <2>5, <3>1, <3>2
    <3> QED
      BY <2>1, <3>1, <3>2
  <2>7. ASSUME NEW z \in Inside(X, x) PROVE Down(X)[z] \subseteq Down(X)[x]
    BY <2>2, <2>4, <2>5
  <2>8. x \in Down(X)[x]
    BY <2>3, <2>5
  <2> QED
    BY <2>6, <2>7, <2>8
<1>2. ASSUME NEW f, \A x \in X : f[x] = {x} \cup UNION {f[y] : y \in Inside(X, x)}
      PROVE  \A x \in X : f[x] = Down(X)[x]
  <2> DEFINE S == {c \in Site : \A x \in X : x[1] = c => f[x] = Down(X)[x]}
  <2>1. \A c \in Site : (\A d \in Site \ {Top} : Parent[d] = c => d \in S) => c \in S
    <3>1. ASSUME NEW c \in Site, \A d \in Site \ {Top} : Parent[d] = c => d \in S,
                 NEW x \in X, x[1] = c
          PROVE  f[x] = Down(X)[x]
      <4>1. \A y \in Inside(X, x) : f[y] = Down(X)[y]
        BY <1>0, <3>1 DEF Inside
      <4>2. {f[y] : y \in Inside(X, x)} = {Down(X)[y] : y \in Inside(X, x)}
        BY <4>1
      <4> QED
        BY <1>1, <1>2, <4>2
    <3> QED
      BY <3>1
  <2> HIDE DEF S
  <2>2. \A c \in Site : c \in S
    BY <2>1, LeafInduction
  <2> QED
    BY <1>0, <2>2 DEF S
<1> QED
  BY <1>1, <1>2

\* What a rendering of top reaches, and of it retains: it goes down to what is
\* retained and no further.
Reach(top, reached, ret) ==
    /\ top \in Site /\ reached \subseteq Under(top) /\ ret \subseteq reached
    /\ top \in reached \ ret
    /\ \A c \in reached \ {top} : Parent[c] \in reached \ ret

\* What it leaves alone.
KeptSite(top, ret, c) == c \notin Under(top) \/ \E e \in ret : c \in Under(e)

LEMMA KeptIs ==
    ASSUME NEW top, NEW reached, NEW ret, Reach(top, reached, ret)
    PROVE  /\ \A c \in reached \ ret : ~ KeptSite(top, ret, c)
           /\ \A e \in ret : KeptSite(top, ret, e)
           /\ \A c \in Site \ {Top} : KeptSite(top, ret, c) /\ c \notin ret
                                        => KeptSite(top, ret, Parent[c])
           /\ \A c \in Site \ {Top} : ~ KeptSite(top, ret, c) /\ c # top
                                        => ~ KeptSite(top, ret, Parent[c])
           /\ \A c \in reached \ {top} : c # Top /\ c \in Site
           /\ reached \subseteq Site /\ top \in Site /\ ret \subseteq Site
<1>0. reached \subseteq Site /\ top \in Site /\ ret \subseteq Site /\ ret \subseteq reached
  BY UnderIs DEF Reach
<1>1. ASSUME NEW e \in ret PROVE \A c \in Site : c \in reached /\ c \in Under(e) => c = e
  <2> DEFINE S == {c \in Site : c \in reached /\ c \in Under(e) => c = e}
  <2>1. \A c \in Site : (c # Top /\ Parent[c] \in Site => Parent[c] \in S) => c \in S
    <3>1. ASSUME NEW c \in Site, c # Top /\ Parent[c] \in Site => Parent[c] \in S,
                 c \in reached, c \in Under(e), c # e
          PROVE  FALSE
      <4>1. e \in Site /\ e \in Under(top) /\ e # top
        BY <1>0 DEF Reach
      <4>2. c # Top /\ Parent[c] \in Under(e) /\ Parent[c] \in Site
        BY <3>1, <4>1, UnderIs, ParentSite
      <4>3. c # top
        BY <1>0, <3>1, <4>1, UnderIs
      <4>4. Parent[c] \in reached \ ret
        BY <3>1, <4>3 DEF Reach
      <4>5. Parent[c] = e
        BY <3>1, <4>2, <4>4
      <4> QED
        BY <4>4, <4>5
    <3> QED
      BY <3>1
  <2> HIDE DEF S
  <2>2. \A c \in Site : c \in S
    BY <2>1, SiteInduction
  <2> QED
    BY <2>2 DEF S
<1>2. \A c \in reached \ ret : ~ KeptSite(top, ret, c)
  BY <1>0, <1>1 DEF KeptSite, Reach
<1>3. \A e \in ret : KeptSite(top, ret, e)
  BY <1>0, UnderIs DEF KeptSite
<1>4. ASSUME NEW c \in Site \ {Top}, KeptSite(top, ret, c), c \notin ret
      PROVE  KeptSite(top, ret, Parent[c])
  <2>1. CASE c \notin Under(top)
    <3>1. Parent[c] \notin Under(top)
      BY <1>0, <2>1, UnderIs
    <3> QED
      BY <3>1 DEF KeptSite
  <2>2. ASSUME NEW e \in ret, c \in Under(e) PROVE KeptSite(top, ret, Parent[c])
    <3>1. Parent[c] \in Under(e)
      BY <1>0, <1>4, <2>2, UnderIs
    <3> QED
      BY <3>1 DEF KeptSite
  <2> QED
    BY <1>4, <2>1, <2>2 DEF KeptSite
<1>5. ASSUME NEW c \in Site \ {Top}, ~ KeptSite(top, ret, c), c # top
      PROVE  ~ KeptSite(top, ret, Parent[c])
  <2>1. Parent[c] \in Under(top) /\ Parent[c] \in Site
    BY <1>0, <1>5, UnderIs, ParentSite DEF KeptSite
  <2>2. \A e \in ret : Parent[c] \notin Under(e)
    BY <1>0, <1>5, <2>1, UnderIs DEF KeptSite
  <2> QED
    BY <2>1, <2>2 DEF KeptSite
<1>6. ASSUME NEW c \in reached \ {top} PROVE c # Top
  <2>1. c \in Under(top) /\ Top \in Site
    BY SessionAssumption DEF Reach
  <2>2. top \in Under(Top)
    BY <1>0, UnderIs
  <2> QED
    BY <1>0, <1>6, <2>1, <2>2, UnderIs
<1> QED
  BY <1>0, <1>2, <1>3, <1>4, <1>5, <1>6

\* What is left of a tree, and what the rendering puts in it.
Spliced(Z, g, top, reached, ret) ==
    {z \in Z : KeptSite(top, ret, z[1])} \cup {g[c] : c \in reached \ ret}

Puts(Z, g, top, reached, ret) ==
    /\ \A c \in reached : g[c] \in Site \X Number /\ g[c][1] = c
    /\ \A e \in ret : g[e] \in Z
    /\ (\E z \in Z : z[1] = top) \/ (Z = {} /\ top = Top)

\* Inside what is left, the boundary rendered again takes its own place; inside
\* what is rendered is what the rendering put there.
Renewed(top, new, S) == {IF y[1] = top THEN new ELSE y : y \in S}
Within(c, reached, top) == {d \in reached \ {top} : Parent[d] = c}
Put(g, S) == {g[d] : d \in S}

LEMMA SplicedTree ==
    ASSUME NEW Z, IsTree(Z), NEW top, NEW reached, NEW ret, Reach(top, reached, ret),
           NEW g, Puts(Z, g, top, reached, ret), NEW W, W = Spliced(Z, g, top, reached, ret)
    PROVE  /\ IsTree(W)
           /\ \A c \in reached : g[c] \in W
           /\ \A z \in Z : KeptSite(top, ret, z[1]) =>
                Inside(W, z) = Renewed(top, g[top], Inside(Z, z))
           /\ \A c \in reached \ ret : Inside(W, g[c]) = Put(g, Within(c, reached, top))
<1> DEFINE K(c) == KeptSite(top, ret, c)
<1>0. /\ \A c \in reached \ ret : ~ K(c)
      /\ \A e \in ret : K(e)
      /\ \A c \in Site \ {Top} : K(c) /\ c \notin ret => K(Parent[c])
      /\ \A c \in Site \ {Top} : ~ K(c) /\ c # top => ~ K(Parent[c])
      /\ \A c \in reached \ {top} : c # Top /\ c \in Site
      /\ reached \subseteq Site /\ top \in Site /\ ret \subseteq Site
  BY KeptIs
<1> HIDE DEF K
<1>1. W = {z \in Z : K(z[1])} \cup {g[c] : c \in reached \ ret}
  BY DEF Spliced, K
<1>2. /\ top \in reached \ ret /\ ret \subseteq reached
      /\ \A c \in reached \ {top} : Parent[c] \in reached \ ret
      /\ reached \subseteq Under(top)
  BY DEF Reach
<1>3. /\ \A c \in reached : g[c] \in Site \X Number /\ g[c][1] = c
      /\ \A e \in ret : g[e] \in Z
      /\ (\E z \in Z : z[1] = top) \/ (Z = {} /\ top = Top)
  BY DEF Puts
<1>4. /\ Z \subseteq Site \X Number
      /\ \A x, y \in Z : x[1] = y[1] => x = y
      /\ \A x \in Z : x[1] # Top => \E y \in Z : y[1] = Parent[x[1]]
      /\ \A z \in Z : z[1] \in Site
  BY DEF IsTree
<1>5. \A c \in reached : g[c] \in W
  BY <1>0, <1>1, <1>3
<1>6. IsTree(W)
  <2>1. W \subseteq Site \X Number
    BY <1>1, <1>3, <1>4
  <2>2. \A x, y \in W : x[1] = y[1] => x = y
    BY <1>0, <1>1, <1>3, <1>4
  <2>3. ASSUME NEW x \in W, x[1] # Top PROVE \E y \in W : y[1] = Parent[x[1]]
    <3>1. ASSUME x \in Z, K(x[1]), x[1] \notin ret PROVE \E y \in W : y[1] = Parent[x[1]]
      <4>1. K(Parent[x[1]])
        BY <1>0, <1>4, <2>3, <3>1
      <4>2. PICK y \in Z : y[1] = Parent[x[1]]
        BY <1>4, <2>3, <3>1
      <4> QED
        BY <1>1, <4>1, <4>2
    <3>2. ASSUME NEW c \in reached, x[1] = c, c # top PROVE \E y \in W : y[1] = Parent[x[1]]
      <4>1. Parent[c] \in reached
        BY <1>2, <3>2
      <4> QED
        BY <1>3, <1>5, <3>2, <4>1
    <3>3. CASE x[1] = top
      <4>1. PICK z \in Z : z[1] = top
        BY <1>3, <2>3, <3>3
      <4>2. PICK y \in Z : y[1] = Parent[top]
        BY <1>4, <2>3, <3>3, <4>1
      <4>3. Parent[top] \notin Under(top)
        BY <1>0, <2>3, <3>3, UnderIs
      <4>4. K(y[1])
        BY <4>2, <4>3 DEF K, KeptSite
      <4> QED
        BY <1>1, <3>3, <4>2, <4>4
    <3> QED
      BY <1>1, <1>2, <1>3, <3>1, <3>2, <3>3
  <2> QED
    BY <2>1, <2>2, <2>3 DEF IsTree
<1>7. ASSUME NEW z \in Z, K(z[1])
      PROVE  Inside(W, z) = Renewed(top, g[top], Inside(Z, z))
  <2> DEFINE R == {IF y[1] = top THEN g[top] ELSE y : y \in Inside(Z, z)}
  <2>1. ASSUME NEW y \in Inside(W, z) PROVE y \in R
    <3>1. y \in W /\ y[1] # Top /\ Parent[y[1]] = z[1]
      BY DEF Inside
    <3>2. ASSUME y \in Z, K(y[1]) PROVE y \in R
      <4>1. y[1] # top /\ y \in Inside(Z, z)
        BY <1>0, <1>2, <3>1, <3>2 DEF Inside
      <4> QED
        BY <4>1
    <3>3. ASSUME NEW c \in reached \ ret, y = g[c] PROVE y \in R
      <4>1. y[1] = c /\ ~ K(c) /\ c \in Site
        BY <1>0, <1>3, <3>3
      <4>2. c = top
        BY <1>0, <1>7, <3>1, <4>1
      <4>3. PICK t \in Z : t[1] = top
        BY <1>3
      <4>4. t \in Inside(Z, z)
        BY <3>1, <4>1, <4>2, <4>3 DEF Inside
      <4> QED
        BY <3>3, <4>2, <4>3, <4>4
    <3> QED
      BY <1>1, <3>1, <3>2, <3>3
  <2>2. ASSUME NEW y \in Inside(Z, z) PROVE (IF y[1] = top THEN g[top] ELSE y) \in Inside(W, z)
    <3>1. y \in Z /\ y[1] # Top /\ Parent[y[1]] = z[1] /\ y[1] \in Site
      BY <1>4 DEF Inside
    <3>2. CASE y[1] = top
      <4>1. g[top] \in W /\ g[top][1] = top
        BY <1>2, <1>3, <1>5
      <4> QED
        BY <3>1, <3>2, <4>1 DEF Inside
    <3>3. CASE y[1] # top
      <4>1. K(y[1])
        BY <1>0, <1>7, <3>1, <3>3
      <4> QED
        BY <1>1, <3>1, <3>3, <4>1 DEF Inside
    <3> QED
      BY <3>2, <3>3
  <2> QED
    BY <2>1, <2>2 DEF Renewed
<1>8. ASSUME NEW c \in reached \ ret
      PROVE  Inside(W, g[c]) = Put(g, Within(c, reached, top))
  <2> DEFINE R == {g[d] : d \in {d \in reached \ {top} : Parent[d] = c}}
  <2>0. g[c][1] = c /\ ~ K(c)
    BY <1>0, <1>3
  <2>1. ASSUME NEW y \in Inside(W, g[c]) PROVE y \in R
    <3>1. y \in W /\ y[1] # Top /\ Parent[y[1]] = c
      BY <2>0 DEF Inside
    <3>2. ASSUME y \in Z, K(y[1]) PROVE y \in R
      <4>1. y[1] \in ret
        BY <1>0, <1>4, <2>0, <3>1, <3>2
      <4>2. y = g[y[1]]
        BY <1>2, <1>3, <1>4, <3>2, <4>1
      <4> QED
        BY <1>2, <3>1, <4>1, <4>2
    <3>3. ASSUME NEW d \in reached \ ret, y = g[d] PROVE y \in R
      <4>1. y[1] = d /\ d \in Site /\ c \in Under(top)
        BY <1>0, <1>2, <1>3, <3>3
      <4>2. d # top
        BY <3>1, <4>1, UnderIs
      <4> QED
        BY <3>1, <3>3, <4>1, <4>2
    <3> QED
      BY <1>1, <3>1, <3>2, <3>3
  <2>2. ASSUME NEW d \in reached \ {top}, Parent[d] = c PROVE g[d] \in Inside(W, g[c])
    BY <1>0, <1>3, <1>5, <2>0, <2>2 DEF Inside
  <2> QED
    BY <2>1, <2>2 DEF Put, Within
<1> QED
  BY <1>5, <1>6, <1>7, <1>8 DEF K

-----------------------------------------------------------------------------
(* The session's entries.                                                  *)

IsInfo(e) ==
    e = [site |-> e.site, path |-> e.path, passed |-> e.passed, memo |-> e.memo,
         revision |-> e.revision, ids |-> e.ids, children |-> e.children, root |-> e.root]

\* A boundary is given what its place in the state `s` says, and has inside it
\* the boundaries whose sites are.
Entries(infos, s) ==
    \A i \in DOMAIN infos :
        /\ IsInfo(infos[i]) /\ infos[i].site = i[1]
        /\ infos[i].passed = Given(i[1], s)
        /\ infos[i].children = Inside(DOMAIN infos, i)

\* Its path is its parent's and itself.
Paths(infos) ==
    \A i \in DOMAIN infos :
        /\ infos[i].path \in Seq(Site \X Number)
        /\ i[1] = Top => infos[i].path = <<i>>
        /\ \A p \in DOMAIN infos :
             i[1] # Top /\ p[1] = Parent[i[1]] => infos[i].path = Append(infos[p].path, i)

\* What it remembers is its input.
Remembered(infos, s) ==
    \A i \in DOMAIN infos :
        \/ infos[i].memo = Unknown
        \/ infos[i].memo = Input(i[1], s) /\ Remembers(i[1], Given(i[1], s))

\* The registry has the boundaries by their parents and their keys.
Mounted(X, mnt) ==
    /\ \A l \in DOMAIN mnt :
         /\ l = <<l[1], l[2]>> /\ l[1] \in X /\ l[2] \in Site \ {Top}
         /\ Parent[l[2]] = l[1][1]
         /\ mnt[l] \in X /\ mnt[l][1] = l[2]
    /\ \A j, p \in X : j[1] # Top /\ p[1] = Parent[j[1]] => <<p, j[1]>> \in DOMAIN mnt

\* Where there is one of each site, a number that is not taken is found.
LEMMA FreshIs ==
    ASSUME NEW X, IsTree(X), NEW c \in Site, NEW k, k = FreshNumber({i[2] : i \in {j \in X : j[1] = c}})
    PROVE  <<c, k>> \in Site \X Number /\ <<c, k>> \notin X
<1> DEFINE used == {i[2] : i \in {j \in X : j[1] = c}}
           free == Number \ used
<1>1. free # {}
  <2>1. PICK n \in Number : n # 1
    BY SessionAssumption
  <2>2. \A a, b \in used : a = b
    BY DEF IsTree
  <2> QED
    BY <2>1, <2>2, SessionAssumption
<1>2. PICK m \in free : \A l \in free : m <= l
  <2>1. free \in SUBSET Nat
    BY SessionAssumption
  <2> HIDE DEF free
  <2> QED
    BY <1>1, <2>1, LeastOf
<1>3. k \in Number /\ k \notin used
  <2>1. m \in Number /\ m \notin used /\ \A l \in Number \ used : m <= l
    BY <1>2
  <2>2. k = FreshNumber(used)
    OBVIOUS
  <2> HIDE DEF used, free
  <2> QED
    BY <2>1, <2>2 DEF FreshNumber
<1> QED
  BY <1>3

\* The instance a site's boundary has once it is prepared.
At(e) == Last(e.path)

LEMMA LastAppended ==
    ASSUME NEW Z, NEW q \in Seq(Z), NEW z \in Z
    PROVE  Append(q, z) \in Seq(Z) /\ Last(Append(q, z)) = z /\ Append(q, z) # << >>
BY DEF Last

\* What prepare_component! gives every site under the boundary rendered.
Ready(E, o, s, infos) ==
    /\ E[o[1]] = infos[o] /\ At(infos[o]) = o
    /\ \A c \in Under(o[1]) :
         /\ IsInfo(E[c]) /\ E[c].site = c /\ E[c].passed = Given(c, s)
         /\ At(E[c]) \in Site \X Number /\ At(E[c])[1] = c
    /\ \A c \in Under(o[1]) \ {o[1]} :
         /\ E[c].path = Append(E[Parent[c]].path, At(E[c]))
         /\ At(E[c]) \in DOMAIN infos => At(E[Parent[c]]) \in DOMAIN infos
    /\ \A c \in Under(o[1]) :
         /\ E[c].path \in Seq(Site \X Number)
         /\ At(E[c]) \in DOMAIN infos =>
              LET old == infos[At(E[c])]
              IN  /\ E[c].path = old.path /\ E[c].children = old.children
                  /\ E[c].ids = old.ids /\ E[c].root = old.root
                  /\ E[c].revision = old.revision
                  /\ \/ E[c].memo = Unknown
                     \/ /\ E[c].memo = old.memo
                        /\ Remembers(c, old.passed) = Remembers(c, Given(c, s))
         /\ At(E[c]) \notin DOMAIN infos =>
              /\ E[c].memo = Unknown /\ E[c].ids = {}
              /\ E[c].children = {} /\ E[c].root = Nothing

\* The last of a boundary's path is the boundary.
LEMMA PathEnds ==
    ASSUME NEW infos, IsTree(DOMAIN infos), Paths(infos), NEW i \in DOMAIN infos
    PROVE  At(infos[i]) = i
<1>0. i \in Site \X Number
  BY DEF IsTree
<1>1. CASE i[1] = Top
  <2>1. infos[i].path = <<i>>
    BY <1>1 DEF Paths
  <2> QED
    BY <2>1 DEF At, Last
<1>2. CASE i[1] # Top
  <2>1. PICK p \in DOMAIN infos : p[1] = Parent[i[1]]
    BY <1>2 DEF IsTree
  <2>2. infos[i].path = Append(infos[p].path, i) /\ infos[p].path \in Seq(Site \X Number)
    BY <1>2, <2>1 DEF Paths
  <2> QED
    BY <1>0, <2>2, LastAppended DEF At
<1> QED
  BY <1>1, <1>2

LEMMA PreparedIs ==
    ASSUME NEW infos, IsTree(DOMAIN infos), DOMAIN infos = DOMAIN info, NEW o \in DOMAIN infos,
           NEW s, SameOutside(s, cells, o[1]), Entries(infos, cells), Paths(infos),
           Mounted(DOMAIN infos, mounts)
    PROVE  Ready(Prepared(o, s, infos), o, s, infos)
<1> DEFINE X == DOMAIN infos
           top == infos[o].site
           D == Under(top)
           Q == Site \X Number
           V == Seq(Site \X Number)
           walk(f) ==
             f = [c \in Under(top) |->
                    IF c = top THEN infos[o].path
                    ELSE LET location == <<Last(f[Parent[c]]), c>>
                         IN  Append(f[Parent[c]],
                                    IF location \in DOMAIN mounts /\ c \notin Unkeyed
                                    THEN mounts[location] ELSE FreshInstance(c))]
           path == CHOOSE f : walk(f)
           passed(c) == IF HolderAt[Parent[c]] \in Under(top)
                        THEN s[HolderAt[Parent[c]]] ELSE infos[o].passed
           entry(c, old) ==
             [old EXCEPT
                !.passed = passed(c),
                !.memo = IF Remembers(c, old.passed) = Remembers(c, passed(c))
                         THEN @ ELSE Unknown]
           E == Prepared(o, s, infos)
           key(q, c) == IF <<Last(q), c>> \in DOMAIN mounts /\ c \notin Unkeyed
                        THEN mounts[<<Last(q), c>>] ELSE FreshInstance(c)
<1>1. E = [c \in Under(top) |->
            IF c = top THEN infos[o]
            ELSE IF Last(path[c]) \in DOMAIN infos
            THEN entry(c, infos[Last(path[c])])
            ELSE NewInfo(c, path[c], passed(c))]
  BY DEF Prepared
<1> HIDE DEF E
<1>2. top = o[1] /\ top \in Site /\ o \in Q /\ D \subseteq Site /\ top \in D
  <2>1. top = o[1] /\ o \in Q
    BY DEF Entries, IsTree
  <2> QED
    BY <2>1, UnderIs
<1>3. \A c \in D \ {top} : c # Top /\ Parent[c] \in D /\ Parent[c] \in Site
  <2>1. \A c \in D \ {top} : c \in Site /\ c # top
    BY <1>2
  <2> QED
    BY <1>2, <2>1, UnderIs, ParentSite
<1>4. \A c \in Site : FreshInstance(c) \in Q /\ FreshInstance(c) \notin X /\ FreshInstance(c)[1] = c
  <2>1. ASSUME NEW c \in Site
        PROVE  FreshInstance(c) \in Q /\ FreshInstance(c) \notin X /\ FreshInstance(c)[1] = c
    <3> DEFINE k == FreshNumber({i[2] : i \in {j \in X : j[1] = c}})
    <3>1. FreshInstance(c) = <<c, k>>
      BY DEF FreshInstance
    <3>2. <<c, k>> \in Q /\ <<c, k>> \notin X
      <4> HIDE DEF X
      <4>1. IsTree(X)
        BY DEF X
      <4> QED
        BY <4>1, FreshIs
    <3> HIDE DEF k
    <3> QED
      BY <3>1, <3>2
  <2> QED
    BY <2>1
<1>5. X \subseteq Q
  BY DEF IsTree
<1>6. \A l \in DOMAIN mounts :
         /\ l[1] \in X /\ l[2] \in Site \ {Top} /\ Parent[l[2]] = l[1][1]
         /\ mounts[l] \in X /\ mounts[l][1] = l[2]
  BY DEF Mounted
<1>7. \A q, c : c \in Site => key(q, c) \in Q /\ key(q, c)[1] = c
  <2>1. ASSUME NEW q, NEW c \in Site PROVE key(q, c) \in Q /\ key(q, c)[1] = c
    <3> DEFINE l == <<Last(q), c>>
    <3>1. l[2] = c
      OBVIOUS
    <3>2. key(q, c) = IF l \in DOMAIN mounts /\ c \notin Unkeyed THEN mounts[l] ELSE FreshInstance(c)
      OBVIOUS
    <3> HIDE DEF l, key, Q, X
    <3> QED
      BY <1>4, <1>5, <1>6, <3>1, <3>2
  <2> QED
    BY <2>1
<1>8. infos[o].path \in V
  BY DEF Paths
<1> DEFINE base == [c \in D |-> infos[o].path]
           G == [x \in D \X V |-> Append(x[2], key(x[2], x[1]))]
           Roots == {top}
<1>9. base \in [D -> V] /\ G \in [D \X V -> V]
  <2>1. ASSUME NEW x \in D \X V PROVE Append(x[2], key(x[2], x[1])) \in V
    <3>1. x[1] \in Site /\ x[2] \in V
      BY <1>2
    <3>2. key(x[2], x[1]) \in Q
      <4> HIDE DEF key
      <4> QED
        BY <1>7, <3>1
    <3> HIDE DEF key
    <3> QED
      BY <3>1, <3>2, LastAppended
  <2> QED
    BY <1>8, <2>1
<1>10. D \in SUBSET Site /\ Roots \in SUBSET D /\ \A c \in D \ Roots : c # Top /\ Parent[c] \in D
  BY <1>2, <1>3
<1>11. Descends(D, Roots, V, base, G)
  <2> HIDE DEF base, G, V, D, Roots
  <2> QED
    BY <1>9, <1>10, SiteRecursion
<1>12. PICK g \in [D -> V] : \A c \in D :
          g[c] = IF c \in Roots THEN base[c] ELSE G[<<c, g[Parent[c]]>>]
  BY <1>11 DEF Descends
<1> HIDE DEF key
<1>13. \A c \in D : g[c] = IF c = top THEN infos[o].path ELSE Append(g[Parent[c]], key(g[Parent[c]], c))
  <2>1. ASSUME NEW c \in D, c # top PROVE g[c] = Append(g[Parent[c]], key(g[Parent[c]], c))
    <3>1. <<c, g[Parent[c]]>> \in D \X V
      BY <1>3, <1>12, <2>1
    <3>2. g[c] = G[<<c, g[Parent[c]]>>]
      BY <1>12, <2>1
    <3> QED
      BY <3>1, <3>2
  <2> QED
    BY <1>12, <2>1
<1>14. walk(g)
  <2>1. g = [c \in D |-> g[c]]
    BY <1>12
  <2> QED
    BY <1>13, <2>1 DEF key
<1>15. walk(path)
  BY <1>14
<1> HIDE DEF path
<1>16. \A c \in D : path[c] = IF c = top THEN infos[o].path ELSE Append(path[Parent[c]], key(path[Parent[c]], c))
  BY <1>15 DEF key
<1> HIDE DEF walk
<1>17. \A c \in D : path[c] \in V
  <2> DEFINE S == {c \in D : path[c] \in V}
  <2>1. \A c \in D : (c # Top /\ Parent[c] \in D => Parent[c] \in S) => c \in S
    <3>1. ASSUME NEW c \in D, c # Top /\ Parent[c] \in D => Parent[c] \in S PROVE c \in S
      <4>1. CASE c = top
        BY <1>8, <1>16, <4>1
      <4>2. CASE c # top
        <5>1. path[Parent[c]] \in V /\ c \in Site
          BY <1>2, <1>3, <3>1, <4>2
        <5>2. key(path[Parent[c]], c) \in Q
          BY <1>7, <5>1
        <5>3. Append(path[Parent[c]], key(path[Parent[c]], c)) \in V
          BY <5>1, <5>2, LastAppended
        <5> QED
          BY <1>16, <4>2, <5>3
      <4> QED
        BY <4>1, <4>2
    <3> QED
      BY <3>1
  <2> HIDE DEF S
  <2>2. \A c \in D : c \in S
    BY <1>10, <2>1, SiteInduction
  <2> QED
    BY <2>2 DEF S
\* The last of the path of each site.
<1>18. ASSUME NEW c \in D \ {top}
       PROVE  /\ Last(path[c]) = key(path[Parent[c]], c)
              /\ path[c] = Append(path[Parent[c]], Last(path[c]))
  <2>1. path[Parent[c]] \in V /\ c \in Site
    BY <1>2, <1>3, <1>17
  <2>2. key(path[Parent[c]], c) \in Q
    BY <1>7, <2>1
  <2>3. Last(Append(path[Parent[c]], key(path[Parent[c]], c))) = key(path[Parent[c]], c)
    BY <2>1, <2>2, LastAppended
  <2> QED
    BY <1>16, <2>3
<1>19. Last(path[top]) = o
  <2>1. At(infos[o]) = o
    BY PathEnds
  <2> QED
    BY <1>2, <1>16, <2>1 DEF At
<1>20. \A c \in D : Last(path[c]) \in Q /\ Last(path[c])[1] = c
  <2>1. \A c \in D \ {top} : Last(path[c]) \in Q /\ Last(path[c])[1] = c
    BY <1>2, <1>7, <1>18
  <2> QED
    BY <1>2, <1>19, <2>1
<1>21. ASSUME NEW c \in D \ {top}, Last(path[c]) \in X
       PROVE  Last(path[Parent[c]]) \in X
  <2> DEFINE l == <<Last(path[Parent[c]]), c>>
  <2>1. Last(path[c]) = IF l \in DOMAIN mounts /\ c \notin Unkeyed THEN mounts[l] ELSE FreshInstance(c)
    BY <1>18 DEF key
  <2>2. l \in DOMAIN mounts
    BY <1>2, <1>4, <1>21, <2>1
  <2>3. l[1] = Last(path[Parent[c]])
    OBVIOUS
  <2> HIDE DEF l
  <2> QED
    BY <1>6, <2>2, <2>3
<1>22. \A c \in D : Last(path[c]) \in X => infos[Last(path[c])].path = path[c]
  <2> DEFINE S == {c \in D : Last(path[c]) \in X => infos[Last(path[c])].path = path[c]}
  <2>1. \A c \in D : (c # Top /\ Parent[c] \in D => Parent[c] \in S) => c \in S
    <3>1. ASSUME NEW c \in D, c # Top /\ Parent[c] \in D => Parent[c] \in S, Last(path[c]) \in X
          PROVE  infos[Last(path[c])].path = path[c]
      <4>1. CASE c = top
        BY <1>16, <1>19, <4>1
      <4>2. CASE c # top
        <5> DEFINE p == Last(path[Parent[c]])
                   i == Last(path[c])
        <5>1. p \in X /\ i \in X /\ i[1] = c /\ p[1] = Parent[c] /\ c # Top
          BY <1>3, <1>20, <1>21, <3>1, <4>2
        <5>2. infos[p].path = path[Parent[c]]
          BY <1>3, <3>1, <4>2, <5>1
        <5>3. path[c] = Append(path[Parent[c]], i)
          BY <1>18, <4>2
        <5> HIDE DEF p, i
        <5>4. infos[i].path = Append(infos[p].path, i)
          BY <5>1 DEF Paths
        <5>5. infos[i].path = path[c]
          BY <5>2, <5>3, <5>4
        <5> QED
          BY <5>5 DEF i
      <4> QED
        BY <4>1, <4>2
    <3> QED
      BY <3>1
  <2> HIDE DEF S
  <2>2. \A c \in D : c \in S
    BY <1>10, <2>1, SiteInduction
  <2> QED
    BY <2>2 DEF S
\* What each site is passed.
<1>23. ASSUME NEW c \in D \ {top} PROVE passed(c) = Given(c, s)
  <2>1. c # Top /\ Parent[c] \in D /\ Parent[c] \in Site
    BY <1>3
  <2>2. CASE HolderAt[Parent[c]] \in Under(top)
    BY <2>1, <2>2 DEF Given
  <2>3. CASE HolderAt[Parent[c]] \notin Under(top)
    <3>1. top \in Transparent /\ HolderAt[Parent[c]] = HolderAt[top]
      BY <1>2, <2>1, <2>3, HolderIs
    <3>2. HolderAt[top] = HolderAt[Parent[top]] /\ top # Top
      BY <1>2, <3>1, HolderIs, SessionAssumption
    <3>3. infos[o].passed = Given(top, cells)
      BY <1>2 DEF Entries
    <3>4. Given(top, cells) = Given(top, s)
      <4>1. SameOutside(s, cells, top)
        BY <1>2
      <4> HIDE DEF top
      <4> QED
        BY <1>2, <4>1, GivenOutside
    <3> QED
      BY <2>1, <2>3, <3>1, <3>2, <3>3, <3>4 DEF Given
  <2> QED
    BY <2>2, <2>3
<1> HIDE DEF passed
<1>24. E[top] = infos[o]
  BY <1>1, <1>2
<1>25. ASSUME NEW c \in D \ {top}, Last(path[c]) \in X
       PROVE  LET old == infos[Last(path[c])]
              IN  /\ IsInfo(E[c]) /\ E[c].site = c /\ E[c].passed = Given(c, s)
                  /\ E[c].path = path[c]
                  /\ E[c].path = old.path /\ E[c].children = old.children
                  /\ E[c].ids = old.ids /\ E[c].root = old.root
                  /\ E[c].revision = old.revision
                  /\ \/ E[c].memo = Unknown
                     \/ /\ E[c].memo = old.memo
                        /\ Remembers(c, old.passed) = Remembers(c, Given(c, s))
  <2> DEFINE i == Last(path[c])
             old == infos[i]
             m == IF Remembers(c, old.passed) = Remembers(c, passed(c)) THEN old.memo ELSE Unknown
  <2>1. i \in X /\ i[1] = c
    BY <1>20, <1>25
  <2>2. old.path = path[c]
    BY <1>22, <1>25
  <2>3. E[c] = entry(c, old)
    BY <1>1, <1>25
  <2> HIDE DEF i
  <2>4. IsInfo(old) /\ old.site = c
    BY <2>1 DEF Entries
  <2> HIDE DEF old
  <2>5. entry(c, old) = [old EXCEPT !.passed = passed(c), !.memo = m]
    <3>1. old.memo = old["memo"]
      OBVIOUS
    <3> QED
      BY <2>4 DEF IsInfo
  <2> HIDE DEF m, entry
  <2>6. E[c] = [site |-> old.site, path |-> old.path, passed |-> passed(c), memo |-> m,
                revision |-> old.revision, ids |-> old.ids, children |-> old.children,
                root |-> old.root]
    BY <2>3, <2>4, <2>5 DEF IsInfo
  <2>7. m = Unknown \/ (m = old.memo /\ Remembers(c, old.passed) = Remembers(c, Given(c, s)))
    BY <1>23 DEF m
  <2>8. /\ IsInfo(E[c]) /\ E[c].site = c /\ E[c].passed = Given(c, s)
        /\ E[c].path = path[c]
        /\ E[c].path = old.path /\ E[c].children = old.children
        /\ E[c].ids = old.ids /\ E[c].root = old.root
        /\ E[c].revision = old.revision
        /\ \/ E[c].memo = Unknown
           \/ /\ E[c].memo = old.memo
              /\ Remembers(c, old.passed) = Remembers(c, Given(c, s))
    BY <1>23, <2>2, <2>4, <2>6, <2>7 DEF IsInfo
  <2> QED
    BY <2>8 DEF old, i
<1>26. ASSUME NEW c \in D \ {top}, Last(path[c]) \notin X
       PROVE  /\ IsInfo(E[c]) /\ E[c].site = c /\ E[c].passed = Given(c, s)
              /\ E[c].path = path[c]
              /\ E[c].memo = Unknown /\ E[c].ids = {}
              /\ E[c].children = {} /\ E[c].root = Nothing
  <2>1. E[c] = NewInfo(c, path[c], passed(c))
    BY <1>1, <1>26
  <2> QED
    BY <1>23, <2>1 DEF NewInfo, IsInfo
<1>27. /\ IsInfo(E[top]) /\ E[top].site = top /\ E[top].passed = Given(top, s)
       /\ E[top].path = path[top]
  <2>1. IsInfo(infos[o]) /\ infos[o].passed = Given(top, cells)
    BY <1>2 DEF Entries
  <2>2. Given(top, cells) = Given(top, s)
    <3>1. SameOutside(s, cells, top)
      BY <1>2
    <3> HIDE DEF top
    <3> QED
      BY <1>2, <3>1, GivenOutside
  <2> QED
    BY <1>2, <1>16, <1>24, <2>1, <2>2
<1>28. \A c \in D : At(E[c]) = Last(path[c]) /\ E[c].path = path[c]
  BY <1>25, <1>26, <1>27 DEF At
<1> HIDE DEF D, X, Q, V, top
<1>29. /\ E[o[1]] = infos[o]
       /\ \A c \in D : IsInfo(E[c]) /\ E[c].site = c /\ E[c].passed = Given(c, s)
  <2>1. ASSUME NEW c \in D PROVE IsInfo(E[c]) /\ E[c].site = c /\ E[c].passed = Given(c, s)
    BY <1>25, <1>26, <1>27
  <2> QED
    BY <1>2, <1>24, <2>1
<1>30. \A c \in D : At(E[c]) \in Q /\ At(E[c])[1] = c
  BY <1>20, <1>28
<1>31. \A c \in D \ {top} :
         /\ E[c].path = Append(E[Parent[c]].path, At(E[c]))
         /\ At(E[c]) \in X => At(E[Parent[c]]) \in X
  BY <1>3, <1>18, <1>21, <1>28
<1>32. ASSUME NEW c \in D
       PROVE  /\ E[c].path \in V
              /\ At(E[c]) \in X =>
                   LET old == infos[At(E[c])]
                   IN  /\ E[c].path = old.path /\ E[c].children = old.children
                       /\ E[c].ids = old.ids /\ E[c].root = old.root
                       /\ E[c].revision = old.revision
                       /\ \/ E[c].memo = Unknown
                          \/ /\ E[c].memo = old.memo
                             /\ Remembers(c, old.passed) = Remembers(c, Given(c, s))
              /\ At(E[c]) \notin X =>
                   /\ E[c].memo = Unknown /\ E[c].ids = {}
                   /\ E[c].children = {} /\ E[c].root = Nothing
  <2>1. At(E[c]) = Last(path[c]) /\ E[c].path \in V
    BY <1>17, <1>28
  <2>2. CASE c = top
    <3>1. At(E[c]) = o /\ E[c] = infos[o] /\ o \in X
      BY <1>19, <1>24, <2>1, <2>2 DEF X
    <3>2. Remembers(c, infos[o].passed) = Remembers(c, Given(c, s))
      BY <1>24, <1>27, <2>2
    <3> QED
      BY <2>1, <3>1, <3>2
  <2>3. CASE c # top
    BY <1>25, <1>26, <2>1, <2>3
  <2> QED
    BY <2>2, <2>3
<1>33. /\ E[o[1]] = infos[o]
       /\ \A c \in Under(o[1]) :
            /\ IsInfo(E[c]) /\ E[c].site = c /\ E[c].passed = Given(c, s)
            /\ At(E[c]) \in Site \X Number /\ At(E[c])[1] = c
       /\ \A c \in Under(o[1]) \ {o[1]} :
            /\ E[c].path = Append(E[Parent[c]].path, At(E[c]))
            /\ At(E[c]) \in DOMAIN infos => At(E[Parent[c]]) \in DOMAIN infos
  BY <1>2, <1>29, <1>30, <1>31 DEF D, X, Q
<1>34. E = Prepared(o, s, infos) /\ D = Under(o[1]) /\ At(infos[o]) = o
  BY <1>2, PathEnds DEF E, D
<1> HIDE DEF E, D
<1> QED
  BY <1>32, <1>33, <1>34 DEF Ready, X, V

-----------------------------------------------------------------------------
(* What a turn renders and what it retains.                                *)

\* What lower_work! comes to: it goes down from the boundary rendered through
\* what the renderers emit, and stops at what remembers its input.
Turned(E, o, s, infos, reached, ret) ==
    /\ Ready(E, o, s, infos)
    /\ Reach(o[1], reached, ret)
    /\ \A c \in reached \ {o[1]} : Emits(c, Given(c, s))
    /\ \A c \in Under(o[1]) \ {o[1]} :
         /\ Parent[c] \in reached \ ret /\ Parent[c] \notin Transparent
         /\ Emits(c, Given(c, s))
         => c \in reached
    /\ \A e \in ret :
         /\ At(E[e]) \in DOMAIN infos /\ e \in Holders
         /\ E[e].memo = Input(e, s)
         /\ SameInside(s, cells, e)
         /\ Remembers(e, Given(e, s)) /\ Remembers(e, Given(e, cells))

\* A boundary is retained only if it remembers the input it has.
LEMMA RetainedIs ==
    ASSUME NEW infos, NEW o \in DOMAIN infos, NEW s \in States, NEW E, Ready(E, o, s, infos),
           Entries(infos, cells), Remembered(infos, cells),
           NEW e \in Under(o[1]), o[1] \in Site, E[e].memo = Input(e, s)
    PROVE  /\ At(E[e]) \in DOMAIN infos /\ e \in Holders
           /\ SameInside(s, cells, e)
           /\ Remembers(e, Given(e, s)) /\ Remembers(e, Given(e, cells))
<1>1. e \in Site
  BY UnderIs
<1>2. E[e].memo # Unknown
  BY <1>1, SnapshotAssumption
<1>3. At(E[e]) \in DOMAIN infos /\ At(E[e])[1] = e
  BY <1>2 DEF Ready
<1> DEFINE i == At(E[e])
           old == infos[i]
<1>4. E[e].memo = old.memo /\ Remembers(e, old.passed) = Remembers(e, Given(e, s))
  BY <1>2, <1>3 DEF Ready
<1>5. old.passed = Given(e, cells)
  BY <1>3 DEF Entries
<1>6. old.memo = Input(e, cells) /\ Remembers(e, Given(e, cells))
  BY <1>2, <1>3, <1>4 DEF Remembered
<1>7. Input(e, s) = Input(e, cells)
  BY <1>4, <1>6
<1>8. \A d \in Under(e) \ Transparent : Input(e, s)[d] = s[d] /\ Input(e, cells)[d] = cells[d]
  BY DEF Input
<1>9. SameInside(s, cells, e)
  BY <1>7, <1>8 DEF SameInside
<1>10. e \in Holders
  BY <1>6, SessionAssumption DEF Remembers
<1>11. Remembers(e, Given(e, s))
  BY <1>4, <1>5, <1>6
<1> QED
  BY <1>3, <1>6, <1>9, <1>10, <1>11

LEMMA LoweredIs ==
    ASSUME NEW infos, NEW o \in DOMAIN infos, NEW s \in States, NEW near,
           IsTree(DOMAIN infos), Entries(infos, cells), Remembered(infos, cells),
           NEW E, E = Prepared(o, s, infos), Ready(E, o, s, infos),
           NEW low, low = Lowered(o, s, infos, near)
    PROVE  /\ low.entry = E
           /\ Turned(E, o, s, infos, low.reached, low.retained)
<1> DEFINE top == infos[o].site
           below == Under(top) \ {top}
           emitted == {c \in below : /\ Emits(c, E[c].passed)
                                     /\ Parent[c] \in Transparent => c \in near}
           retained == {c \in below : Unchanged(E[c], s)}
           reached == {c \in Under(top) :
                          \A d \in ({c} \cup Over[c]) \cap below :
                              d \in emitted /\ (d # c => d \notin retained)}
           ret == retained \cap reached
<1>1. low = [entry |-> E, reached |-> reached, retained |-> ret]
  BY DEF Lowered
<1>2. low.entry = E /\ low.reached = reached /\ low.retained = ret
  BY <1>1
<1>3. top = o[1] /\ top \in Site /\ Under(top) \subseteq Site /\ top \in Under(top)
  <2>1. top = o[1] /\ o \in Site \X Number
    BY DEF Entries, IsTree
  <2> QED
    BY <2>1, UnderIs
<1>4. \A c \in below : c \in Site /\ c # Top /\ Parent[c] \in Under(top) /\ Parent[c] \in Site
  <2>1. \A c \in below : c \in Site /\ c # top
    BY <1>3
  <2> QED
    BY <1>3, <2>1, UnderIs, ParentSite
<1>5. \A c \in below : E[c].passed = Given(c, s) /\ E[c].site = c
  BY <1>3 DEF Ready
<1> HIDE DEF top
<1>6. top \in reached
  <2>1. \A d \in Over[top] : d \notin Under(top)
    <3>1. ASSUME NEW d \in Over[top], d \in Under(top) PROVE FALSE
      <4>1. d \in Site /\ top \in Under(d)
        BY <1>3, <3>1, OverIs DEF Under
      <4>2. d = top
        BY <1>3, <3>1, <4>1, UnderIs
      <4>3. top # Top
        BY <1>3, <3>1, OverIs
      <4>4. top \in Over[Parent[top]] \/ Parent[top] = top
        BY <1>3, <3>1, <4>2, <4>3, OverIs
      <4>5. Parent[top] \in Under(top)
        BY <1>3, <4>3, <4>4, ParentSite, UnderIs DEF Under
      <4> QED
        BY <1>3, <4>3, <4>5, UnderIs
    <3> QED
      BY <3>1
  <2>2. ({top} \cup Over[top]) \cap below = {}
    BY <2>1
  <2> QED
    BY <1>3, <2>2
<1>7. ASSUME NEW c \in below
      PROVE  c \in reached <=> c \in emitted /\ Parent[c] \in reached /\ Parent[c] \notin retained
  <2>1. {c} \cup Over[c] = {c} \cup ({Parent[c]} \cup Over[Parent[c]])
    BY <1>4, OverIs
  <2>2. Parent[c] \in Under(top)
    BY <1>4
  <2>3. c \notin {Parent[c]} \cup Over[Parent[c]]
    <3>1. c # Parent[c]
      BY <1>4, UnderIs
    <3>2. c \notin Over[Parent[c]]
      <4>1. c \in Over[Parent[c]] => Parent[c] \in Under(c)
        BY <1>4 DEF Under
      <4> QED
        BY <1>4, <4>1, UnderIs
    <3> QED
      BY <3>1, <3>2
  <2>4. c \in Under(top) /\ c \in below /\ (Parent[c] \in retained => Parent[c] \in below)
    OBVIOUS
  <2> DEFINE P == Parent[c]
             O == Over[Parent[c]]
  <2>5. c \in reached <=> \A d \in ({c} \cup ({P} \cup O)) \cap below :
                              d \in emitted /\ (d # c => d \notin retained)
    BY <2>1, <2>4
  <2>6. P \in reached <=> \A d \in ({P} \cup O) \cap below :
                              d \in emitted /\ (d # P => d \notin retained)
    BY <2>2
  <2>7. P \notin {c} /\ c \notin {P} \cup O
    BY <2>3
  <2>8. P \in retained => P \in below
    BY <2>4
  <2> HIDE DEF P, O, below, emitted, retained, reached
  <2> QED
    BY <2>4, <2>5, <2>6, <2>7, <2>8 DEF P
<1>8. Reach(top, reached, ret)
  <2>1. \A c \in reached \ {top} : Parent[c] \in reached \ ret
    BY <1>7
  <2>2. top \notin ret
    OBVIOUS
  <2> QED
    BY <1>3, <1>6, <2>1, <2>2 DEF Reach
<1>9. \A c \in reached \ {top} : Emits(c, Given(c, s))
  BY <1>5, <1>7
<1>10. ASSUME NEW c \in Under(top) \ {top}, Parent[c] \in reached \ ret,
              Parent[c] \notin Transparent, Emits(c, Given(c, s))
       PROVE  c \in reached
  BY <1>5, <1>7, <1>10
<1>11. ASSUME NEW e \in ret
       PROVE  /\ At(E[e]) \in DOMAIN infos /\ e \in Holders
              /\ E[e].memo = Input(e, s)
              /\ SameInside(s, cells, e)
              /\ Remembers(e, Given(e, s)) /\ Remembers(e, Given(e, cells))
  <2>1. e \in Under(o[1]) /\ E[e].memo = Input(e, s)
    BY <1>3, <1>5 DEF Unchanged
  <2> QED
    BY <1>3, <2>1, RetainedIs
<1> HIDE DEF reached, ret
<1> QED
  BY <1>2, <1>3, <1>8, <1>9, <1>10, <1>11 DEF Turned

-----------------------------------------------------------------------------
(* What a turn retires.                                                    *)

\* A boundary that is prepared and was there keeps its place, and so does all
\* it is in.
LEMMA StaysAt ==
    ASSUME NEW infos, NEW o \in DOMAIN infos, NEW s, NEW E, NEW reached, NEW ret,
           Turned(E, o, s, infos, reached, ret), NEW d \in reached
    PROVE  \A c \in reached : c \in Under(d) /\ At(E[c]) \in DOMAIN infos
              => At(E[d]) \in DOMAIN infos
<1> DEFINE X == DOMAIN infos
           S == {c \in Site : c \in reached /\ c \in Under(d) /\ At(E[c]) \in X => At(E[d]) \in X}
<1>1. Reach(o[1], reached, ret) /\ Ready(E, o, s, infos)
  BY DEF Turned
<1>2. /\ reached \subseteq Site /\ reached \subseteq Under(o[1])
      /\ \A c \in reached \ {o[1]} : Parent[c] \in reached /\ c # Top
  BY <1>1, KeptIs DEF Reach
<1>3. \A c \in Site : (c # Top /\ Parent[c] \in Site => Parent[c] \in S) => c \in S
  <2>1. ASSUME NEW c \in Site, c # Top /\ Parent[c] \in Site => Parent[c] \in S,
               c \in reached, c \in Under(d), At(E[c]) \in X, c # d
        PROVE  At(E[d]) \in X
    <3>1. c # o[1]
      BY <1>1, <1>2, <2>1, UnderIs DEF Reach
    <3>2. Parent[c] \in reached /\ Parent[c] \in Under(d) /\ Parent[c] \in Site /\ c # Top
      BY <1>2, <2>1, <3>1, UnderIs
    <3>3. At(E[Parent[c]]) \in X
      BY <1>1, <1>2, <2>1, <3>1 DEF Ready
    <3> QED
      BY <2>1, <3>2, <3>3
  <2> QED
    BY <2>1
<1> HIDE DEF S
<1>4. \A c \in Site : c \in S
  BY <1>3, SiteInduction
<1> QED
  BY <1>2, <1>4 DEF S

Lost(E, o, reached, ret) ==
    UNION {E[c].children \ {At(E[d]) : d \in Within(c, reached, o[1])} : c \in reached \ ret}
Placed(E, reached, ret) == {At(E[c]) : c \in reached \ ret}

\* What retire! is called for: of the children a boundary had, those that are not
\* among the ones it has; and what goes with them is what is neither left alone
\* nor rendered.
LEMMA RetiredIs ==
    ASSUME NEW infos, NEW o \in DOMAIN infos, NEW s, NEW E, NEW reached, NEW ret,
           IsTree(DOMAIN infos), Entries(infos, cells), Turned(E, o, s, infos, reached, ret),
           NEW lost, lost = Lost(E, o, reached, ret)
    PROVE  /\ lost \subseteq DOMAIN infos
           /\ \A i \in DOMAIN infos :
                (\E j \in lost : i[1] \in Under(j[1]))
                  <=> /\ ~ KeptSite(o[1], ret, i[1])
                      /\ i \notin Placed(E, reached, ret)
<1> DEFINE X == DOMAIN infos
           top == o[1]
           K(c) == KeptSite(top, ret, c)
           kids(c) == {At(E[d]) : d \in Within(c, reached, top)}
<1>0. Reach(top, reached, ret) /\ Ready(E, o, s, infos)
  BY DEF Turned
<1>1. /\ \A c \in reached \ ret : ~ K(c)
      /\ \A e \in ret : K(e)
      /\ \A c \in Site \ {Top} : K(c) /\ c \notin ret => K(Parent[c])
      /\ \A c \in Site \ {Top} : ~ K(c) /\ c # top => ~ K(Parent[c])
      /\ \A c \in reached \ {top} : c # Top /\ c \in Site
      /\ reached \subseteq Site /\ top \in Site /\ ret \subseteq Site
  BY <1>0, KeptIs
<1> HIDE DEF K
<1>2. /\ \A x \in X : x[1] \in Site /\ x \in Site \X Number
      /\ \A x, y \in X : x[1] = y[1] => x = y
      /\ \A x \in X : x[1] # Top => \E y \in X : y[1] = Parent[x[1]]
  BY DEF IsTree
<1>3. /\ top \in reached \ ret /\ ret \subseteq reached
      /\ \A c \in reached \ {top} : Parent[c] \in reached \ ret
      /\ reached \subseteq Under(top)
  BY <1>0 DEF Reach
<1>4. \A c \in reached : At(E[c])[1] = c
  BY <1>0, <1>3 DEF Ready
<1>5. \A c \in reached : IF At(E[c]) \in X THEN E[c].children = Inside(X, At(E[c]))
                         ELSE E[c].children = {}
  <2>1. ASSUME NEW c \in reached, At(E[c]) \in X PROVE E[c].children = Inside(X, At(E[c]))
    <3>1. E[c].children = infos[At(E[c])].children
      BY <1>0, <1>3, <2>1 DEF Ready
    <3> QED
      BY <2>1, <3>1 DEF Entries
  <2>2. ASSUME NEW c \in reached, At(E[c]) \notin X PROVE E[c].children = {}
    BY <1>0, <1>3, <2>2 DEF Ready
  <2> QED
    BY <2>1, <2>2
<1>6. \A j \in lost : \E c \in reached \ ret :
          /\ j \in X /\ j[1] # Top /\ Parent[j[1]] = c /\ j \notin kids(c)
          /\ At(E[c]) \in X
  <2>1. ASSUME NEW j \in lost
        PROVE  \E c \in reached \ ret : /\ j \in X /\ j[1] # Top /\ Parent[j[1]] = c
                                        /\ j \notin kids(c) /\ At(E[c]) \in X
    <3>1. PICK c \in reached \ ret : j \in E[c].children /\ j \notin kids(c)
      BY DEF Lost
    <3>2. At(E[c]) \in X /\ j \in Inside(X, At(E[c])) /\ At(E[c])[1] = c
      BY <1>4, <1>5, <3>1
    <3> HIDE DEF kids
    <3> QED
      BY <3>1, <3>2 DEF Inside
  <2> QED
    BY <2>1
<1>7. \A c \in reached \ ret, j \in X :
          j[1] # Top /\ Parent[j[1]] = c /\ At(E[c]) \in X /\ j \notin kids(c) => j \in lost
  <2>1. ASSUME NEW c \in reached \ ret, NEW j \in X,
               j[1] # Top /\ Parent[j[1]] = c /\ At(E[c]) \in X /\ j \notin kids(c)
        PROVE  j \in lost
    <3>1. j \in E[c].children
      BY <1>4, <1>5, <2>1 DEF Inside
    <3> QED
      BY <2>1, <3>1 DEF Lost
  <2> QED
    BY <2>1
<1>8. \A c \in reached \ ret, d \in reached \ {top} : Parent[d] = c => At(E[d]) \in kids(c)
  BY DEF Within
<1>9. \A c \in reached \ ret : \A x \in kids(c) : \E d \in reached \ {top} : x = At(E[d])
  BY DEF Within
<1> HIDE DEF kids
\* What goes with a lost child was in it.
<1>10. ASSUME NEW i \in X, NEW j \in lost, i[1] \in Under(j[1])
       PROVE  ~ K(i[1]) /\ i \notin {At(E[c]) : c \in reached \ ret}
  <2>1. PICK c \in reached \ ret : /\ j \in X /\ j[1] # Top /\ Parent[j[1]] = c
                                   /\ j \notin kids(c) /\ At(E[c]) \in X
    BY <1>6
  <2> DEFINE d == j[1]
  <2>2. d \in Site /\ c \in Site /\ i[1] \in Site
    BY <1>1, <1>2, <2>1
  <2>3. d \in Under(c) /\ d # top /\ ~ K(c)
    <3>1. d \in Under(c) /\ Parent[d] \notin Under(d)
      BY <2>1, <2>2, UnderIs
    <3> QED
      BY <1>1, <1>3, <2>1, <3>1
  <2>4. d \in Under(top)
    BY <1>1, <1>3, <2>2, <2>3, UnderIs
  \* No boundary that was there and is reached lies in it.
  <2>5. ASSUME NEW x \in reached, At(E[x]) \in X, x \in Under(d), d \in reached PROVE FALSE
    <3>1. At(E[d]) \in X
      BY <2>5, StaysAt
    <3>2. At(E[d]) = j
      BY <1>2, <1>4, <2>1, <2>5, <3>1
    <3>3. At(E[d]) \in kids(c)
      BY <1>8, <2>1, <2>3, <2>5
    <3> QED
      BY <2>1, <3>2, <3>3
  <2>6. \A x \in reached : x \in Under(d) => d \in reached
    <3> DEFINE S == {x \in Site : x \in reached /\ x \in Under(d) => d \in reached}
    <3>1. \A x \in Site : (x # Top /\ Parent[x] \in Site => Parent[x] \in S) => x \in S
      <4>1. ASSUME NEW x \in Site, x # Top /\ Parent[x] \in Site => Parent[x] \in S,
                   x \in reached, x \in Under(d), x # d
            PROVE  d \in reached
        <5>1. x # top
          BY <1>1, <2>2, <2>3, <2>4, <4>1, UnderIs
        <5>2. Parent[x] \in reached /\ x # Top /\ Parent[x] \in Site
          BY <1>1, <1>3, <4>1, <5>1
        <5>3. Parent[x] \in Under(d)
          BY <2>2, <4>1, <5>2, UnderIs
        <5> QED
          BY <4>1, <5>2, <5>3
      <4> QED
        BY <4>1
    <3> HIDE DEF S
    <3>2. \A x \in Site : x \in S
      BY <3>1, SiteInduction
    <3> QED
      BY <1>1, <3>2 DEF S
  <2>7. ASSUME NEW e \in ret, i[1] \in Under(e) PROVE FALSE
    <3>1. At(E[e]) \in X /\ e \in Site /\ e \in reached
      BY <1>1, <1>3 DEF Turned
    <3>2. e \in Under(d) \/ d \in Under(e)
      BY <1>10, <2>2, <2>7, <3>1, UnderIs
    <3>3. e \notin Under(d)
      BY <2>5, <2>6, <3>1
    <3>4. d \in Under(e) /\ d # e
      BY <2>2, <3>1, <3>2, <3>3, UnderIs
    <3>5. c \in Under(e)
      BY <2>1, <2>2, <3>1, <3>4, UnderIs
    <3> QED
      BY <2>3, <3>5 DEF K, KeptSite
  <2>8. i[1] \in Under(top)
    BY <1>1, <1>10, <2>2, <2>4, UnderIs
  <2>9. ~ K(i[1])
    BY <2>7, <2>8 DEF K, KeptSite
  <2>10. ASSUME NEW x \in reached \ ret, i = At(E[x]) PROVE FALSE
    <3>1. i[1] = x
      BY <1>4, <2>10
    <3> QED
      BY <1>10, <2>5, <2>6, <2>10, <3>1
  <2> QED
    BY <2>9, <2>10
\* What is gone went with the first above it that was lost.
<1>11. \A i \in X : ~ K(i[1]) /\ i \notin {At(E[c]) : c \in reached \ ret}
                      => \E j \in lost : i[1] \in Under(j[1])
  <2> DEFINE S == {c \in Site : \A i \in X :
                      i[1] = c /\ ~ K(c) /\ i \notin {At(E[x]) : x \in reached \ ret}
                        => \E j \in lost : c \in Under(j[1])}
  <2>1. \A c \in Site : (c # Top /\ Parent[c] \in Site => Parent[c] \in S) => c \in S
    <3>1. ASSUME NEW c \in Site, c # Top /\ Parent[c] \in Site => Parent[c] \in S,
                 NEW i \in X, i[1] = c, ~ K(c), i \notin {At(E[x]) : x \in reached \ ret}
          PROVE  \E j \in lost : c \in Under(j[1])
      <4>1. c # top
        <5>1. At(E[top]) = o
          BY <1>0 DEF Ready
        <5> QED
          BY <1>2, <1>3, <3>1, <5>1
      <4>2. c # Top /\ Parent[c] \in Site
        <5>1. c \in Under(top)
          BY <3>1 DEF K, KeptSite
        <5>2. Top \in Under(top) => top = Top
          BY <1>1, UnderIs, SessionAssumption
        <5> QED
          BY <4>1, <5>1, <5>2, ParentSite
      <4>3. ~ K(Parent[c])
        BY <1>1, <3>1, <4>1, <4>2
      <4>4. PICK p \in X : p[1] = Parent[c]
        BY <1>2, <3>1, <4>2
      <4>5. CASE p \in {At(E[x]) : x \in reached \ ret}
        <5>1. PICK x \in reached \ ret : p = At(E[x])
          BY <4>5
        <5>2. x = Parent[c] /\ At(E[x]) \in X
          BY <1>4, <4>4, <5>1
        <5>3. i \notin kids(x)
          <6>1. ASSUME i \in kids(x) PROVE FALSE
            <7>1. PICK d \in reached \ {top} : i = At(E[d])
              BY <1>9, <6>1
            <7>2. d = c
              BY <1>4, <3>1, <7>1
            <7> QED
              BY <1>1, <3>1, <7>1, <7>2
          <6> QED
            BY <6>1
        <5>4. i \in lost
          BY <1>7, <3>1, <4>2, <5>2, <5>3
        <5> QED
          BY <3>1, <5>4, UnderIs
      <4>6. CASE p \notin {At(E[x]) : x \in reached \ ret}
        <5>1. PICK j \in lost : Parent[c] \in Under(j[1])
          BY <3>1, <4>2, <4>3, <4>4, <4>6
        <5>2. j[1] \in Site
          BY <1>2, <1>6
        <5> QED
          BY <4>2, <5>1, <5>2, UnderIs
      <4> QED
        BY <4>5, <4>6
    <3> QED
      BY <3>1
  <2> HIDE DEF S
  <2>2. \A c \in Site : c \in S
    BY <2>1, SiteInduction
  <2> QED
    BY <1>2, <2>2 DEF S
<1>12. lost \subseteq X
  BY <1>6
<1> QED
  BY <1>10, <1>11, <1>12 DEF K, Placed

-----------------------------------------------------------------------------
(* The two sides of a turn.                                                *)

\* The mounted nodes: one for each boundary, with those of the boundaries in it.
Nodes(infos, graph) ==
    /\ IsTree(DOMAIN graph)
    /\ \A n \in DOMAIN graph :
         /\ graph[n] = [boundary |-> graph[n].boundary, shows |-> graph[n].shows,
                        kids |-> graph[n].kids]
         /\ graph[n].boundary \in DOMAIN infos /\ graph[n].boundary[1] = n[1]
         /\ graph[n].kids = Inside(DOMAIN graph, n)

\* The session knows each boundary's node, or nothing is mounted yet.
Roots(infos, graph) ==
    \A i \in DOMAIN infos :
        \/ /\ infos[i].root \in DOMAIN graph /\ infos[i].root[1] = i[1]
           /\ infos[i].ids = {infos[i].root}
        \/ /\ DOMAIN graph = {} /\ DOMAIN infos = {RootInstance}
           /\ infos[i].ids = {} /\ infos[i].root = Nothing

Routed(infos, graph, rts) ==
    /\ DOMAIN rts = DOMAIN graph \cup {OpenRoute}
    /\ \A n \in DOMAIN graph :
         rts[n] = [boundary |-> graph[n].boundary,
                   revision |-> infos[graph[n].boundary].revision]

\* A node shows what its boundary's place in the state says, with all that is
\* emitted there, or for a list some of it.
Shown(graph, s) ==
    \A n \in DOMAIN graph :
        /\ graph[n].shows = Shows(n[1], Given(n[1], s), s)
        /\ n[1] # Top => Emits(n[1], Given(n[1], s))
        /\ n[1] \notin Transparent =>
             \A c \in Site \ {Top} : Parent[c] = n[1] /\ Emits(c, Given(c, s))
                => \E k \in DOMAIN graph : k[1] = c

Whole(infos, graph, rts, mnt, s) ==
    /\ IsTree(DOMAIN infos) /\ Entries(infos, s) /\ Paths(infos) /\ Remembered(infos, s)
    /\ Mounted(DOMAIN infos, mnt)
    /\ Nodes(infos, graph) /\ Roots(infos, graph)
    /\ Routed(infos, graph, rts) /\ Shown(graph, s)

\* A boundary's family is all that lies in it,
LEMMA FamilyIs ==
    ASSUME NEW infos, NEW s, IsTree(DOMAIN infos), Entries(infos, s)
    PROVE  \A i \in DOMAIN infos : Family(infos)[i] = {j \in DOMAIN infos : j[1] \in Under(i[1])}
<1> DEFINE X == DOMAIN infos
           walk(f) == f = [i \in DOMAIN infos |-> {i} \cup UNION {f[j] : j \in infos[i].children}]
           family == CHOOSE f : walk(f)
           d == Down(X)
<1>1. /\ \A x \in X : d[x] = {x} \cup UNION {d[y] : y \in Inside(X, x)}
      /\ \A f : (\A x \in X : f[x] = {x} \cup UNION {f[y] : y \in Inside(X, x)})
                   => \A x \in X : f[x] = d[x]
  <2> HIDE DEF X
  <2>1. IsTree(X)
    BY DEF X
  <2> QED
    BY <2>1, DownIs
<1>2. \A x \in X : infos[x].children = Inside(X, x)
  BY DEF Entries
<1>3. d = [x \in X |-> d[x]] /\ \A x \in X : d[x] = {y \in X : y[1] \in Under(x[1])}
  BY DEF Down
<1> HIDE DEF d
<1>4. walk(d)
  BY <1>1, <1>2, <1>3
<1>5. walk(family)
  <2> HIDE DEF walk
  <2> QED
    BY <1>4
<1>6. Family(infos) = family
  BY DEF Family
<1> HIDE DEF family
<1>7. \A x \in X : family[x] = {x} \cup UNION {family[y] : y \in Inside(X, x)}
  BY <1>2, <1>5
<1>8. \A x \in X : family[x] = d[x]
  BY <1>1, <1>7
<1> QED
  BY <1>3, <1>6, <1>8

\* and so is what the mounted graph has below its node.
LEMMA SubtreeIs ==
    ASSUME NEW infos, Nodes(infos, screen)
    PROVE  \A n \in DOMAIN screen : Subtree[n] = {m \in DOMAIN screen : m[1] \in Under(n[1])}
<1> DEFINE Y == DOMAIN screen
           walk(f) == f = [n \in DOMAIN screen |-> {n} \cup UNION {f[k] : k \in screen[n].kids}]
           subtree == CHOOSE f : walk(f)
           d == Down(Y)
<1>1. /\ \A x \in Y : d[x] = {x} \cup UNION {d[y] : y \in Inside(Y, x)}
      /\ \A f : (\A x \in Y : f[x] = {x} \cup UNION {f[y] : y \in Inside(Y, x)})
                   => \A x \in Y : f[x] = d[x]
  <2> HIDE DEF Y
  <2>1. IsTree(Y)
    BY DEF Y, Nodes
  <2> QED
    BY <2>1, DownIs
<1>2. \A x \in Y : screen[x].kids = Inside(Y, x)
  BY DEF Nodes
<1>3. d = [x \in Y |-> d[x]] /\ \A x \in Y : d[x] = {y \in Y : y[1] \in Under(x[1])}
  BY DEF Down
<1> HIDE DEF d
<1>4. walk(d)
  BY <1>1, <1>2, <1>3
<1>5. walk(subtree)
  <2> HIDE DEF walk
  <2> QED
    BY <1>4
<1>6. Subtree = subtree
  BY DEF Subtree
<1> HIDE DEF subtree
<1>7. \A x \in Y : subtree[x] = {x} \cup UNION {subtree[y] : y \in Inside(Y, x)}
  BY <1>2, <1>5
<1>8. \A x \in Y : subtree[x] = d[x]
  BY <1>1, <1>7
<1> QED
  BY <1>3, <1>6, <1>8

-----------------------------------------------------------------------------
(* The session's side.                                                     *)

Places(E, reached) == [c \in reached |-> At(E[c])]

\* What finish_rebuild! and install! leave in the index of boundaries.
Installed(new, infos, E, o, s, reached, ret, id) ==
    /\ DOMAIN new = Spliced(DOMAIN infos, Places(E, reached), o[1], reached, ret)
    /\ \A c \in reached \ ret :
         new[At(E[c])] = Finished(E[c], id[c], {At(E[d]) : d \in Within(c, reached, o[1])}, s)
    /\ \A e \in ret : new[At(E[e])] = E[e]
    /\ \A i \in DOMAIN infos : KeptSite(o[1], ret, i[1]) /\ i[1] \notin ret => new[i] = infos[i]

\* A rendering puts each boundary in its place.
LEMMA PlacesPut ==
    ASSUME NEW infos, NEW o \in DOMAIN infos, NEW s, NEW E, NEW reached, NEW ret,
           IsTree(DOMAIN infos), Turned(E, o, s, infos, reached, ret)
    PROVE  /\ Puts(DOMAIN infos, Places(E, reached), o[1], reached, ret)
           /\ \A c \in reached : Places(E, reached)[c] = At(E[c])
           /\ Places(E, reached)[o[1]] = o
<1>1. Reach(o[1], reached, ret) /\ Ready(E, o, s, infos)
  BY DEF Turned
<1>2. \A c \in reached : At(E[c]) \in Site \X Number /\ At(E[c])[1] = c
  BY <1>1 DEF Ready, Reach
<1>3. \A e \in ret : At(E[e]) \in DOMAIN infos /\ e \in reached
  BY <1>1 DEF Turned, Reach
<1>4. At(E[o[1]]) = o /\ o[1] \in reached
  BY <1>1 DEF Ready, Reach
<1>5. \A c \in reached : Places(E, reached)[c] = At(E[c])
  BY DEF Places
<1> QED
  BY <1>2, <1>3, <1>4, <1>5 DEF Puts

\* What the session has after a turn agrees with what the turn rendered.
LEMMA InstalledIs ==
    ASSUME NEW infos, NEW o \in DOMAIN infos, NEW s, NEW E, NEW reached, NEW ret, NEW id,
           IsTree(DOMAIN infos), Entries(infos, cells), Paths(infos), Remembered(infos, cells),
           Turned(E, o, s, infos, reached, ret), SameOutside(s, cells, o[1]),
           \A i \in DOMAIN infos : i[1] \notin Under(o[1]) =>
              infos[i].memo = Unknown \/ infos[i].memo = Input(i[1], s),
           NEW new, Installed(new, infos, E, o, s, reached, ret, id)
    PROVE  /\ IsTree(DOMAIN new) /\ Entries(new, s) /\ Paths(new) /\ Remembered(new, s)
           /\ \A e \in ret : new[At(E[e])].revision = infos[At(E[e])].revision
           /\ \A c \in reached : At(E[c]) \in DOMAIN new
<1> DEFINE X == DOMAIN infos
           W == DOMAIN new
           top == o[1]
           K(c) == KeptSite(top, ret, c)
           at == Places(E, reached)
<1>0. Reach(top, reached, ret) /\ Ready(E, o, s, infos)
  BY DEF Turned
<1>1. /\ \A c \in reached \ ret : ~ K(c)
      /\ \A e \in ret : K(e)
      /\ \A c \in Site \ {Top} : K(c) /\ c \notin ret => K(Parent[c])
      /\ \A c \in Site \ {Top} : ~ K(c) /\ c # top => ~ K(Parent[c])
      /\ \A c \in reached \ {top} : c # Top /\ c \in Site
      /\ reached \subseteq Site /\ top \in Site /\ ret \subseteq Site
  BY <1>0, KeptIs
<1>2. /\ Puts(X, at, top, reached, ret)
      /\ \A c \in reached : at[c] = At(E[c])
      /\ at[top] = o
  BY PlacesPut
<1>3. W = Spliced(X, at, top, reached, ret)
  BY DEF Installed
<1> HIDE DEF at, W
<1>4. /\ IsTree(W)
      /\ \A c \in reached : at[c] \in W
      /\ \A z \in X : K(z[1]) =>
           Inside(W, z) = Renewed(top, at[top], Inside(X, z))
      /\ \A c \in reached \ ret :
           Inside(W, at[c]) = Put(at, Within(c, reached, top))
  <2> HIDE DEF X, top
  <2>1. IsTree(X) /\ Reach(top, reached, ret)
    BY <1>0 DEF X, top
  <2>2. /\ IsTree(W)
        /\ \A c \in reached : at[c] \in W
        /\ \A z \in X : KeptSite(top, ret, z[1]) =>
             Inside(W, z) = Renewed(top, at[top], Inside(X, z))
        /\ \A c \in reached \ ret :
             Inside(W, at[c]) = Put(at, Within(c, reached, top))
    <3>1. Puts(X, at, top, reached, ret)
      BY <1>2
    <3> HIDE DEF K
    <3> QED
      BY <1>3, <2>1, <3>1, SplicedTree
  <2> QED
    BY <2>2 DEF K
<1>5. /\ \A x \in X : x[1] \in Site /\ x \in Site \X Number
      /\ \A x, y \in X : x[1] = y[1] => x = y
      /\ \A x \in W : x[1] \in Site /\ x \in Site \X Number
      /\ \A x, y \in W : x[1] = y[1] => x = y
      /\ \A x \in X : x[1] # Top => \E y \in X : y[1] = Parent[x[1]]
  BY <1>4 DEF IsTree
<1>6. /\ top \in reached \ ret /\ ret \subseteq reached
      /\ \A c \in reached \ {top} : Parent[c] \in reached \ ret
      /\ reached \subseteq Under(top)
  BY <1>0 DEF Reach
<1>7. W = {z \in X : K(z[1])} \cup {at[c] : c \in reached \ ret}
  BY <1>3 DEF Spliced, K
<1>8. \A c \in reached : at[c][1] = c
  BY <1>0, <1>2, <1>6 DEF Ready
\* The three kinds of boundaries there are now.
<1>9. /\ \A c \in reached \ ret : new[at[c]] = Finished(E[c], id[c], {At(E[d]) : d \in Within(c, reached, top)}, s)
      /\ \A e \in ret : new[at[e]] = E[e] /\ at[e] \in X
      /\ \A i \in X : K(i[1]) /\ i[1] \notin ret => new[i] = infos[i]
  <2>1. \A e \in ret : At(E[e]) \in X
    BY DEF Turned
  <2> QED
    BY <1>2, <1>6, <2>1 DEF Installed
<1>10. \A i \in W : \/ \E c \in reached \ ret : i = at[c]
                    \/ \E e \in ret : i = at[e]
                    \/ i \in X /\ K(i[1]) /\ i[1] \notin ret
  <2>1. ASSUME NEW i \in W, i \in X, K(i[1]), i[1] \in ret PROVE i = at[i[1]]
    BY <1>5, <1>6, <1>8, <1>9, <2>1
  <2> QED
    BY <1>7, <2>1
<1> HIDE DEF K
\* What a boundary left alone has inside it is what it had.
<1>11. \A z \in X : K(z[1]) => Inside(W, z) = Inside(X, z)
  <2>1. ASSUME NEW z \in X, K(z[1]) PROVE Inside(W, z) = Inside(X, z)
    <3>1. \A y \in Inside(X, z) : y \in X /\ (y[1] = top => y = at[top])
      BY <1>2, <1>5 DEF Inside
    <3>2. Inside(W, z) = Renewed(top, at[top], Inside(X, z))
      BY <1>4, <2>1
    <3> QED
      BY <3>1, <3>2 DEF Renewed
  <2> QED
    BY <2>1
\* What it was given is what it is given.
<1>12. ASSUME NEW c \in Site, K(c), c \notin ret PROVE Given(c, s) = Given(c, cells)
  <2>1. CASE c \notin Under(top)
    BY <1>1, <2>1, GivenOutside
  <2>2. ASSUME NEW e \in ret, c \in Under(e) PROVE Given(c, s) = Given(c, cells)
    <3>1. e \in Holders /\ SameInside(s, cells, e) /\ c # e
      BY <1>12 DEF Turned
    <3> QED
      BY <2>2, <3>1, GivenInside
  <2> QED
    BY <1>12, <2>1, <2>2 DEF K, KeptSite
\* What a rendered boundary has.
<1>13. ASSUME NEW c \in reached \ ret
       PROVE  /\ IsInfo(new[at[c]]) /\ new[at[c]].site = c
              /\ new[at[c]].passed = Given(c, s)
              /\ new[at[c]].children = Inside(W, at[c])
              /\ new[at[c]].path = E[c].path
              /\ \/ new[at[c]].memo = Unknown
                 \/ new[at[c]].memo = Input(c, s) /\ Remembers(c, Given(c, s))
  <2> DEFINE kids == {At(E[d]) : d \in Within(c, reached, top)}
             m == IF Remembers(c, Given(c, s)) THEN Input(c, s) ELSE Unknown
             e == E[c]
             v == E[c].revision + 1
  <2>1. IsInfo(e) /\ e.site = c /\ e.passed = Given(c, s)
    BY <1>0, <1>6 DEF Ready
  <2>2. kids = Inside(W, at[c])
    <3>1. \A d \in Within(c, reached, top) : at[d] = At(E[d])
      BY <1>2 DEF Within
    <3> QED
      BY <1>4, <3>1 DEF Put
  <2>3. new[at[c]] = Finished(e, id[c], kids, s)
    BY <1>9
  <2> HIDE DEF e, kids
  <2>3a. m = IF Remembers(e.site, e.passed) THEN Input(e.site, s) ELSE Unknown
    BY <2>1
  <2> HIDE DEF m
  <2>3b. v = e.revision + 1
    BY DEF e
  <2> HIDE DEF v
  <2>3c. Finished(e, id[c], kids, s) =
           [e EXCEPT !.revision = v, !.ids = {id[c]}, !.children = kids, !.root = id[c],
                     !.memo = m]
    BY <2>3a, <2>3b DEF Finished
  <2>4. Finished(e, id[c], kids, s) =
          [site |-> e.site, path |-> e.path, passed |-> e.passed, memo |-> m,
           revision |-> v, ids |-> {id[c]}, children |-> kids, root |-> id[c]]
    BY <2>1, <2>3c DEF IsInfo
  <2>5. /\ IsInfo(new[at[c]]) /\ new[at[c]].site = c
        /\ new[at[c]].passed = Given(c, s)
        /\ new[at[c]].children = kids /\ new[at[c]].path = e.path /\ new[at[c]].memo = m
    BY <2>1, <2>3, <2>4 DEF IsInfo
  <2> QED
    BY <2>2, <2>5 DEF m, e
\* What a retained one has.
<1>14. ASSUME NEW e \in ret
       PROVE  /\ IsInfo(new[at[e]]) /\ new[at[e]].site = e
              /\ new[at[e]].passed = Given(e, s)
              /\ new[at[e]].children = Inside(W, at[e])
              /\ new[at[e]].path = E[e].path /\ E[e].path = infos[at[e]].path
              /\ new[at[e]].memo = Input(e, s) /\ Remembers(e, Given(e, s))
              /\ new[at[e]].revision = infos[at[e]].revision
  <2>1. /\ new[at[e]] = E[e] /\ at[e] \in X /\ at[e] = At(E[e]) /\ at[e][1] = e
        /\ e \in reached /\ e \in Under(top)
    BY <1>2, <1>6, <1>8, <1>9
  <2>2. /\ IsInfo(E[e]) /\ E[e].site = e /\ E[e].passed = Given(e, s)
        /\ E[e].path = infos[at[e]].path /\ E[e].children = infos[at[e]].children
        /\ E[e].revision = infos[at[e]].revision
    BY <1>0, <2>1 DEF Ready
  <2>3. infos[at[e]].children = Inside(X, at[e])
    BY <2>1 DEF Entries
  <2>4. Inside(X, at[e]) = Inside(W, at[e])
    BY <1>1, <1>11, <2>1
  <2>5. E[e].memo = Input(e, s) /\ Remembers(e, Given(e, s))
    BY DEF Turned
  <2> QED
    BY <2>1, <2>2, <2>3, <2>4, <2>5
<1>15. Entries(new, s)
  <2>1. ASSUME NEW i \in W
        PROVE  /\ IsInfo(new[i]) /\ new[i].site = i[1]
               /\ new[i].passed = Given(i[1], s)
               /\ new[i].children = Inside(W, i)
    <3>1. ASSUME NEW c \in reached \ ret, i = at[c]
          PROVE  /\ IsInfo(new[i]) /\ new[i].site = i[1]
                 /\ new[i].passed = Given(i[1], s)
                 /\ new[i].children = Inside(W, i)
      BY <1>8, <1>13, <3>1
    <3>2. ASSUME NEW e \in ret, i = at[e]
          PROVE  /\ IsInfo(new[i]) /\ new[i].site = i[1]
                 /\ new[i].passed = Given(i[1], s)
                 /\ new[i].children = Inside(W, i)
      BY <1>6, <1>8, <1>14, <3>2
    <3>3. CASE i \in X /\ K(i[1]) /\ i[1] \notin ret
      <4>1. new[i] = infos[i]
        BY <1>9, <3>3
      <4>2. Given(i[1], s) = Given(i[1], cells)
        BY <1>5, <1>12, <3>3
      <4> QED
        BY <1>11, <3>3, <4>1, <4>2 DEF Entries
    <3> QED
      BY <1>10, <3>1, <3>2, <3>3
  <2> QED
    BY <2>1 DEF Entries, W
<1>16. Remembered(new, s)
  <2>1. ASSUME NEW i \in W
        PROVE  new[i].memo = Unknown \/ (new[i].memo = Input(i[1], s) /\ Remembers(i[1], Given(i[1], s)))
    <3>1. ASSUME NEW c \in reached \ ret, i = at[c]
          PROVE  new[i].memo = Unknown \/ (new[i].memo = Input(i[1], s) /\ Remembers(i[1], Given(i[1], s)))
      BY <1>8, <1>13, <3>1
    <3>2. ASSUME NEW e \in ret, i = at[e]
          PROVE  new[i].memo = Unknown \/ (new[i].memo = Input(i[1], s) /\ Remembers(i[1], Given(i[1], s)))
      BY <1>6, <1>8, <1>14, <3>2
    <3>3. ASSUME i \in X, K(i[1]), i[1] \notin ret, infos[i].memo # Unknown
          PROVE  infos[i].memo = Input(i[1], s) /\ Remembers(i[1], Given(i[1], s))
      <4>1. infos[i].memo = Input(i[1], cells) /\ Remembers(i[1], Given(i[1], cells))
        BY <3>3 DEF Remembered
      <4>2. Given(i[1], s) = Given(i[1], cells)
        BY <1>5, <1>12, <3>3
      <4>3. ASSUME NEW e \in ret, i[1] \in Under(e) PROVE Input(i[1], s) = Input(i[1], cells)
        <5>1. \A d \in Under(i[1]) \ Transparent : s[d] = cells[d]
          <6>1. SameInside(s, cells, e) /\ e \in Site /\ i[1] \in Site
            BY <1>1, <1>5, <3>3 DEF Turned
          <6>2. \A d \in Under(i[1]) : d \in Under(e)
            BY <4>3, <6>1, UnderIs
          <6> QED
            BY <6>1, <6>2 DEF SameInside
        <5> QED
          BY <5>1 DEF Input
      <4>4. i[1] \notin Under(top) => infos[i].memo = Input(i[1], s)
        BY <3>3
      <4> QED
        BY <3>3, <4>1, <4>2, <4>3, <4>4 DEF K, KeptSite
    <3>4. i \in X /\ K(i[1]) /\ i[1] \notin ret => new[i] = infos[i]
      BY <1>9
    <3> QED
      BY <1>10, <3>1, <3>2, <3>3, <3>4
  <2> QED
    BY <2>1 DEF Remembered, W
\* A path is the parent's and the boundary, whatever kinds the two are.
<1>17. Paths(new)
  <2>1. \A c \in reached : new[at[c]].path = E[c].path
    BY <1>13, <1>14
  <2>2. \A c \in reached : at[c] \in X => E[c].path = infos[at[c]].path
    BY <1>0, <1>2, <1>6 DEF Ready
  <2>3. \A i \in W : i \in X => new[i].path = infos[i].path
    BY <1>6, <1>9, <1>10, <2>1, <2>2
  <2>4. ASSUME NEW i \in W, i \notin X PROVE \E c \in reached \ {top} : i = at[c] /\ i[1] = c
    BY <1>2, <1>6, <1>8, <1>10, <2>4
  <2>5. \A c \in reached \ {top} : E[c].path = Append(E[Parent[c]].path, at[c])
    BY <1>0, <1>2, <1>6 DEF Ready
  <2>6. \A c \in reached : E[c].path \in Seq(Site \X Number)
    BY <1>0, <1>6 DEF Ready
  <2>7. ASSUME NEW i \in W
        PROVE  /\ new[i].path \in Seq(Site \X Number)
               /\ i[1] = Top => new[i].path = <<i>>
               /\ \A p \in W : i[1] # Top /\ p[1] = Parent[i[1]] => new[i].path = Append(new[p].path, i)
    <3>1. new[i].path \in Seq(Site \X Number)
      <4>1. i \in X => infos[i].path \in Seq(Site \X Number)
        BY DEF Paths
      <4> QED
        BY <2>1, <2>3, <2>4, <2>6, <4>1
    <3>2. ASSUME i[1] = Top PROVE new[i].path = <<i>>
      <4>1. i \in X
        BY <1>1, <2>4, <3>2
      <4> QED
        BY <2>3, <3>2, <4>1 DEF Paths
    <3>3. ASSUME NEW p \in W, i[1] # Top, p[1] = Parent[i[1]]
          PROVE  new[i].path = Append(new[p].path, i)
      <4>1. CASE i \in X /\ p \in X
        <5>1. infos[i].path = Append(infos[p].path, i)
          BY <3>3, <4>1 DEF Paths
        <5> QED
          BY <2>3, <4>1, <5>1
      <4>2. ASSUME NEW c \in reached \ {top}, i = at[c]
            PROVE  new[i].path = Append(new[p].path, i)
        <5>1. i[1] = c /\ Parent[c] \in reached
          BY <1>6, <1>8, <4>2
        <5>2. at[Parent[c]] \in W /\ at[Parent[c]][1] = Parent[c]
          BY <1>4, <1>8, <5>1
        <5>3. p = at[Parent[c]]
          BY <1>5, <3>3, <5>1, <5>2
        <5> QED
          BY <2>1, <2>5, <4>2, <5>1, <5>3
      <4>3. ASSUME i \in X, p \notin X PROVE \E c \in reached \ {top} : i = at[c]
        <5>1. PICK c \in reached \ {top} : p = at[c] /\ p[1] = c
          BY <2>4, <4>3
        <5>2. c \in reached \ ret /\ Parent[i[1]] = c
          BY <1>9, <3>3, <4>3, <5>1
        <5>3. i[1] # top
          <6>1. Parent[i[1]] \in Under(top)
            BY <1>6, <5>2
          <6> QED
            BY <1>1, <3>3, <6>1, UnderIs
        <5>4. i \in Inside(W, at[c])
          BY <3>3, <5>1 DEF Inside
        <5>5. i \in Put(at, Within(c, reached, top))
          BY <1>4, <5>2, <5>4
        <5> QED
          BY <5>5 DEF Put, Within
      <4> QED
        BY <2>4, <4>1, <4>2, <4>3
    <3> QED
      BY <3>1, <3>2, <3>3
  <2> QED
    BY <2>7 DEF Paths, W
<1>18. \A e \in ret : new[At(E[e])].revision = infos[At(E[e])].revision
  BY <1>2, <1>6, <1>14
<1>19. \A c \in reached : At(E[c]) \in W
  BY <1>2, <1>4
<1> QED
  BY <1>4, <1>15, <1>16, <1>17, <1>18, <1>19 DEF W

-----------------------------------------------------------------------------
(* The native side.                                                        *)

\* The nodes of what was reached: new ones for what is rendered, and the old ones
\* of what is retained.
Ids(graph, E, reached, ret, id) ==
    /\ \A c \in reached \ ret :
         id[c] \in Site \X Number /\ id[c][1] = c /\ id[c] \notin DOMAIN graph
    /\ \A e \in ret : id[e] = E[e].root

\* What Replace leaves mounted.
Patched(graph, g, E, o, s, reached, ret, id) ==
    /\ DOMAIN g = Spliced(DOMAIN graph, id, o[1], reached, ret)
    /\ \A c \in reached \ ret :
         g[id[c]] = [boundary |-> At(E[c]), shows |-> Shows(c, Given(c, s), s),
                     kids |-> Put(id, Within(c, reached, o[1]))]
    /\ \A n \in DOMAIN graph : KeptSite(o[1], ret, n[1]) =>
         g[n] = [boundary |-> graph[n].boundary, shows |-> graph[n].shows,
                 kids |-> Renewed(o[1], id[o[1]], graph[n].kids)]

\* Until something is mounted there is one boundary, the root's.
LEMMA RootsAre ==
    ASSUME NEW infos, NEW graph, IsTree(DOMAIN infos), Roots(infos, graph), NEW i \in DOMAIN infos,
           DOMAIN graph # {} \/ i[1] # Top
    PROVE  /\ infos[i].root \in DOMAIN graph /\ infos[i].root[1] = i[1]
           /\ infos[i].ids = {infos[i].root}
<1>1. ASSUME DOMAIN infos = {RootInstance}, i[1] # Top PROVE FALSE
  <2>1. i = RootInstance
    BY <1>1
  <2> QED
    BY <1>1, <2>1 DEF RootInstance
<1> QED
  BY <1>1 DEF Roots

LEMMA IdsPut ==
    ASSUME NEW infos, NEW graph, NEW o \in DOMAIN infos, NEW s, NEW E, NEW reached, NEW ret, NEW id,
           IsTree(DOMAIN infos), IsTree(DOMAIN graph), Turned(E, o, s, infos, reached, ret),
           Roots(infos, graph), Ids(graph, E, reached, ret, id)
    PROVE  Puts(DOMAIN graph, id, o[1], reached, ret)
<1>1. /\ Reach(o[1], reached, ret) /\ Ready(E, o, s, infos)
      /\ \A e \in ret : At(E[e]) \in DOMAIN infos
  BY DEF Turned
<1>2. /\ \A c \in reached \ {o[1]} : c # Top
      /\ ret \subseteq reached /\ o[1] \in reached \ ret /\ reached \subseteq Under(o[1])
  BY <1>1, KeptIs DEF Reach
<1>3. ASSUME NEW e \in ret PROVE id[e] \in DOMAIN graph /\ id[e][1] = e
  <2>1. e # Top /\ e \in Under(o[1]) /\ At(E[e]) \in DOMAIN infos
    BY <1>1, <1>2
  <2>2. At(E[e])[1] = e /\ E[e].root = infos[At(E[e])].root
    BY <1>1, <2>1 DEF Ready
  <2>3. infos[At(E[e])].root \in DOMAIN graph /\ infos[At(E[e])].root[1] = e
    BY <2>1, <2>2, RootsAre
  <2> QED
    BY <2>2, <2>3 DEF Ids
<1>4. (\E z \in DOMAIN graph : z[1] = o[1]) \/ (DOMAIN graph = {} /\ o[1] = Top)
  <2>1. CASE DOMAIN graph # {} \/ o[1] # Top
    <3>1. infos[o].root \in DOMAIN graph /\ infos[o].root[1] = o[1]
      BY <2>1, RootsAre
    <3> QED
      BY <3>1
  <2> QED
    BY <2>1
<1>5. DOMAIN graph \subseteq Site \X Number
  BY DEF IsTree
<1> QED
  BY <1>2, <1>3, <1>4, <1>5 DEF Ids, Puts

\* A node by its fields.
IsNode(x, boundary, shows, kids) ==
    /\ x = [boundary |-> x.boundary, shows |-> x.shows, kids |-> x.kids]
    /\ x.boundary = boundary /\ x.shows = shows /\ x.kids = kids

LEMMA NodeIs ==
    ASSUME NEW x, NEW boundary, NEW shows, NEW kids,
           x = [boundary |-> boundary, shows |-> shows, kids |-> kids]
    PROVE  IsNode(x, boundary, shows, kids)
BY DEF IsNode

\* What is mounted after a turn agrees with what the session has, and shows what
\* it should.
LEMMA PatchedIs ==
    ASSUME NEW infos, NEW graph, NEW o \in DOMAIN infos, NEW s, NEW E, NEW reached, NEW ret, NEW id,
           IsTree(DOMAIN infos), Nodes(infos, graph), Roots(infos, graph), Shown(graph, cells),
           Turned(E, o, s, infos, reached, ret), SameOutside(s, cells, o[1]),
           Ids(graph, E, reached, ret, id),
           NEW new, IsTree(DOMAIN new), Entries(new, s), Installed(new, infos, E, o, s, reached, ret, id),
           NEW g, Patched(graph, g, E, o, s, reached, ret, id)
    PROVE  Nodes(new, g) /\ Roots(new, g) /\ Shown(g, s)
<1> DEFINE X == DOMAIN infos
           Y == DOMAIN graph
           W == DOMAIN new
           Z == DOMAIN g
           top == o[1]
           K(c) == KeptSite(top, ret, c)
<1>0. Reach(top, reached, ret) /\ Ready(E, o, s, infos)
  BY DEF Turned
<1>1. /\ \A c \in reached \ ret : ~ K(c)
      /\ \A e \in ret : K(e)
      /\ \A c \in Site \ {Top} : K(c) /\ c \notin ret => K(Parent[c])
      /\ \A c \in Site \ {Top} : ~ K(c) /\ c # top => ~ K(Parent[c])
      /\ \A c \in reached \ {top} : c # Top /\ c \in Site
      /\ reached \subseteq Site /\ top \in Site /\ ret \subseteq Site
  BY <1>0, KeptIs
<1>2. Puts(Y, id, top, reached, ret) /\ IsTree(Y)
  BY IdsPut DEF Nodes
<1>3. Z = Spliced(Y, id, top, reached, ret)
  BY DEF Patched
<1>4. /\ IsTree(Z)
      /\ \A c \in reached : id[c] \in Z
      /\ \A z \in Y : K(z[1]) => Inside(Z, z) = Renewed(top, id[top], Inside(Y, z))
      /\ \A c \in reached \ ret : Inside(Z, id[c]) = Put(id, Within(c, reached, top))
  <2> HIDE DEF Y, Z, top
  <2>1. /\ IsTree(Z)
        /\ \A c \in reached : id[c] \in Z
        /\ \A z \in Y : KeptSite(top, ret, z[1]) => Inside(Z, z) = Renewed(top, id[top], Inside(Y, z))
        /\ \A c \in reached \ ret : Inside(Z, id[c]) = Put(id, Within(c, reached, top))
    <3>1. Reach(top, reached, ret)
      BY <1>0 DEF top
    <3> HIDE DEF K
    <3> QED
      BY <1>2, <1>3, <3>1, SplicedTree
  <2> QED
    BY <2>1 DEF K
<1>5. /\ \A x \in Y : x[1] \in Site
      /\ \A x, y \in Y : x[1] = y[1] => x = y
      /\ \A x \in Z : x[1] \in Site
      /\ \A x, y \in Z : x[1] = y[1] => x = y
      /\ \A x \in X : x[1] \in Site
  BY <1>2, <1>4 DEF IsTree
<1>6. /\ top \in reached \ ret /\ ret \subseteq reached
      /\ \A c \in reached \ {top} : Parent[c] \in reached \ ret
      /\ reached \subseteq Under(top)
  BY <1>0 DEF Reach
<1>7. Z = {z \in Y : K(z[1])} \cup {id[c] : c \in reached \ ret}
  BY <1>3 DEF Spliced, K
<1>8. \A c \in reached : id[c][1] = c
  BY <1>2 DEF Puts
<1>9. /\ \A c \in reached : At(E[c]) \in W /\ At(E[c])[1] = c
      /\ \A i \in X : K(i[1]) => i \in W
      /\ \A i \in W : \/ \E c \in reached \ ret : i = At(E[c])
                      \/ i \in X /\ K(i[1])
  <2>1. /\ W = {z \in X : K(z[1])} \cup {Places(E, reached)[c] : c \in reached \ ret}
        /\ \A c \in reached : Places(E, reached)[c] = At(E[c])
    BY PlacesPut DEF Installed, Spliced, K
  <2>2. \A c \in reached : At(E[c])[1] = c
    BY <1>0, <1>6 DEF Ready
  <2>3. \A e \in ret : At(E[e]) \in X /\ K(At(E[e])[1])
    BY <1>1, <1>6, <2>2 DEF Turned
  <2> HIDE DEF W, X, K
  <2> QED
    BY <2>1, <2>2, <2>3
<1>10. /\ \A c \in reached \ ret :
             IsNode(g[id[c]], At(E[c]), Shows(c, Given(c, s), s), Put(id, Within(c, reached, top)))
       /\ \A n \in Y : K(n[1]) =>
             IsNode(g[n], graph[n].boundary, graph[n].shows, Renewed(top, id[top], graph[n].kids))
  <2>1. ASSUME NEW c \in reached \ ret
        PROVE  IsNode(g[id[c]], At(E[c]), Shows(c, Given(c, s), s), Put(id, Within(c, reached, top)))
    <3>1. g[id[c]] = [boundary |-> At(E[c]), shows |-> Shows(c, Given(c, s), s),
                      kids |-> Put(id, Within(c, reached, top))]
      BY DEF Patched
    <3> QED
      BY <3>1, NodeIs
  <2>2. ASSUME NEW n \in Y, K(n[1])
        PROVE  IsNode(g[n], graph[n].boundary, graph[n].shows, Renewed(top, id[top], graph[n].kids))
    <3>1. g[n] = [boundary |-> graph[n].boundary, shows |-> graph[n].shows,
                  kids |-> Renewed(top, id[top], graph[n].kids)]
      BY <2>2 DEF Patched
    <3> QED
      BY <3>1, NodeIs
  <2> HIDE DEF K, Y
  <2> QED
    BY <2>1, <2>2
<1>11. \A n \in Y : /\ graph[n].boundary \in X /\ graph[n].boundary[1] = n[1]
                    /\ graph[n].kids = Inside(Y, n)
  BY DEF Nodes
<1> HIDE DEF X, Y, W, Z, K, top
<1>12. Nodes(new, g)
  <2>1. ASSUME NEW n \in Z
        PROVE  /\ g[n] = [boundary |-> g[n].boundary, shows |-> g[n].shows, kids |-> g[n].kids]
               /\ g[n].boundary \in W /\ g[n].boundary[1] = n[1]
               /\ g[n].kids = Inside(Z, n)
    <3>1. ASSUME NEW c \in reached \ ret, n = id[c]
          PROVE  /\ g[n] = [boundary |-> g[n].boundary, shows |-> g[n].shows, kids |-> g[n].kids]
                 /\ g[n].boundary \in W /\ g[n].boundary[1] = n[1]
                 /\ g[n].kids = Inside(Z, n)
      <4>1. IsNode(g[n], At(E[c]), Shows(c, Given(c, s), s), Put(id, Within(c, reached, top)))
        BY <1>10, <3>1
      <4>2. At(E[c]) \in W /\ At(E[c])[1] = n[1] /\ Put(id, Within(c, reached, top)) = Inside(Z, n)
        BY <1>4, <1>8, <1>9, <3>1
      <4> QED
        BY <4>1, <4>2 DEF IsNode
    <3>2. ASSUME n \in Y, K(n[1])
          PROVE  /\ g[n] = [boundary |-> g[n].boundary, shows |-> g[n].shows, kids |-> g[n].kids]
                 /\ g[n].boundary \in W /\ g[n].boundary[1] = n[1]
                 /\ g[n].kids = Inside(Z, n)
      <4>1. IsNode(g[n], graph[n].boundary, graph[n].shows, Renewed(top, id[top], graph[n].kids))
        BY <1>10, <3>2
      <4>2. graph[n].boundary \in W /\ graph[n].boundary[1] = n[1]
        BY <1>9, <1>11, <3>2
      <4>3. Renewed(top, id[top], graph[n].kids) = Inside(Z, n)
        BY <1>4, <1>11, <3>2
      <4> QED
        BY <4>1, <4>2, <4>3 DEF IsNode
    <3> QED
      BY <1>7, <3>1, <3>2
  <2> QED
    BY <1>4, <2>1 DEF Nodes, W, Z
<1>13. Roots(new, g)
  <2>1. ASSUME NEW i \in W
        PROVE  /\ new[i].root \in Z /\ new[i].root[1] = i[1]
               /\ new[i].ids = {new[i].root}
    <3>1. ASSUME NEW c \in reached \ ret, i = At(E[c])
          PROVE  /\ new[i].root \in Z /\ new[i].root[1] = i[1]
                 /\ new[i].ids = {new[i].root}
      <4>1. new[i] = Finished(E[c], id[c], {At(E[d]) : d \in Within(c, reached, top)}, s)
        BY <3>1 DEF Installed, top
      <4> DEFINE kids == {At(E[d]) : d \in Within(c, reached, top)}
                 e == E[c]
                 m == IF Remembers(e.site, e.passed) THEN Input(e.site, s) ELSE Unknown
                 v == e.revision + 1
      <4>2. IsInfo(e)
        BY <1>0, <1>6 DEF Ready, top
      <4>3. Finished(e, id[c], kids, s) =
              [e EXCEPT !.revision = v, !.ids = {id[c]}, !.children = kids, !.root = id[c],
                        !.memo = m]
        BY DEF Finished
      <4>4. new[i] = Finished(e, id[c], kids, s)
        BY <4>1
      <4> HIDE DEF e, m, v, kids
      <4>5. new[i].root = id[c] /\ new[i].ids = {id[c]}
        BY <4>2, <4>3, <4>4 DEF IsInfo
      <4> QED
        BY <1>4, <1>8, <1>9, <3>1, <4>5
    <3>2. ASSUME i \in X, K(i[1])
          PROVE  /\ infos[i].root \in Z /\ infos[i].root[1] = i[1]
                 /\ infos[i].ids = {infos[i].root}
      <4>1. Y # {} \/ i[1] # Top
        <5>1. ASSUME Y = {}, i[1] = Top PROVE FALSE
          <6>1. top = Top
            BY <1>2, <5>1 DEF Puts
          <6>2. Top \in Under(top)
            BY <1>1, <6>1, UnderIs
          <6>3. \A e \in ret : Top \notin Under(e)
            <7>1. ASSUME NEW e \in ret, Top \in Under(e) PROVE FALSE
              <8>1. e \in Under(Top) /\ e \in Site /\ Top \in Site
                BY <1>1, <6>1, UnderIs
              <8>2. e = Top
                BY <7>1, <8>1, UnderIs
              <8> QED
                BY <1>6, <6>1, <8>2
            <7> QED
              BY <7>1
          <6> QED
            BY <3>2, <5>1, <6>2, <6>3 DEF K, KeptSite
        <5> QED
          BY <5>1
      <4>2. /\ infos[i].root \in Y /\ infos[i].root[1] = i[1]
            /\ infos[i].ids = {infos[i].root}
        BY <3>2, <4>1, RootsAre DEF X, Y
      <4> QED
        BY <1>7, <3>2, <4>2
    <3>3. ASSUME NEW e \in ret, i = At(E[e])
          PROVE  new[i].root = infos[i].root /\ new[i].ids = infos[i].ids /\ i \in X /\ K(i[1])
      <4>1. new[i] = E[e] /\ i \in X /\ e \in Under(top) /\ i[1] = e
        BY <1>6, <1>9, <3>3 DEF Installed, Turned, X
      <4>2. E[e].root = infos[i].root /\ E[e].ids = infos[i].ids
        BY <1>0, <3>3, <4>1 DEF Ready, X, top
      <4> QED
        BY <1>1, <4>1, <4>2
    <3>4. ASSUME i \in X, K(i[1]), \A e \in ret : i # At(E[e]) PROVE new[i] = infos[i]
      <4>1. i[1] \notin ret
        <5>1. ASSUME i[1] \in ret PROVE FALSE
          <6>1. At(E[i[1]]) \in X /\ At(E[i[1]])[1] = i[1]
            BY <1>6, <1>9, <5>1 DEF Turned, X
          <6>2. i = At(E[i[1]])
            BY <3>4, <6>1 DEF IsTree, X
          <6> QED
            BY <3>4, <5>1, <6>2
        <5> QED
          BY <5>1
      <4> QED
        BY <3>4, <4>1 DEF Installed, X, K, top
    <3> QED
      BY <1>9, <3>1, <3>2, <3>3, <3>4
  <2> QED
    BY <2>1 DEF Roots, W, Z
\* What was passed to what stays is what it would be passed now.
<1>14. ASSUME NEW c \in Site, K(c), c \notin ret PROVE Given(c, s) = Given(c, cells)
  <2>1. CASE c \notin Under(top)
    BY <1>1, <2>1, GivenOutside DEF top
  <2>2. ASSUME NEW e \in ret, c \in Under(e) PROVE Given(c, s) = Given(c, cells)
    <3>1. e \in Holders /\ SameInside(s, cells, e) /\ c # e
      BY <1>14 DEF Turned
    <3> QED
      BY <2>2, <3>1, GivenInside
  <2> QED
    BY <1>14, <2>1, <2>2 DEF K, KeptSite
<1>15. ASSUME NEW c \in Site \ {Top}, K(Parent[c]) PROVE Given(c, s) = Given(c, cells)
  <2>1. CASE Parent[c] \notin Under(top)
    <3>1. c \notin Under(top) \/ c = top
      BY <1>1, <2>1, UnderIs
    <3> QED
      BY <1>1, <3>1, GivenOutside DEF top
  <2>2. ASSUME NEW e \in ret, Parent[c] \in Under(e) PROVE Given(c, s) = Given(c, cells)
    <3>1. e \in Holders /\ SameInside(s, cells, e) /\ e \in Site
      BY <1>1 DEF Turned
    <3>2. c \in Under(e) /\ c # e
      BY <2>2, <3>1, UnderIs
    <3> QED
      BY <3>1, <3>2, GivenInside
  <2> QED
    BY <1>15, <2>1, <2>2 DEF K, KeptSite
<1>16. Shown(g, s)
  <2>1. ASSUME NEW n \in Z
        PROVE  /\ g[n].shows = Shows(n[1], Given(n[1], s), s)
               /\ n[1] # Top => Emits(n[1], Given(n[1], s))
               /\ n[1] \notin Transparent =>
                    \A c \in Site \ {Top} : Parent[c] = n[1] /\ Emits(c, Given(c, s))
                       => \E k \in Z : k[1] = c
    <3>1. ASSUME NEW b \in reached \ ret, n = id[b]
          PROVE  /\ g[n].shows = Shows(n[1], Given(n[1], s), s)
                 /\ n[1] # Top => Emits(n[1], Given(n[1], s))
                 /\ n[1] \notin Transparent =>
                      \A c \in Site \ {Top} : Parent[c] = n[1] /\ Emits(c, Given(c, s))
                         => \E k \in Z : k[1] = c
      <4>1. n[1] = b /\ g[n].shows = Shows(b, Given(b, s), s)
        BY <1>8, <1>10, <3>1 DEF IsNode
      <4>2. b # Top => Emits(b, Given(b, s))
        <5>1. CASE b = top /\ b # Top
          <6>1. PICK z \in Y : z[1] = top
            BY <1>2, <5>1 DEF Puts
          <6>2. Emits(top, Given(top, cells))
            BY <5>1, <6>1 DEF Shown, Y
          <6>3. Given(top, s) = Given(top, cells)
            BY <1>1, GivenOutside DEF top
          <6> QED
            BY <5>1, <6>2, <6>3
        <5>2. CASE b # top
          BY <5>2 DEF Turned, top
        <5> QED
          BY <5>1, <5>2
      <4>3. ASSUME NEW c \in Site \ {Top}, Parent[c] = b, b \notin Transparent, Emits(c, Given(c, s))
            PROVE  \E k \in Z : k[1] = c
        <5>1. b \in Under(top) /\ b \in Site
          BY <1>1, <1>6
        <5>2. c \in Under(top)
          BY <1>1, <4>3, <5>1, UnderIs
        <5>3. c # top
          BY <1>1, <4>3, <5>1, UnderIs
        <5>4. c \in reached
          BY <4>3, <5>2, <5>3 DEF Turned, top
        <5> QED
          BY <1>4, <1>8, <5>4
      <4> QED
        BY <4>1, <4>2, <4>3
    <3>2. ASSUME n \in Y, K(n[1])
          PROVE  /\ g[n].shows = Shows(n[1], Given(n[1], s), s)
                 /\ n[1] # Top => Emits(n[1], Given(n[1], s))
                 /\ n[1] \notin Transparent =>
                      \A c \in Site \ {Top} : Parent[c] = n[1] /\ Emits(c, Given(c, s))
                         => \E k \in Z : k[1] = c
      <4>1. g[n].shows = Shows(n[1], Given(n[1], cells), cells)
        <5>1. g[n].shows = graph[n].shows
          BY <1>10, <3>2 DEF IsNode
        <5> QED
          BY <3>2, <5>1 DEF Shown, Y
      <4>2. n[1] \in Site
        BY <1>5, <3>2
      <4>3. n[1] \in ret => g[n].shows = Shows(n[1], Given(n[1], s), s)
        <5>1. ASSUME n[1] \in ret
              PROVE  /\ n[1] \notin Transparent /\ s[n[1]] = cells[n[1]]
                     /\ Remembers(n[1], Given(n[1], s)) /\ Remembers(n[1], Given(n[1], cells))
          <6>1. /\ n[1] \in Holders /\ SameInside(s, cells, n[1])
                /\ Remembers(n[1], Given(n[1], s)) /\ Remembers(n[1], Given(n[1], cells))
            BY <5>1 DEF Turned
          <6>2. n[1] \in Under(n[1])
            BY <4>2, UnderIs
          <6> QED
            BY <6>1, <6>2 DEF Holders, SameInside
        <5> QED
          BY <4>1, <5>1 DEF Shows, Seen
      <4>4. n[1] \notin ret => g[n].shows = Shows(n[1], Given(n[1], s), s)
        <5>1. ASSUME n[1] \notin ret PROVE Given(n[1], s) = Given(n[1], cells)
          BY <1>14, <3>2, <4>2, <5>1
        <5>2. n[1] \notin Transparent => s[n[1]] = cells[n[1]]
          <6>1. ASSUME n[1] \notin Transparent, n[1] \notin Under(top) PROVE s[n[1]] = cells[n[1]]
            BY <4>2, <6>1 DEF SameOutside, Holders, top
          <6>2. ASSUME n[1] \notin Transparent, NEW e \in ret, n[1] \in Under(e)
                PROVE  s[n[1]] = cells[n[1]]
            BY <6>2 DEF Turned, SameInside
          <6> QED
            BY <3>2, <6>1, <6>2 DEF K, KeptSite
        <5> QED
          BY <4>1, <5>1, <5>2 DEF Shows, Seen
      <4>5. n[1] # Top => Emits(n[1], Given(n[1], s))
        <5>1. n[1] \in ret => Emits(n[1], Given(n[1], s))
          BY <1>6 DEF Turned, top
        <5>2. n[1] # Top => Emits(n[1], Given(n[1], cells))
          BY <3>2 DEF Shown, Y
        <5>3. n[1] \notin ret => Given(n[1], s) = Given(n[1], cells)
          BY <1>14, <3>2, <4>2
        <5> QED
          BY <5>1, <5>2, <5>3
      <4>6. ASSUME n[1] \notin Transparent, NEW c \in Site \ {Top}, Parent[c] = n[1], Emits(c, Given(c, s))
            PROVE  \E k \in Z : k[1] = c
        <5>1. Emits(c, Given(c, cells))
          BY <1>15, <3>2, <4>6
        <5>2. PICK k \in Y : k[1] = c
          BY <3>2, <4>6, <5>1 DEF Shown, Y
        <5>3. CASE c = top
          BY <1>4, <1>6, <1>8, <5>3
        <5>4. CASE c # top
          <6>1. K(c)
            BY <1>1, <3>2, <4>6, <5>4
          <6> QED
            BY <1>7, <5>2, <6>1
        <5> QED
          BY <5>3, <5>4
      <4> QED
        BY <4>3, <4>4, <4>5, <4>6
    <3> QED
      BY <1>7, <3>1, <3>2
  <2> QED
    BY <2>1 DEF Shown, Z
<1> QED
  BY <1>12, <1>13, <1>16

-----------------------------------------------------------------------------
(* What rebuild! makes of what was lowered.                                *)

Retired(infos, E, o, reached, ret) == UNION {Family(infos)[i] : i \in Lost(E, o, reached, ret)}
Cleared(infos, E, o, reached, ret) ==
    (UNION {E[c].ids : c \in reached \ ret})
    \cup (UNION {infos[i].ids : i \in Retired(infos, E, o, reached, ret)})
Keys(E, o, reached) == {<<At(E[Parent[c]]), c>> : c \in reached \ {o[1]}}

\* The nodes of what is rendered are new.
NodeIds(E, reached, ret) ==
    [c \in reached |-> IF c \in reached \ ret THEN FreshNode(c) ELSE E[c].root]

Built(b, infos, E, o, s, reached, ret, id, retired, cleared) ==
    /\ DOMAIN b.info = (DOMAIN infos \ retired) \cup {At(E[c]) : c \in reached}
    /\ \A c \in reached \ ret :
         b.info[At(E[c])] = Finished(E[c], id[c], {At(E[d]) : d \in Within(c, reached, o[1])}, s)
    /\ \A e \in ret : b.info[At(E[e])] = E[e]
    /\ \A i \in DOMAIN b.info : i \notin {At(E[c]) : c \in reached} => b.info[i] = infos[i]
    /\ DOMAIN b.routes = (DOMAIN routes \ cleared) \cup Put(id, reached \ ret)
    /\ \A c \in reached \ ret :
         b.routes[id[c]] = [boundary |-> At(E[c]), revision |-> b.info[At(E[c])].revision]
    /\ \A n \in DOMAIN b.routes \ Put(id, reached \ ret) : b.routes[n] = routes[n]
    /\ DOMAIN b.staged = Put(id, reached \ ret)
    /\ \A c \in reached \ ret :
         b.staged[id[c]] = [boundary |-> At(E[c]), shows |-> Shows(c, Given(c, s), s),
                            kids |-> Put(id, Within(c, reached, o[1]))]
    /\ b.frontier = Put(id, ret)
    /\ DOMAIN b.resolved = Keys(E, o, reached)
    /\ \A l \in DOMAIN b.resolved : b.resolved[l] = At(E[l[2]])
    /\ b.root = id[o[1]]

\* A number of its own is found for the node of a site.
LEMMA FreshNodeIs ==
    ASSUME NEW infos, NEW c \in Site, IsTree(DOMAIN screen), Routed(infos, screen, routes)
    PROVE  FreshNode(c) \in Site \X Number /\ FreshNode(c)[1] = c /\ FreshNode(c) \notin DOMAIN screen
<1> DEFINE Y == DOMAIN screen
           T == DOMAIN screen \cup (DOMAIN routes \ {OpenRoute})
           k == FreshNumber({i[2] : i \in {j \in T : j[1] = c}})
<1>1. T = Y
  <2>1. OpenRoute \notin Y
    BY SessionAssumption DEF IsTree
  <2> QED
    BY <2>1 DEF Routed
<1>2. FreshNode(c) = <<c, k>>
  BY DEF FreshNode
<1>3. <<c, k>> \in Site \X Number /\ <<c, k>> \notin Y
  <2> HIDE DEF T
  <2>1. IsTree(T)
    BY <1>1
  <2>2. <<c, k>> \in Site \X Number /\ <<c, k>> \notin T
    BY <2>1, FreshIs
  <2> QED
    BY <1>1, <2>2
<1> HIDE DEF k
<1> QED
  BY <1>2, <1>3

LEMMA RebuiltIs ==
    ASSUME NEW infos, NEW o \in DOMAIN infos, infos[o].site = o[1], NEW s, NEW low,
           Ready(low.entry, o, s, infos), Reach(o[1], low.reached, low.retained),
           \A c \in low.reached : NodeIds(low.entry, low.reached, low.retained)[c][1] = c,
           NEW b, b = Rebuilt(o, s, infos, low)
    PROVE  Built(b, infos, low.entry, o, s, low.reached, low.retained,
                 NodeIds(low.entry, low.reached, low.retained),
                 Retired(infos, low.entry, o, low.reached, low.retained),
                 Cleared(infos, low.entry, o, low.reached, low.retained))
<1> DEFINE E == low.entry
           reached == low.reached
           ret == low.retained
           top == infos[o].site
           rendered == reached \ ret
           id == [c \in reached |-> IF c \in rendered THEN FreshNode(c) ELSE E[c].root]
           at == [c \in reached |-> Last(E[c].path)]
           inside(c) == {d \in reached \ {top} : Parent[d] = c}
           children(c) == {at[d] : d \in inside(c)}
           entries == [i \in {at[c] : c \in reached} |->
                         LET c == i[1]
                         IN  IF c \in rendered
                             THEN Finished(E[c], id[c], children(c), s)
                             ELSE E[c]]
           lost == UNION {E[c].children \ children(c) : c \in rendered}
           retired == UNION {Family(infos)[i] : i \in lost}
           cleared == (UNION {E[c].ids : c \in rendered}) \cup (UNION {infos[i].ids : i \in retired})
           new == {id[c] : c \in rendered}
<1>1. b = [info |-> [i \in (DOMAIN infos \ retired) \cup DOMAIN entries |->
                     IF i \in DOMAIN entries THEN entries[i] ELSE infos[i]],
           routes |-> [n \in (DOMAIN routes \ cleared) \cup new |->
                       IF n \in new
                       THEN [boundary |-> at[n[1]], revision |-> entries[at[n[1]]].revision]
                       ELSE routes[n]],
           staged |-> [n \in new |->
                       [boundary |-> at[n[1]],
                        shows |-> Shows(n[1], E[n[1]].passed, s),
                        kids |-> {id[d] : d \in inside(n[1])}]],
           frontier |-> {id[c] : c \in ret},
           resolved |-> [l \in {<<at[Parent[c]], c>> : c \in reached \ {top}} |-> at[l[2]]],
           root |-> id[top]]
  BY DEF Rebuilt
<1> DEFINE bi == [i \in (DOMAIN infos \ retired) \cup DOMAIN entries |->
                     IF i \in DOMAIN entries THEN entries[i] ELSE infos[i]]
           br == [n \in (DOMAIN routes \ cleared) \cup new |->
                       IF n \in new
                       THEN [boundary |-> at[n[1]], revision |-> entries[at[n[1]]].revision]
                       ELSE routes[n]]
           bs == [n \in new |->
                       [boundary |-> at[n[1]],
                        shows |-> Shows(n[1], E[n[1]].passed, s),
                        kids |-> {id[d] : d \in inside(n[1])}]]
           bv == [l \in {<<at[Parent[c]], c>> : c \in reached \ {top}} |-> at[l[2]]]
           bf == {id[c] : c \in ret}
<1>2. /\ b.info = bi /\ b.routes = br /\ b.staged = bs /\ b.frontier = bf /\ b.resolved = bv
      /\ b.root = id[top]
  <2>1. b = [info |-> bi, routes |-> br, staged |-> bs, frontier |-> bf, resolved |-> bv,
             root |-> id[top]]
    BY <1>1
  <2> HIDE DEF bi, br, bs, bv, bf
  <2> QED
    BY <2>1
<1>0. /\ top = o[1] /\ id = NodeIds(E, reached, ret) /\ at = [c \in reached |-> At(E[c])]
      /\ Ready(E, o, s, infos) /\ Reach(top, reached, ret) /\ \A c \in reached : id[c][1] = c
  BY DEF NodeIds, At
<1>0a. \A c \in reached : at[c] = At(E[c])
  BY DEF At
<1> HIDE DEF E, reached, ret, top, id, at
<1>3. \A c \in reached : at[c] = At(E[c]) /\ at[c][1] = c /\ E[c].passed = Given(c, s)
  BY <1>0, <1>0a DEF Ready, Reach
<1>4. ret \subseteq reached /\ \A c \in reached \ {top} : Parent[c] \in reached
  BY <1>0 DEF Reach
<1>5. \A c : inside(c) = Within(c, reached, top) /\ inside(c) \subseteq reached
  BY DEF Within
<1>6. \A c : children(c) = {At(E[d]) : d \in Within(c, reached, top)}
  <2>1. ASSUME NEW c PROVE children(c) = {At(E[d]) : d \in Within(c, reached, top)}
    <3>1. inside(c) = Within(c, reached, top) /\ inside(c) \subseteq reached
      BY <1>5
    <3>2. \A d \in inside(c) : at[d] = At(E[d])
      BY <1>3, <3>1
    <3> HIDE DEF at, inside
    <3>3. children(c) = {At(E[d]) : d \in inside(c)}
      BY <3>2
    <3> QED
      BY <3>1, <3>3
  <2> QED
    BY <2>1
<1>7. DOMAIN entries = {At(E[c]) : c \in reached}
  <2>1. {at[c] : c \in reached} = {At(E[c]) : c \in reached}
    BY <1>3
  <2> HIDE DEF at
  <2> QED
    BY <2>1
<1>8. lost = Lost(E, o, reached, ret)
  <2> HIDE DEF children
  <2> QED
    BY <1>0, <1>6 DEF Lost
<1>9. retired = Retired(infos, E, o, reached, ret) /\ cleared = Cleared(infos, E, o, reached, ret)
  <2> HIDE DEF lost
  <2>1. retired = Retired(infos, E, o, reached, ret)
    BY <1>8 DEF Retired
  <2> HIDE DEF retired
  <2> QED
    BY <2>1 DEF Cleared
<1>10. new = Put(id, reached \ ret) /\ bf = Put(id, ret)
  BY DEF Put
<1> HIDE DEF inside, lost, retired, cleared
<1>11. ASSUME NEW c \in reached
       PROVE  entries[at[c]] = IF c \in rendered THEN Finished(E[c], id[c], children(c), s) ELSE E[c]
  <2> HIDE DEF at, children
  <2>1. at[c][1] = c
    BY <1>3
  <2> QED
    BY <2>1
<1> HIDE DEF children, at
<1>12. \A c \in reached : At(E[c]) \in DOMAIN entries /\ bi[At(E[c])] = entries[At(E[c])]
  <2> HIDE DEF entries
  <2> QED
    BY <1>7
<1>13. ASSUME NEW c \in reached \ ret PROVE id[c] \in new /\ id[c][1] = c
  BY <1>0, <1>4
<1> HIDE DEF entries, rendered
<1>14. \A c \in reached \ ret : bi[At(E[c])] = Finished(E[c], id[c], {At(E[d]) : d \in Within(c, reached, top)}, s)
  <2>1. ASSUME NEW c \in reached \ ret
        PROVE  bi[At(E[c])] = Finished(E[c], id[c], {At(E[d]) : d \in Within(c, reached, top)}, s)
    <3>1. entries[at[c]] = Finished(E[c], id[c], children(c), s) /\ at[c] = At(E[c])
      BY <1>3, <1>11 DEF rendered
    <3>2. bi[At(E[c])] = entries[At(E[c])]
      BY <1>12
    <3> HIDE DEF bi
    <3> QED
      BY <1>6, <3>1, <3>2
  <2> QED
    BY <2>1
<1>15. \A e \in ret : bi[At(E[e])] = E[e]
  <2>1. \A e \in ret : entries[at[e]] = E[e] /\ at[e] = At(E[e])
    BY <1>3, <1>4, <1>11 DEF rendered
  <2> HIDE DEF bi
  <2> QED
    BY <1>4, <1>12, <2>1
<1>16. /\ DOMAIN bi = (DOMAIN infos \ retired) \cup {At(E[c]) : c \in reached}
       /\ \A i \in DOMAIN bi : i \notin {At(E[c]) : c \in reached} => bi[i] = infos[i]
  BY <1>7
<1>17. ASSUME NEW c \in reached \ ret
       PROVE  br[id[c]] = [boundary |-> At(E[c]), revision |-> bi[At(E[c])].revision]
  <2>1. id[c] \in new /\ id[c][1] = c /\ at[c] = At(E[c])
    BY <1>3, <1>13
  <2>2. br[id[c]] = [boundary |-> at[c], revision |-> entries[at[c]].revision]
    <3> HIDE DEF new
    <3> QED
      BY <2>1
  <2>3. bi[At(E[c])] = entries[At(E[c])]
    BY <1>12
  <2> HIDE DEF br, bi
  <2> QED
    BY <2>1, <2>2, <2>3
<1>18. /\ DOMAIN br = (DOMAIN routes \ cleared) \cup new
       /\ \A n \in DOMAIN br \ new : br[n] = routes[n]
  <2> HIDE DEF new
  <2> QED
    OBVIOUS
<1>19. ASSUME NEW c \in reached \ ret
       PROVE  bs[id[c]] = [boundary |-> At(E[c]), shows |-> Shows(c, Given(c, s), s),
                           kids |-> Put(id, Within(c, reached, top))]
  <2>1. id[c] \in new /\ id[c][1] = c /\ at[c] = At(E[c]) /\ E[c].passed = Given(c, s)
    BY <1>3, <1>13
  <2>2. bs[id[c]] = [boundary |-> at[c], shows |-> Shows(c, E[c].passed, s),
                     kids |-> {id[d] : d \in inside(c)}]
    <3> HIDE DEF new
    <3> QED
      BY <2>1
  <2>3. {id[d] : d \in inside(c)} = Put(id, Within(c, reached, top))
    BY <1>5 DEF Put
  <2> HIDE DEF bs
  <2> QED
    BY <2>1, <2>2, <2>3
<1>20. DOMAIN bs = new
  <2> HIDE DEF new
  <2> QED
    OBVIOUS
<1>21. DOMAIN bv = Keys(E, o, reached) /\ \A l \in DOMAIN bv : bv[l] = At(E[l[2]])
  <2>1. \A c \in reached \ {top} : at[Parent[c]] = At(E[Parent[c]]) /\ at[c] = At(E[c])
    BY <1>3, <1>4
  <2>2. {<<at[Parent[c]], c>> : c \in reached \ {top}} = Keys(E, o, reached)
    BY <1>0, <2>1 DEF Keys
  <2>3. \A l \in DOMAIN bv : l[2] \in reached
    <3>1. \A l \in Keys(E, o, reached) : l[2] \in reached
      BY DEF Keys
    <3> QED
      BY <2>2, <3>1
  <2>4. \A c \in reached : at[c] = At(E[c])
    BY <1>3
  <2> QED
    BY <2>2, <2>3, <2>4
<1> HIDE DEF bi, br, bs, bv, bf, new
<1>22. Built(b, infos, E, o, s, reached, ret, id, Retired(infos, E, o, reached, ret),
             Cleared(infos, E, o, reached, ret))
  BY <1>0, <1>2, <1>9, <1>10, <1>14, <1>15, <1>16, <1>17, <1>18, <1>19, <1>20, <1>21 DEF Built
<1> QED
  BY <1>0, <1>22 DEF E, reached, ret

-----------------------------------------------------------------------------
(* What a turn leaves on both sides.                                       *)

LEMMA IdsAre ==
    ASSUME NEW infos, NEW o, NEW E, NEW reached, NEW ret, Reach(o[1], reached, ret),
           IsTree(DOMAIN screen), Routed(infos, screen, routes)
    PROVE  Ids(screen, E, reached, ret, NodeIds(E, reached, ret))
<1>1. reached \subseteq Site /\ ret \subseteq reached
  BY KeptIs DEF Reach
<1>2. \A c \in Site : FreshNode(c) \in Site \X Number /\ FreshNode(c)[1] = c /\ FreshNode(c) \notin DOMAIN screen
  BY FreshNodeIs
<1> QED
  BY <1>1, <1>2 DEF NodeIds, Ids

\* Of the routes, a turn clears those of the nodes that go: the ones below what
\* is rendered again that are not retained.
Gone(graph, top, ret) == {n \in DOMAIN graph : ~ KeptSite(top, ret, n[1])}

LEMMA ClearedIs ==
    ASSUME NEW infos, NEW o, NEW E, NEW reached, NEW ret
    PROVE  \A n : n \in Cleared(infos, E, o, reached, ret) <=>
                    \/ \E c \in reached \ ret : n \in E[c].ids
                    \/ \E i \in Retired(infos, E, o, reached, ret) : n \in infos[i].ids
BY DEF Cleared

LEMMA BuiltIs ==
    ASSUME NEW infos, NEW o \in DOMAIN infos, NEW s, NEW E, NEW reached, NEW ret, NEW id, NEW b,
           IsTree(DOMAIN infos), Entries(infos, cells), Nodes(infos, screen), Roots(infos, screen),
           Turned(E, o, s, infos, reached, ret),
           Built(b, infos, E, o, s, reached, ret, id, Retired(infos, E, o, reached, ret),
                 Cleared(infos, E, o, reached, ret))
    PROVE  /\ Installed(b.info, infos, E, o, s, reached, ret, id)
           /\ Cleared(infos, E, o, reached, ret) = Gone(screen, o[1], ret)
<1> DEFINE X == DOMAIN infos
           Y == DOMAIN screen
           top == o[1]
           K(c) == KeptSite(top, ret, c)
           lost == Lost(E, o, reached, ret)
           retired == Retired(infos, E, o, reached, ret)
           cleared == Cleared(infos, E, o, reached, ret)
           placed == {At(E[c]) : c \in reached \ ret}
<1>0. Reach(top, reached, ret) /\ Ready(E, o, s, infos)
  BY DEF Turned
<1>1. /\ \A c \in reached \ ret : ~ K(c)
      /\ \A e \in ret : K(e)
      /\ reached \subseteq Site /\ top \in Site /\ ret \subseteq Site
      /\ ret \subseteq reached
      /\ top \in reached \ ret
  BY <1>0, KeptIs DEF Reach
<1>2. /\ \A c \in reached : At(E[c]) \in Site \X Number /\ At(E[c])[1] = c
      /\ \A e \in ret : At(E[e]) \in X
  BY <1>0 DEF Ready, Reach, Turned
<1>3. \A x, y \in X : x[1] = y[1] => x = y
  BY DEF IsTree
<1>4. /\ lost \subseteq X
      /\ \A i \in X : (\E j \in lost : i[1] \in Under(j[1])) <=> ~ K(i[1]) /\ i \notin placed
  BY RetiredIs DEF Placed
<1>5. retired \subseteq X /\ \A i \in X : i \in retired <=> ~ K(i[1]) /\ i \notin placed
  <2>1. \A i \in X : Family(infos)[i] = {j \in X : j[1] \in Under(i[1])}
    BY FamilyIs
  <2>2. retired = UNION {Family(infos)[i] : i \in lost}
    BY DEF Retired
  <2> HIDE DEF lost, retired, placed, X, K
  <2>3. \A i : i \in retired <=> \E j \in lost : i \in Family(infos)[j]
    BY <2>2
  <2>4. \A i : i \in retired <=> \E j \in lost : i \in X /\ i[1] \in Under(j[1])
    BY <1>4, <2>1, <2>3
  <2> QED
    BY <1>4, <2>4
<1> HIDE DEF lost, retired, X, K
<1>6. (X \ retired) \cup {At(E[c]) : c \in reached} = {i \in X : K(i[1])} \cup placed
  <2>1. \A c \in ret : At(E[c]) \in X /\ K(At(E[c])[1])
    BY <1>1, <1>2
  <2>2. {At(E[c]) : c \in reached} = placed \cup {At(E[c]) : c \in ret}
    BY <1>1
  <2>3. \A i \in placed : ~ K(i[1])
    BY <1>1, <1>2
  <2> QED
    BY <1>5, <2>1, <2>2, <2>3
<1>7. Installed(b.info, infos, E, o, s, reached, ret, id)
  <2>1. DOMAIN b.info = Spliced(X, Places(E, reached), top, reached, ret)
    <3>1. placed = {Places(E, reached)[c] : c \in reached \ ret}
      BY DEF Places
    <3>2. DOMAIN b.info = {i \in X : K(i[1])} \cup placed
      BY <1>6 DEF Built, retired, X
    <3> HIDE DEF placed
    <3> QED
      BY <3>1, <3>2 DEF Spliced, K
  <2>2. ASSUME NEW i \in X, K(i[1]), i[1] \notin ret PROVE b.info[i] = infos[i]
    <3>1. i \in DOMAIN b.info
      BY <1>6, <2>2 DEF Built, retired, X
    <3>2. i \notin {At(E[c]) : c \in reached}
      BY <1>1, <1>2, <2>2
    <3> QED
      BY <3>1, <3>2 DEF Built
  <2>3. /\ \A c \in reached \ ret :
              b.info[At(E[c])] = Finished(E[c], id[c], {At(E[d]) : d \in Within(c, reached, o[1])}, s)
        /\ \A e \in ret : b.info[At(E[e])] = E[e]
    BY DEF Built
  <2> QED
    BY <2>1, <2>2, <2>3 DEF Installed, X, K
<1>8. \A c \in reached : E[c].ids = IF At(E[c]) \in X THEN infos[At(E[c])].ids ELSE {}
  BY <1>0 DEF Ready, Reach, X
<1> HIDE DEF cleared
<1>9. \A n : n \in cleared <=> \/ \E c \in reached \ ret : n \in E[c].ids
                             \/ \E i \in retired : n \in infos[i].ids
  BY ClearedIs DEF cleared, retired
\* The nodes that are cleared are those of the boundaries rendered and retired.
<1>10. \A n : n \in cleared <=> \E i \in X : ~ K(i[1]) /\ n \in infos[i].ids
  <2>1. ASSUME NEW n \in cleared PROVE \E i \in X : ~ K(i[1]) /\ n \in infos[i].ids
    <3>1. (\E c \in reached \ ret : n \in E[c].ids) \/ (\E i \in retired : n \in infos[i].ids)
      BY <1>9
    <3>2. ASSUME NEW c \in reached \ ret, n \in E[c].ids
          PROVE  \E i \in X : ~ K(i[1]) /\ n \in infos[i].ids
      <4>1. At(E[c]) \in X /\ n \in infos[At(E[c])].ids
        BY <1>8, <3>2
      <4> QED
        BY <1>1, <1>2, <4>1
    <3> QED
      BY <1>5, <3>1, <3>2
  <2>2. ASSUME NEW n, NEW i \in X, ~ K(i[1]), n \in infos[i].ids PROVE n \in cleared
    <3>1. CASE i \in retired
      BY <1>9, <2>2, <3>1
    <3>2. CASE i \notin retired
      <4>1. PICK c \in reached \ ret : i = At(E[c])
        BY <1>5, <2>2, <3>2
      <4>2. n \in E[c].ids
        BY <1>8, <2>2, <4>1
      <4> QED
        BY <1>9, <4>2
    <3> QED
      BY <3>1, <3>2
  <2> QED
    BY <2>1, <2>2
<1>11. cleared = Gone(screen, top, ret)
  <2>1. CASE Y = {}
    <3>1. \A i \in X : infos[i].ids = {}
      BY <2>1 DEF Roots, X
    <3> QED
      BY <1>10, <2>1, <3>1 DEF Gone
  <2>2. CASE Y # {}
    <3>1. \A i \in X : /\ infos[i].root \in Y /\ infos[i].root[1] = i[1]
                       /\ infos[i].ids = {infos[i].root}
      BY <2>2, RootsAre DEF X
    <3>2. \A n \in Y : screen[n].boundary \in X /\ screen[n].boundary[1] = n[1]
      BY DEF Nodes, X
    <3>3. \A m, n \in Y : m[1] = n[1] => m = n
      BY DEF Nodes, IsTree
    <3>4. \A n \in Y : infos[screen[n].boundary].root = n
      BY <3>1, <3>2, <3>3
    <3>5. \A n : n \in Gone(screen, top, ret) <=> n \in Y /\ ~ K(n[1])
      BY DEF Gone, K
    <3> HIDE DEF Y
    <3>6. ASSUME NEW n \in cleared PROVE n \in Y /\ ~ K(n[1])
      BY <1>10, <3>1
    <3>7. ASSUME NEW n \in Y, ~ K(n[1]) PROVE n \in cleared
      <4>1. /\ screen[n].boundary \in X /\ ~ K(screen[n].boundary[1])
            /\ n \in infos[screen[n].boundary].ids
        BY <3>1, <3>2, <3>4, <3>7
      <4> QED
        BY <1>10, <4>1
    <3> QED
      BY <3>5, <3>6, <3>7
  <2> QED
    BY <2>1, <2>2
<1> QED
  BY <1>7, <1>11 DEF cleared

\* Replace takes the same nodes away, and puts the new root in the old one's
\* place.
LEMMA ReplacedIs ==
    ASSUME NEW infos, NEW o \in DOMAIN infos, NEW s, NEW E, NEW reached, NEW ret, NEW id, NEW b,
           NEW retired, NEW cleared,
           IsTree(DOMAIN infos), Nodes(infos, screen), Roots(infos, screen),
           Turned(E, o, s, infos, reached, ret), Ids(screen, E, reached, ret, id),
           Built(b, infos, E, o, s, reached, ret, id, retired, cleared),
           NEW g, g = Replaced(infos[o].root, b.root, b.staged, b.frontier)
    PROVE  Patched(screen, g, E, o, s, reached, ret, id)
<1> DEFINE Y == DOMAIN screen
           top == o[1]
           old == infos[o].root
           new == Put(id, reached \ ret)
           kids(n) == {IF k = old THEN b.root ELSE k : k \in screen[n].kids}
           gone == IF old \in Y THEN Subtree[old] \ UNION {Subtree[n] : n \in b.frontier} ELSE {}
<1>0. Reach(top, reached, ret)
  BY DEF Turned
<1>1. ret \subseteq reached /\ top \in reached \ ret /\ top \in Site /\ reached \subseteq Site
  BY <1>0, KeptIs DEF Reach
<1>2. Puts(Y, id, top, reached, ret) /\ IsTree(Y)
  BY IdsPut DEF Nodes
<1>3. /\ \A c \in reached : id[c][1] = c
      /\ \A e \in ret : id[e] \in Y
      /\ \A m, n \in Y : m[1] = n[1] => m = n
      /\ \A n \in Y : n[1] \in Site
      /\ \A c \in reached \ ret : id[c] \notin Y
  BY <1>2 DEF Puts, IsTree, Ids
<1>4. \A n \in Y : Subtree[n] = {m \in Y : m[1] \in Under(n[1])}
  BY SubtreeIs
<1>5. \A n \in Y : /\ n \in gone <=> ~ KeptSite(top, ret, n[1])
                   /\ n = old <=> n[1] = top
  <2>1. CASE Y = {}
    BY <2>1
  <2>2. CASE Y # {}
    <3>1. old \in Y /\ old[1] = top
      BY <2>2, RootsAre
    <3>2. \A n : n \in gone <=> n \in Subtree[old] /\ ~ \E e \in ret : n \in Subtree[id[e]]
      <4>1. b.frontier = Put(id, ret)
        BY DEF Built
      <4>2. gone = Subtree[old] \ UNION {Subtree[n] : n \in Put(id, ret)}
        BY <3>1, <4>1
      <4> HIDE DEF gone, old
      <4> QED
        BY <4>2 DEF Put
    <3> HIDE DEF gone, old
    <3>3. ASSUME NEW n \in Y PROVE n \in gone <=> ~ KeptSite(top, ret, n[1])
      <4>1. n \in Subtree[old] <=> n[1] \in Under(top)
        BY <1>4, <3>1
      <4>2. \A e \in ret : n \in Subtree[id[e]] <=> n[1] \in Under(e)
        BY <1>1, <1>3, <1>4
      <4> QED
        BY <3>2, <4>1, <4>2 DEF KeptSite
    <3>4. \A n \in Y : n = old <=> n[1] = top
      BY <1>3, <3>1
    <3> QED
      BY <3>3, <3>4
  <2> QED
    BY <2>1, <2>2
<1>6. /\ DOMAIN b.staged = new /\ b.root = id[top]
      /\ \A c \in reached \ ret :
           b.staged[id[c]] = [boundary |-> At(E[c]), shows |-> Shows(c, Given(c, s), s),
                              kids |-> Put(id, Within(c, reached, top))]
  BY DEF Built
<1>7. g = [n \in (Y \ gone) \cup new |->
             IF n \in new THEN b.staged[n] ELSE [screen[n] EXCEPT !.kids = kids(n)]]
  <2>1. g = [n \in (Y \ gone) \cup DOMAIN b.staged |->
             IF n \in DOMAIN b.staged THEN b.staged[n] ELSE [screen[n] EXCEPT !.kids = kids(n)]]
    BY DEF Replaced
  <2> HIDE DEF kids, gone, new
  <2> QED
    BY <1>6, <2>1
<1>8. \A c \in reached \ ret : id[c] \in new
  BY DEF Put
<1>9. \A n \in new : n \notin Y /\ \E c \in reached \ ret : n = id[c]
  BY <1>3 DEF Put
<1>10. new = {id[c] : c \in reached \ ret}
  BY DEF Put
<1> HIDE DEF kids, gone, new
<1>11. DOMAIN g = Spliced(Y, id, top, reached, ret)
  <2>1. Y \ gone = {z \in Y : KeptSite(top, ret, z[1])}
    BY <1>5
  <2> QED
    BY <1>7, <1>10, <2>1 DEF Spliced
<1>12. \A c \in reached \ ret :
         g[id[c]] = [boundary |-> At(E[c]), shows |-> Shows(c, Given(c, s), s),
                     kids |-> Put(id, Within(c, reached, top))]
  <2>1. \A c \in reached \ ret : g[id[c]] = b.staged[id[c]]
    BY <1>7, <1>8
  <2> QED
    BY <1>6, <2>1
<1>13. ASSUME NEW n \in Y, KeptSite(top, ret, n[1])
       PROVE  g[n] = [boundary |-> screen[n].boundary, shows |-> screen[n].shows,
                      kids |-> Renewed(top, id[top], screen[n].kids)]
  <2>1. g[n] = [screen[n] EXCEPT !.kids = kids(n)]
    BY <1>5, <1>7, <1>9, <1>13
  <2>2. kids(n) = Renewed(top, id[top], screen[n].kids)
    <3>1. \A k \in screen[n].kids : k \in Y
      BY DEF Nodes, Inside
    <3>2. \A k \in screen[n].kids : k = old <=> k[1] = top
      BY <1>5, <3>1
    <3> HIDE DEF old
    <3> QED
      BY <1>6, <3>2 DEF kids, Renewed
  <2>3. screen[n] = [boundary |-> screen[n].boundary, shows |-> screen[n].shows, kids |-> screen[n].kids]
    BY DEF Nodes
  <2> DEFINE r == Renewed(top, id[top], screen[n].kids)
  <2>4. g[n] = [screen[n] EXCEPT !.kids = r]
    BY <2>1, <2>2
  <2> HIDE DEF r
  <2>5. g[n] = [boundary |-> screen[n].boundary, shows |-> screen[n].shows, kids |-> r]
    BY <2>3, <2>4
  <2> QED
    BY <2>5 DEF r
<1> QED
  BY <1>11, <1>12, <1>13 DEF Patched

\* What is retained keeps its revision.
SameRevisions(new, infos, E, ret) ==
    \A e \in ret : new[At(E[e])].revision = infos[At(E[e])].revision

\* A route leads to its node's boundary, at its present revision.
LEMMA RoutedIs ==
    ASSUME NEW infos, NEW o \in DOMAIN infos, NEW s, NEW E, NEW reached, NEW ret, NEW id, NEW b,
           NEW retired, NEW g,
           IsTree(DOMAIN infos), Nodes(infos, screen), Routed(infos, screen, routes),
           Turned(E, o, s, infos, reached, ret), Ids(screen, E, reached, ret, id),
           Built(b, infos, E, o, s, reached, ret, id, retired, Gone(screen, o[1], ret)),
           Installed(b.info, infos, E, o, s, reached, ret, id),
           SameRevisions(b.info, infos, E, ret),
           Patched(screen, g, E, o, s, reached, ret, id)
    PROVE  Routed(b.info, g, b.routes)
<1> DEFINE X == DOMAIN infos
           Y == DOMAIN screen
           Z == DOMAIN g
           top == o[1]
           K(c) == KeptSite(top, ret, c)
           new == Put(id, reached \ ret)
           R == DOMAIN b.routes
<1>0. Reach(top, reached, ret) /\ Ready(E, o, s, infos)
  BY DEF Turned
<1>1. /\ \A c \in reached \ ret : ~ K(c) /\ id[c] \in Site \X Number /\ id[c] \notin Y
      /\ ret \subseteq reached
  BY <1>0, KeptIs DEF Ids, Reach
<1>2. /\ \A n \in Y : n \in Site \X Number
      /\ OpenRoute \notin Site \X Number
      /\ \A x, y \in X : x[1] = y[1] => x = y
  BY SessionAssumption DEF Nodes, IsTree
<1>3. /\ \A n \in Z : (n \in Y /\ K(n[1])) \/ \E c \in reached \ ret : n = id[c]
      /\ \A n \in Y : K(n[1]) => n \in Z
      /\ \A c \in reached \ ret : id[c] \in Z
  BY DEF Patched, Spliced
<1>4. R = (DOMAIN routes \ Gone(screen, top, ret)) \cup new
  BY DEF Built
<1>5. \A n : n \in R <=> \/ n = OpenRoute
                         \/ n \in Y /\ K(n[1])
                         \/ n \in new
  <2>1. \A n : n \in DOMAIN routes <=> n \in Y \/ n = OpenRoute
    BY DEF Routed
  <2>2. \A n : n \in Gone(screen, top, ret) <=> n \in Y /\ ~ K(n[1])
    BY DEF Gone
  <2> HIDE DEF R, Y, K, new
  <2> QED
    BY <1>2, <1>4, <2>1, <2>2
<1>6. \A n : n \in new <=> \E c \in reached \ ret : n = id[c]
  BY DEF Put
<1> HIDE DEF R, Y, Z, K, new, X
<1>7. R = Z \cup {OpenRoute}
  BY <1>1, <1>2, <1>3, <1>5, <1>6
<1>8. ASSUME NEW c \in reached \ ret
      PROVE  b.routes[id[c]] = [boundary |-> g[id[c]].boundary, revision |-> b.info[g[id[c]].boundary].revision]
  <2>1. b.routes[id[c]] = [boundary |-> At(E[c]), revision |-> b.info[At(E[c])].revision]
    BY DEF Built
  <2>2. g[id[c]].boundary = At(E[c])
    <3>1. g[id[c]] = [boundary |-> At(E[c]), shows |-> Shows(c, Given(c, s), s),
                      kids |-> Put(id, Within(c, reached, top))]
      BY DEF Patched
    <3> QED
      BY <3>1, NodeIs DEF IsNode
  <2> QED
    BY <2>1, <2>2
<1>9. ASSUME NEW n \in Y, K(n[1])
      PROVE  b.routes[n] = [boundary |-> g[n].boundary, revision |-> b.info[g[n].boundary].revision]
  <2> DEFINE i == screen[n].boundary
  <2>1. i \in X /\ i[1] = n[1]
    BY DEF Nodes, X, Y
  <2>2. g[n].boundary = i
    <3>1. g[n] = [boundary |-> screen[n].boundary, shows |-> screen[n].shows,
                  kids |-> Renewed(top, id[top], screen[n].kids)]
      BY <1>9 DEF Patched, Y, K
    <3> QED
      BY <3>1, NodeIs DEF IsNode
  <2>3. n \notin new /\ n \in R
    BY <1>1, <1>5, <1>6, <1>9
  <2>4. b.routes[n] = routes[n]
    BY <2>3 DEF Built, new, R
  <2>5. routes[n] = [boundary |-> i, revision |-> infos[i].revision]
    BY DEF Routed, Y
  <2>6. b.info[i].revision = infos[i].revision
    <3>1. CASE n[1] \in ret
      <4>1. At(E[n[1]]) \in X /\ At(E[n[1]])[1] = n[1]
        BY <1>0, <1>1, <3>1 DEF Turned, Ready, Reach, X
      <4>2. i = At(E[n[1]])
        BY <1>2, <2>1, <4>1
      <4> QED
        BY <3>1, <4>2 DEF SameRevisions
    <3>2. CASE n[1] \notin ret
      <4>1. b.info[i] = infos[i]
        BY <1>9, <2>1, <3>2 DEF Installed, X, K, top
      <4> QED
        BY <4>1
    <3> QED
      BY <3>1, <3>2
  <2> HIDE DEF i
  <2> QED
    BY <2>2, <2>4, <2>5, <2>6
<1>10. ASSUME NEW n \in Z
       PROVE  b.routes[n] = [boundary |-> g[n].boundary, revision |-> b.info[g[n].boundary].revision]
  <2>1. CASE n \in Y /\ K(n[1])
    BY <1>9, <2>1
  <2>2. ASSUME NEW c \in reached \ ret, n = id[c]
        PROVE  b.routes[n] = [boundary |-> g[n].boundary, revision |-> b.info[g[n].boundary].revision]
    BY <1>8, <2>2
  <2> QED
    BY <1>3, <2>1, <2>2
<1> QED
  BY <1>7, <1>10 DEF Routed, R, Z

\* The boundaries in the graph are those the session has.
LEMMA BoundariesAre ==
    ASSUME NEW infos, NEW graph, IsTree(DOMAIN infos), Nodes(infos, graph), Roots(infos, graph)
    PROVE  BoundariesIn(graph) = IF DOMAIN graph = {} THEN {} ELSE DOMAIN infos
<1>1. CASE DOMAIN graph = {}
  BY <1>1 DEF BoundariesIn
<1>2. CASE DOMAIN graph # {}
  <2>1. \A n \in DOMAIN graph : graph[n].boundary \in DOMAIN infos /\ graph[n].boundary[1] = n[1]
    BY DEF Nodes
  <2>2. \A i \in DOMAIN infos : infos[i].root \in DOMAIN graph /\ infos[i].root[1] = i[1]
    BY <1>2, RootsAre
  <2>3. \A x, y \in DOMAIN infos : x[1] = y[1] => x = y
    BY DEF IsTree
  <2>4. \A i \in DOMAIN infos : graph[infos[i].root].boundary = i
    BY <2>1, <2>2, <2>3
  <2> QED
    BY <1>2, <2>1, <2>2, <2>4 DEF BoundariesIn
<1> QED
  BY <1>1, <1>2

\* The registry follows the graph.
LEMMA MountedIs ==
    ASSUME NEW infos, NEW o \in DOMAIN infos, NEW s, NEW E, NEW reached, NEW ret, NEW id, NEW b,
           NEW retired, NEW cleared, NEW g, o[1] \in Site,
           IsTree(DOMAIN infos), Nodes(infos, screen), Roots(infos, screen),
           Mounted(DOMAIN infos, mounts),
           Turned(E, o, s, infos, reached, ret),
           Built(b, infos, E, o, s, reached, ret, id, retired, cleared),
           Installed(b.info, infos, E, o, s, reached, ret, id),
           IsTree(DOMAIN b.info), Entries(b.info, s), Nodes(b.info, g), Roots(b.info, g),
           DOMAIN g # {}
    PROVE  Mounted(DOMAIN b.info, Committed(g, b.resolved))
<1> DEFINE X == DOMAIN infos
           W == DOMAIN b.info
           top == o[1]
           K(c) == KeptSite(top, ret, c)
           M == Committed(g, b.resolved)
           stay == {l \in DOMAIN mounts : mounts[l] \notin BoundariesIn(screen) \ BoundariesIn(g)}
           enter == {l \in DOMAIN b.resolved : b.resolved[l] \in BoundariesIn(g)}
           L == DOMAIN b.resolved
<1>0. Reach(top, reached, ret) /\ Ready(E, o, s, infos)
  BY DEF Turned
<1>1. /\ \A c \in reached \ ret : ~ K(c)
      /\ \A e \in ret : K(e)
      /\ \A c \in Site \ {Top} : K(c) /\ c \notin ret => K(Parent[c])
      /\ \A c \in reached \ {top} : c # Top /\ c \in Site
      /\ reached \subseteq Site /\ top \in Site /\ ret \subseteq Site
      /\ ret \subseteq reached /\ top \in reached \ ret
      /\ \A c \in reached \ {top} : Parent[c] \in reached \ ret
  BY <1>0, KeptIs DEF Reach
<1>2. /\ \A c \in reached : At(E[c])[1] = c
      /\ \A c \in reached \ {top} : At(E[c]) \in X => At(E[Parent[c]]) \in X
      /\ At(E[top]) = o /\ o \in X
      /\ \A e \in ret : At(E[e]) \in X
  BY <1>0 DEF Ready, Reach, Turned
<1>3. /\ \A x, y \in X : x[1] = y[1] => x = y
      /\ \A x, y \in W : x[1] = y[1] => x = y
      /\ \A x \in X : x[1] \in Site
      /\ \A x \in W : x[1] \in Site
      /\ \A x \in W : x[1] # Top => \E y \in W : y[1] = Parent[x[1]]
  BY DEF IsTree
<1>4. /\ \A i \in W : (i \in X /\ K(i[1])) \/ \E c \in reached \ ret : i = At(E[c])
      /\ \A i \in X : K(i[1]) => i \in W
      /\ \A c \in reached \ ret : At(E[c]) \in W
  <2>1. /\ W = {z \in X : K(z[1])} \cup {Places(E, reached)[c] : c \in reached \ ret}
        /\ \A c \in reached : Places(E, reached)[c] = At(E[c])
    BY PlacesPut DEF Installed, Spliced
  <2> HIDE DEF W, X, K
  <2> QED
    BY <2>1
<1>5. \A c \in reached : At(E[c]) \in W
  BY <1>1, <1>2, <1>4
<1>6. BoundariesIn(g) = W /\ BoundariesIn(screen) \subseteq X
  <2>1. BoundariesIn(g) = W
    BY BoundariesAre
  <2>2. BoundariesIn(screen) \subseteq X
    BY BoundariesAre
  <2> QED
    BY <2>1, <2>2
<1>7. /\ \A l \in DOMAIN mounts :
           /\ l = <<l[1], l[2]>> /\ l[1] \in X /\ l[2] \in Site \ {Top}
           /\ Parent[l[2]] = l[1][1]
           /\ mounts[l] \in X /\ mounts[l][1] = l[2]
      /\ \A j, p \in X : j[1] # Top /\ p[1] = Parent[j[1]] => <<p, j[1]>> \in DOMAIN mounts
  BY DEF Mounted
\* Nothing is in the registry before anything is mounted.
<1>8. \A l \in DOMAIN mounts : mounts[l] \in BoundariesIn(screen)
  <2>1. CASE DOMAIN screen = {}
    <3>1. X = {RootInstance}
      BY <2>1 DEF Roots
    <3>2. \A i \in X : i[1] = Top
      BY <3>1 DEF RootInstance
    <3> QED
      BY <1>7, <3>2
  <2>2. CASE DOMAIN screen # {}
    <3>1. BoundariesIn(screen) = X
      BY <2>2, BoundariesAre
    <3> QED
      BY <1>7, <3>1
  <2> QED
    BY <2>1, <2>2
<1>9. \A l \in L : \E c \in reached \ {top} :
          l = <<At(E[Parent[c]]), c>> /\ b.resolved[l] = At(E[c])
  <2>1. L = Keys(E, o, reached) /\ \A l \in L : b.resolved[l] = At(E[l[2]])
    BY DEF Built
  <2>2. ASSUME NEW l \in L PROVE \E c \in reached \ {top} :
            l = <<At(E[Parent[c]]), c>> /\ b.resolved[l] = At(E[c])
    <3>1. PICK c \in reached \ {top} : l = <<At(E[Parent[c]]), c>>
      BY <2>1 DEF Keys
    <3>2. l[2] = c
      BY <3>1
    <3> QED
      BY <2>1, <3>1, <3>2
  <2> QED
    BY <2>2
<1>10. \A c \in reached \ {top} : <<At(E[Parent[c]]), c>> \in L
  BY DEF Built, Keys
<1>11. M = [l \in stay \cup enter |-> IF l \in enter THEN b.resolved[l] ELSE mounts[l]]
  BY DEF Committed
<1>12. enter = L
  BY <1>5, <1>6, <1>9
<1>13. \A l : l \in stay <=> l \in DOMAIN mounts /\ mounts[l] \in W
  BY <1>6, <1>8
<1> HIDE DEF X, W, K, M, stay, enter, L, top
<1>14. DOMAIN M = stay \cup L /\ \A l \in DOMAIN M : M[l] = IF l \in L THEN b.resolved[l] ELSE mounts[l]
  BY <1>11, <1>12
<1>15. ASSUME NEW l \in DOMAIN M
       PROVE  /\ l = <<l[1], l[2]>> /\ l[1] \in W /\ l[2] \in Site \ {Top}
              /\ Parent[l[2]] = l[1][1]
              /\ M[l] \in W /\ M[l][1] = l[2]
  <2>1. CASE l \in L
    <3>1. PICK c \in reached \ {top} : l = <<At(E[Parent[c]]), c>> /\ b.resolved[l] = At(E[c])
      BY <1>9, <2>1
    <3>2. M[l] = At(E[c]) /\ l[1] = At(E[Parent[c]]) /\ l[2] = c
      BY <1>14, <2>1, <3>1
    <3>3. Parent[c] \in reached /\ c \in reached /\ c \in Site \ {Top}
      BY <1>1
    <3> QED
      BY <1>2, <1>5, <3>1, <3>2, <3>3
  <2>2. CASE l \notin L
    <3>1. l \in DOMAIN mounts /\ mounts[l] \in W /\ M[l] = mounts[l]
      BY <1>13, <1>14, <2>2
    <3> DEFINE j == mounts[l]
               p == l[1]
    <3>2. /\ l = <<p, l[2]>> /\ p \in X /\ l[2] \in Site \ {Top}
          /\ Parent[l[2]] = p[1] /\ j \in X /\ j[1] = l[2]
      BY <1>7, <3>1
    <3>3. PICK q \in W : q[1] = p[1]
      BY <1>3, <3>1, <3>2
    <3>4. q \in X
      <4>1. ASSUME q \notin X PROVE FALSE
        <5>1. PICK c \in reached \ ret : q = At(E[c])
          BY <1>4, <4>1
        <5>2. c # top /\ q[1] = c /\ c = Parent[j[1]]
          BY <1>2, <3>2, <3>3, <4>1, <5>1
        <5>3. q \in W /\ j \in W /\ j[1] # Top /\ j[1] = l[2]
          BY <3>1, <3>2, <5>2
        \* It is not kept, since its parent is not; so it was put there.
        <5>4. ASSUME K(j[1]) PROVE j[1] \in ret
          BY <1>1, <3>2, <5>2, <5>4
        <5>5. \E d \in reached \ {top} : j = At(E[d]) /\ Parent[d] = c
          <6>1. CASE K(j[1])
            <7>1. j[1] \in ret
              BY <5>4, <6>1
            <7>2. At(E[j[1]]) \in X /\ At(E[j[1]])[1] = j[1]
              BY <1>1, <1>2, <7>1
            <7>3. j = At(E[j[1]])
              BY <1>3, <3>2, <7>2
            <7> QED
              BY <1>1, <5>2, <7>1, <7>3
          <6>2. CASE ~ K(j[1])
            <7>1. PICK d \in reached \ ret : j = At(E[d])
              BY <1>4, <5>3, <6>2
            <7>2. j[1] = d /\ Parent[d] = c
              BY <1>2, <5>2, <7>1
            <7>3. d # top
              <8>1. c \in Under(top) /\ top \in Site
                BY <1>0, <1>1 DEF Reach
              <8>2. d = top => top # Top /\ Parent[top] \notin Under(top)
                BY <3>2, <7>2, <8>1, UnderIs
              <8> QED
                BY <7>2, <8>1, <8>2
            <7> QED
              BY <7>1, <7>2, <7>3
          <6> QED
            BY <6>1, <6>2
        <5>6. PICK d \in reached \ {top} : j = At(E[d]) /\ Parent[d] = c
          BY <5>5
        <5>7. At(E[d]) \in X
          BY <3>2, <5>6
        <5>8. At(E[c]) \in X
          BY <1>2, <5>6, <5>7
        <5> QED
          BY <4>1, <5>1, <5>8
      <4> QED
        BY <4>1
    <3>5. p \in W
      BY <1>3, <3>2, <3>3, <3>4
    <3> HIDE DEF j, p
    <3>6. M[l] = j /\ j \in W
      BY <3>1 DEF j
    <3> QED
      BY <3>2, <3>5, <3>6 DEF p
  <2> QED
    BY <2>1, <2>2
<1>16. ASSUME NEW j \in W, NEW p \in W, j[1] # Top, p[1] = Parent[j[1]]
       PROVE  <<p, j[1]>> \in DOMAIN M
  <2>1. CASE j[1] \in reached \ {top}
    <3>1. Parent[j[1]] \in reached
      BY <1>1, <2>1
    <3>2. At(E[Parent[j[1]]]) \in W /\ At(E[Parent[j[1]]])[1] = Parent[j[1]]
      BY <1>2, <1>5, <3>1
    <3>3. p = At(E[Parent[j[1]]])
      BY <1>3, <1>16, <3>2
    <3> QED
      BY <1>10, <1>14, <2>1, <3>3
  <2>2. CASE j[1] \notin reached \ {top}
    <3>1. j \in X /\ (j[1] = top \/ (K(j[1]) /\ j[1] \notin ret))
      <4>1. CASE j[1] = top
        <5>1. At(E[top]) \in W /\ At(E[top])[1] = top
          BY <1>1, <1>2, <1>5
        <5>2. j = At(E[top])
          BY <1>3, <4>1, <5>1
        <5> QED
          BY <1>2, <4>1, <5>2
      <4>2. CASE j[1] # top
        <5>1. j[1] \notin reached
          BY <2>2, <4>2
        <5>2. j \in X /\ K(j[1])
          BY <1>2, <1>4, <5>1
        <5> QED
          BY <1>1, <5>1, <5>2
      <4> QED
        BY <4>1, <4>2
    <3>2. K(Parent[j[1]])
      <4>1. CASE j[1] = top
        <5>1. Parent[top] \notin Under(top)
          BY <1>1, <1>16, <4>1, UnderIs
        <5> QED
          BY <4>1, <5>1 DEF K, KeptSite
      <4>2. CASE K(j[1]) /\ j[1] \notin ret
        BY <1>1, <1>3, <1>16, <4>2
      <4> QED
        BY <3>1, <4>1, <4>2
    <3>3. p \in X
      BY <1>1, <1>2, <1>4, <1>16, <3>2
    <3> DEFINE l == <<p, j[1]>>
    <3>4. l \in DOMAIN mounts
      BY <1>7, <1>16, <3>1, <3>3
    <3>5. mounts[l] = j
      <4>1. l[2] = j[1]
        OBVIOUS
      <4>2. mounts[l] \in X /\ mounts[l][1] = l[2]
        BY <1>7, <3>4
      <4> HIDE DEF l
      <4> QED
        BY <1>3, <3>1, <4>1, <4>2
    <3> QED
      BY <1>13, <1>14, <3>4, <3>5
  <2> QED
    BY <2>1, <2>2
<1> QED
  BY <1>15, <1>16 DEF Mounted, M, W

-----------------------------------------------------------------------------
(* A turn.                                                                 *)

\* Whatever is rendered again, both sides are whole in the new state, if it
\* differs only in the part that is rendered and no boundary outside that still
\* remembers the old input.
LEMMA RenderKeeps ==
    ASSUME NEW infos, NEW o \in DOMAIN infos, NEW s \in States, DOMAIN infos = DOMAIN info,
           Whole(infos, screen, routes, mounts, cells), SameOutside(s, cells, o[1]),
           \A i \in DOMAIN infos : i[1] \notin Under(o[1]) =>
              infos[i].memo = Unknown \/ infos[i].memo = Input(i[1], s),
           RootInstance \in DOMAIN infos, shownRoot = infos[RootInstance].root,
           Render(o, s, infos)
    PROVE  /\ Whole(info', screen', routes', mounts', s)
           /\ RootInstance \in DOMAIN info' /\ shownRoot' = info'[RootInstance].root
           /\ shownRoot' # Nothing
<1> DEFINE E == Prepared(o, s, infos)
<1>1. /\ IsTree(DOMAIN infos) /\ Entries(infos, cells) /\ Paths(infos) /\ Remembered(infos, cells)
      /\ Mounted(DOMAIN infos, mounts)
      /\ Nodes(infos, screen) /\ Roots(infos, screen)
      /\ Routed(infos, screen, routes) /\ Shown(screen, cells)
  BY DEF Whole
<1>2. PICK near, low, built :
        /\ low = Lowered(o, s, infos, near)
        /\ built = Rebuilt(o, s, infos, low)
        /\ info' = built.info /\ routes' = built.routes
        /\ screen' = Replaced(infos[o].root, built.root, built.staged, built.frontier)
        /\ shownRoot' = IF shownRoot = infos[o].root THEN built.root ELSE shownRoot
        /\ mounts' = Committed(Replaced(infos[o].root, built.root, built.staged, built.frontier),
                               built.resolved)
  BY DEF Render
<1> DEFINE reached == low.reached
           ret == low.retained
           id == NodeIds(E, reached, ret)
           g == Replaced(infos[o].root, built.root, built.staged, built.frontier)
           new == built.info
           top == o[1]
<1>3. infos[o].site = top /\ top \in Site
  BY <1>1 DEF Entries, IsTree
<1>4. Ready(E, o, s, infos)
  BY <1>1, PreparedIs
<1> HIDE DEF E
<1>5. low.entry = E /\ Turned(E, o, s, infos, reached, ret)
  <2>1. E = Prepared(o, s, infos)
    BY DEF E
  <2> QED
    BY <1>1, <1>2, <1>4, <2>1, LoweredIs
<1>6. Reach(top, reached, ret)
  BY <1>5 DEF Turned
<1>7. Ids(screen, E, reached, ret, id)
  <2>1. IsTree(DOMAIN screen)
    BY <1>1 DEF Nodes
  <2> QED
    BY <1>1, <1>6, <2>1, IdsAre
<1>8. Puts(DOMAIN screen, id, top, reached, ret)
  <2>1. IsTree(DOMAIN screen)
    BY <1>1 DEF Nodes
  <2> HIDE DEF id, reached, ret
  <2> QED
    BY <1>1, <1>5, <1>7, <2>1, IdsPut
<1>9. \A c \in reached : id[c][1] = c
  BY <1>8 DEF Puts
<1>10. Built(built, infos, E, o, s, reached, ret, id, Retired(infos, E, o, reached, ret),
             Cleared(infos, E, o, reached, ret))
  <2>1. /\ Ready(low.entry, o, s, infos) /\ Reach(o[1], low.reached, low.retained)
        /\ \A c \in low.reached : NodeIds(low.entry, low.reached, low.retained)[c][1] = c
    BY <1>4, <1>5, <1>6, <1>9
  <2>2. Built(built, infos, low.entry, o, s, low.reached, low.retained,
              NodeIds(low.entry, low.reached, low.retained),
              Retired(infos, low.entry, o, low.reached, low.retained),
              Cleared(infos, low.entry, o, low.reached, low.retained))
    BY <1>2, <1>3, <2>1, RebuiltIs
  <2> QED
    BY <1>5, <2>2
<1> HIDE DEF id, reached, ret
<1>11. /\ Installed(new, infos, E, o, s, reached, ret, id)
       /\ Cleared(infos, E, o, reached, ret) = Gone(screen, o[1], ret)
  BY <1>1, <1>5, <1>10, BuiltIs
<1>12. /\ IsTree(DOMAIN new) /\ Entries(new, s) /\ Paths(new) /\ Remembered(new, s)
       /\ \A e \in ret : new[At(E[e])].revision = infos[At(E[e])].revision
  <2> HIDE DEF new
  <2> QED
    BY <1>1, <1>5, <1>11, InstalledIs
<1>13. Patched(screen, g, E, o, s, reached, ret, id)
  <2>1. g = Replaced(infos[o].root, built.root, built.staged, built.frontier)
    OBVIOUS
  <2> HIDE DEF g
  <2> QED
    BY <1>1, <1>5, <1>7, <1>10, <2>1, ReplacedIs
<1>14. /\ Nodes(new, g) /\ Roots(new, g) /\ Shown(g, s)
  <2> HIDE DEF new, g
  <2> QED
    BY <1>1, <1>5, <1>7, <1>11, <1>12, <1>13, PatchedIs
<1>15. Routed(new, g, built.routes)
  <2> DEFINE retired == Retired(infos, E, o, reached, ret)
  <2>1. Built(built, infos, E, o, s, reached, ret, id, retired, Gone(screen, o[1], ret))
    BY <1>10, <1>11
  <2>2. SameRevisions(built.info, infos, E, ret)
    BY <1>12 DEF SameRevisions
  <2>3. Installed(built.info, infos, E, o, s, reached, ret, id)
    BY <1>11
  <2> HIDE DEF g, retired
  <2>4. Routed(built.info, g, built.routes)
    BY <1>1, <1>5, <1>7, <1>13, <2>1, <2>2, <2>3, RoutedIs
  <2> QED
    BY <2>4
<1>16. id[top] \in DOMAIN g /\ top \in reached \ ret
  BY <1>6, <1>13 DEF Patched, Spliced, Reach
<1>17. Mounted(DOMAIN new, Committed(g, built.resolved))
  <2> DEFINE retired == Retired(infos, E, o, reached, ret)
             cleared == Cleared(infos, E, o, reached, ret)
  <2>1. Built(built, infos, E, o, s, reached, ret, id, retired, cleared)
    BY <1>10
  <2>2. DOMAIN g # {}
    BY <1>16
  <2> HIDE DEF g, retired, cleared
  <2> QED
    BY <1>1, <1>3, <1>5, <1>11, <1>12, <1>14, <2>1, <2>2, MountedIs
<1>18. info' = new /\ routes' = built.routes /\ screen' = g /\ mounts' = Committed(g, built.resolved)
  BY <1>2
<1>19. shownRoot' = IF shownRoot = infos[o].root THEN id[top] ELSE shownRoot
  BY <1>2, <1>10 DEF Built
<1> HIDE DEF new, g
<1>20. Whole(info', screen', routes', mounts', s)
  BY <1>12, <1>14, <1>15, <1>17, <1>18 DEF Whole
<1>21. RootInstance \in DOMAIN new /\ shownRoot' = new[RootInstance].root
  <2>1. CASE o = RootInstance
    <3>1. At(E[top]) = o /\ IsInfo(E[top])
      BY <1>3, <1>4, UnderIs DEF Ready
    <3>2. new[o] = Finished(E[top], id[top], {At(E[d]) : d \in Within(top, reached, top)}, s)
      BY <1>11, <1>16, <3>1 DEF Installed
    <3> DEFINE kids == {At(E[d]) : d \in Within(top, reached, top)}
               e == E[top]
               m == IF Remembers(e.site, e.passed) THEN Input(e.site, s) ELSE Unknown
               v == e.revision + 1
    <3>3. Finished(e, id[top], kids, s) =
            [e EXCEPT !.revision = v, !.ids = {id[top]}, !.children = kids, !.root = id[top],
                      !.memo = m]
      BY DEF Finished
    <3>4. new[o] = Finished(e, id[top], kids, s) /\ IsInfo(e)
      BY <3>1, <3>2
    <3> HIDE DEF e, m, v, kids
    <3>5. new[o].root = id[top]
      BY <3>3, <3>4 DEF IsInfo
    <3>6. o \in DOMAIN new
      <4>1. Places(E, reached)[top] = o
        BY <1>1, <1>5, PlacesPut
      <4> QED
        BY <1>11, <1>16, <4>1 DEF Installed, Spliced
    <3> QED
      BY <1>19, <2>1, <3>5, <3>6
  <2>2. CASE o # RootInstance
    <3>1. top # Top
      <4>1. o[1] = Top => o = RootInstance
        <5>1. RootInstance[1] = Top
          BY DEF RootInstance
        <5> QED
          BY <1>1, <5>1 DEF IsTree
      <4> QED
        BY <2>2, <4>1
    <3>2. infos[o].root[1] = top
      BY <1>1, <3>1, RootsAre
    <3>3. DOMAIN screen # {}
      BY <1>1, <3>1, RootsAre
    <3>4. infos[RootInstance].root[1] = Top
      <4>1. infos[RootInstance].root[1] = RootInstance[1]
        BY <1>1, <3>3, RootsAre
      <4> QED
        BY <4>1 DEF RootInstance
    <3>5. shownRoot' = shownRoot
      BY <1>19, <3>1, <3>2, <3>4
    <3>6. Top \notin Under(top) /\ RootInstance[1] = Top
      <4>1. Top \in Site /\ top \in Under(Top)
        BY <1>3, UnderIs, SessionAssumption
      <4> QED
        BY <1>3, <3>1, <4>1, UnderIs DEF RootInstance
    <3>7. Top \notin ret
      BY <1>6, <3>6 DEF Reach
    <3>8. new[RootInstance] = infos[RootInstance] /\ RootInstance \in DOMAIN new
      BY <1>11, <3>6, <3>7 DEF Installed, Spliced, KeptSite
    <3> QED
      BY <3>5, <3>8
  <2> QED
    BY <2>1, <2>2
<1>22. shownRoot' # Nothing
  <2>1. new[RootInstance].root \in DOMAIN g
    BY <1>12, <1>14, <1>16, <1>21, RootsAre
  <2>2. new[RootInstance].root \in Site \X Number
    BY <1>14, <2>1 DEF Nodes, IsTree
  <2> QED
    BY <1>21, <2>2, SessionAssumption
<1> QED
  BY <1>18, <1>20, <1>21, <1>22

-----------------------------------------------------------------------------
(* The boundary an action is for.                                          *)

\* A path is the boundaries a boundary is in, from the root down to itself.
Line(X, i, path) ==
    /\ path \in Seq(Site \X Number)
    /\ \A k \in DOMAIN path : path[k] \in X /\ i[1] \in Under(path[k][1])
    /\ \A j \in X : i[1] \in Under(j[1]) => \E k \in DOMAIN path : path[k] = j
    /\ \A k, l \in DOMAIN path :
         k < l => path[l][1] \in Under(path[k][1]) /\ path[k][1] \notin Under(path[l][1])

LEMMA AppendIs ==
    ASSUME NEW S, NEW q \in Seq(S), NEW x \in S, NEW r, r = Append(q, x)
    PROVE  /\ r \in Seq(S) /\ DOMAIN q \subseteq Nat
           /\ DOMAIN r = DOMAIN q \cup {Len(q) + 1}
           /\ \A k \in DOMAIN q : r[k] = q[k] /\ k \in Nat /\ k < Len(q) + 1
           /\ r[Len(q) + 1] = x /\ Len(q) \in Nat
<1>1. Len(q) \in Nat /\ DOMAIN q = 1 .. Len(q)
  OBVIOUS
<1>2. r \in Seq(S) /\ Len(r) = Len(q) + 1 /\ DOMAIN r = 1 .. Len(q) + 1
  BY <1>1
<1>3. 1 .. Len(q) + 1 = (1 .. Len(q)) \cup {Len(q) + 1}
  BY <1>1
<1>4. \A k \in 1 .. Len(q) : r[k] = q[k] /\ k \in Nat /\ k < Len(q) + 1
  BY <1>1
<1>5. r[Len(q) + 1] = x
  BY <1>1
<1> QED
  BY <1>1, <1>2, <1>3, <1>4, <1>5

LEMMA LinesAre ==
    ASSUME NEW infos, IsTree(DOMAIN infos), Paths(infos)
    PROVE  \A i \in DOMAIN infos : Line(DOMAIN infos, i, infos[i].path)
<1> DEFINE X == DOMAIN infos
           S == {c \in Site : \A i \in X : i[1] = c => Line(X, i, infos[i].path)}
<1>0. /\ \A x \in X : x \in Site \X Number /\ x[1] \in Site
      /\ \A x, y \in X : x[1] = y[1] => x = y
  BY DEF IsTree
<1>1. \A c \in Site : (c # Top /\ Parent[c] \in Site => Parent[c] \in S) => c \in S
  <2>1. ASSUME NEW c \in Site, c # Top /\ Parent[c] \in Site => Parent[c] \in S,
               NEW i \in X, i[1] = c
        PROVE  Line(X, i, infos[i].path)
    <3>1. CASE c = Top
      <4> DEFINE q == infos[i].path
      <4>1. q = <<i>>
        BY <2>1, <3>1 DEF Paths
      <4>2. q \in Seq(Site \X Number) /\ DOMAIN q = {1} /\ q[1] = i
        BY <1>0, <4>1
      <4> HIDE DEF q
      <4>3. \A j \in X : i[1] \in Under(j[1]) => j = i
        <5>1. ASSUME NEW j \in X, i[1] \in Under(j[1]) PROVE j[1] = i[1]
          BY <1>0, <2>1, <3>1, <5>1, UnderIs, SessionAssumption
        <5> QED
          BY <1>0, <5>1
      <4>4. i[1] \in Under(i[1])
        BY <1>0, UnderIs
      <4>5. Line(X, i, q)
        BY <4>2, <4>3, <4>4 DEF Line
      <4> QED
        BY <4>5 DEF q
    <3>2. CASE c # Top
      <4>1. PICK p \in X : p[1] = Parent[c]
        BY <2>1, <3>2 DEF IsTree
      <4> DEFINE q == infos[p].path
                 r == infos[i].path
                 n == Len(q) + 1
      <4>2. Line(X, p, q)
        BY <1>0, <2>1, <3>2, <4>1
      <4>3. r = Append(q, i)
        BY <2>1, <3>2, <4>1 DEF Paths
      <4>4. q \in Seq(Site \X Number)
        BY <4>2 DEF Line
      <4> HIDE DEF q, r
      <4>5. /\ r \in Seq(Site \X Number) /\ DOMAIN q \subseteq Nat
            /\ DOMAIN r = DOMAIN q \cup {n}
            /\ \A k \in DOMAIN q : r[k] = q[k] /\ k \in Nat /\ k < n
            /\ r[n] = i /\ n \in Nat
        BY <1>0, <4>3, <4>4, AppendIs
      <4> HIDE DEF n
      <4>6. p[1] \in Site /\ i[1] \in Site /\ i[1] # Top /\ Parent[i[1]] = p[1]
        BY <1>0, <2>1, <3>2, <4>1
      <4>7. /\ i[1] \in Under(i[1]) /\ i[1] \in Under(p[1]) /\ p[1] \notin Under(i[1])
            /\ \A x \in Site : i[1] \in Under(x) <=> x = i[1] \/ p[1] \in Under(x)
        BY <4>6, UnderIs
      <4>8. \A k \in DOMAIN q : r[k] \in X /\ p[1] \in Under(r[k][1]) /\ r[k][1] \in Site
        BY <1>0, <4>2, <4>5 DEF Line
      <4>9. \A k \in DOMAIN r : r[k] \in X /\ i[1] \in Under(r[k][1])
        BY <4>5, <4>7, <4>8
      <4>10. \A j \in X : i[1] \in Under(j[1]) => \E k \in DOMAIN r : r[k] = j
        <5>1. ASSUME NEW j \in X, i[1] \in Under(j[1]) PROVE \E k \in DOMAIN r : r[k] = j
          <6>1. CASE j[1] = i[1]
            BY <1>0, <4>5, <6>1
          <6>2. CASE p[1] \in Under(j[1])
            <7>1. PICK k \in DOMAIN q : q[k] = j
              BY <4>2, <6>2 DEF Line
            <7> QED
              BY <4>5, <7>1
          <6> QED
            BY <1>0, <4>7, <5>1, <6>1, <6>2
        <5> QED
          BY <5>1
      <4>11. ASSUME NEW k \in DOMAIN r, NEW l \in DOMAIN r, k < l
             PROVE  r[l][1] \in Under(r[k][1]) /\ r[k][1] \notin Under(r[l][1])
        <5>1. CASE l \in DOMAIN q
          <6>1. k \in DOMAIN q
            <7>1. k = n => ~ (k < l)
              BY <4>5, <5>1
            <7> QED
              BY <4>5, <4>11, <7>1
          <6> QED
            BY <4>2, <4>5, <4>11, <5>1, <6>1 DEF Line
        <5>2. CASE l = n
          <6>1. k \in DOMAIN q
            BY <4>5, <4>11, <5>2
          <6>2. p[1] \in Under(r[k][1]) /\ r[k][1] \in Site
            BY <4>8, <6>1
          <6>3. r[k][1] \notin Under(i[1])
            BY <4>6, <4>7, <6>2, UnderIs
          <6> QED
            BY <4>5, <4>9, <5>2, <6>1, <6>3
        <5> QED
          BY <4>5, <5>1, <5>2
      <4>12. Line(X, i, r)
        BY <4>5, <4>9, <4>10, <4>11 DEF Line
      <4> QED
        BY <4>12 DEF r
    <3> QED
      BY <3>1, <3>2
  <2> QED
    BY <2>1
<1> HIDE DEF S
<1>2. \A c \in Site : c \in S
  BY <1>1, SiteInduction
<1> QED
  BY <1>0, <1>2 DEF S

\* As many as one to one.
LEMMA SameCount ==
    ASSUME NEW S, NEW T, NEW f \in [S -> T], IsFiniteSet(S),
           \A x, y \in S : f[x] = f[y] => x = y, \A t \in T : \E x \in S : f[x] = t
    PROVE  IsFiniteSet(T) /\ Cardinality(T) = Cardinality(S)
<1>1. f \in Bijection(S, T)
  BY DEF Bijection, Injection, Surjection, IsInjective
<1>2. ExistsBijection(S, T)
  BY <1>1 DEF ExistsBijection
<1> QED
  BY <1>2, FS_Bijection

\* The boundary an action finds by its level is the one that holds what it
\* changes.
LEMMA TargetIs ==
    ASSUME NEW X, X = DOMAIN info, IsTree(X), Paths(info), NEW o \in X, NEW d \in HoldersOf(o[1])
    PROVE  TargetOf(o, Level(o[1], d)) \in X /\ TargetOf(o, Level(o[1], d))[1] = d
<1> DEFINE c == o[1]
           path == info[o].path
           holding == {k \in DOMAIN path : path[k][1] \notin Transparent}
           nearer(k) == {l \in holding : k < l}
           levels == Level(c, d)
           passed == HoldersOf(c) \ HoldersOf(d)
<1>1. /\ \A x \in X : x[1] \in Site
      /\ \A x \in X : x[1] # Top => \E y \in X : y[1] = Parent[x[1]]
      /\ c \in Site
  BY DEF IsTree
<1>2. Line(X, o, path)
  BY LinesAre
<1>3. /\ path \in Seq(Site \X Number)
      /\ \A k \in DOMAIN path : path[k] \in X /\ c \in Under(path[k][1]) /\ path[k][1] \in Site
      /\ \A j \in X : c \in Under(j[1]) => \E k \in DOMAIN path : path[k] = j
      /\ \A k, l \in DOMAIN path :
           k < l => path[l][1] \in Under(path[k][1]) /\ path[k][1] \notin Under(path[l][1])
  BY <1>1, <1>2 DEF Line
<1>4. DOMAIN path \subseteq Nat /\ IsFiniteSet(DOMAIN path)
  <2>1. DOMAIN path = 1 .. Len(path) /\ Len(path) \in Nat
    BY <1>3
  <2>2. IsFiniteSet(1 .. Len(path))
    BY <2>1, FS_Interval
  <2> HIDE DEF path
  <2> QED
    BY <2>1, <2>2
\* There is a boundary of every site above one that has a boundary.
<1>5. \A a \in Site : c \in Under(a) => \E j \in X : j[1] = a
  <2> DEFINE S == {b \in Site : (\E x \in X : x[1] = b) =>
                     \A a \in Site : b \in Under(a) => \E j \in X : j[1] = a}
  <2>1. \A b \in Site : (b # Top /\ Parent[b] \in Site => Parent[b] \in S) => b \in S
    <3>1. ASSUME NEW b \in Site, b # Top /\ Parent[b] \in Site => Parent[b] \in S,
                 NEW x \in X, x[1] = b, NEW a \in Site, b \in Under(a)
          PROVE  \E j \in X : j[1] = a
      <4>1. CASE a = b
        BY <3>1, <4>1
      <4>2. CASE a # b
        <5>1. b # Top /\ Parent[b] \in Under(a) /\ Parent[b] \in Site
          BY <3>1, <4>2, UnderIs, ParentSite
        <5>2. \E y \in X : y[1] = Parent[b]
          BY <1>1, <3>1, <5>1
        <5> QED
          BY <3>1, <5>1, <5>2
      <4> QED
        BY <4>1, <4>2
    <3> QED
      BY <3>1
  <2> HIDE DEF S
  <2>2. c \in S
    BY <1>1, <2>1, SiteInduction
  <2> QED
    BY <2>2 DEF S
<1>6. \A b \in Site : \A a : a \in HoldersOf(b) <=> a \in Site /\ b \in Under(a) /\ a \notin Transparent
  <2>1. \A b \in Site : Over[b] \subseteq Site
    BY OverIs
  <2> QED
    BY <2>1 DEF HoldersOf, Under
<1>7. d \in Site /\ c \in Under(d) /\ d \notin Transparent
  BY <1>1, <1>6
<1>8. PICK t \in DOMAIN path : path[t][1] = d
  BY <1>3, <1>5, <1>7
<1> HIDE DEF path, c
<1>9. t \in holding /\ holding \subseteq Nat /\ IsFiniteSet(holding)
  <2>1. holding \in SUBSET DOMAIN path
    OBVIOUS
  <2>2. IsFiniteSet(holding)
    <3> HIDE DEF holding
    <3> QED
      BY <1>4, <2>1, FS_Subset
  <2> QED
    BY <1>4, <1>7, <1>8, <2>2
<1>10. \A k, l \in DOMAIN path : path[k][1] = path[l][1] => k = l
  <2>1. \A k, l \in DOMAIN path : path[k][1] = path[l][1] => ~ (k < l)
    BY <1>3, UnderIs
  <2> QED
    BY <1>4, <2>1
\* The sites passed are those of the holders nearer.
<1>11. \A a : a \in passed <=> \E k \in nearer(t) : path[k][1] = a
  <2>1. ASSUME NEW a \in passed PROVE \E k \in nearer(t) : path[k][1] = a
    <3>1. a \in Site /\ c \in Under(a) /\ a \notin Transparent /\ d \notin Under(a)
      BY <1>1, <1>6, <1>7
    <3>2. PICK k \in DOMAIN path : path[k][1] = a
      BY <1>3, <1>5, <3>1
    <3>3. ~ (k < t) /\ k # t
      BY <1>3, <1>7, <1>8, <3>1, <3>2, UnderIs
    <3>4. t < k
      BY <1>4, <3>3
    <3> QED
      BY <3>1, <3>2, <3>4
  <2>2. ASSUME NEW k \in nearer(t) PROVE path[k][1] \in passed
    <3>1. k \in DOMAIN path /\ t < k /\ path[k][1] \notin Transparent
      OBVIOUS
    <3>2. d \notin Under(path[k][1]) /\ c \in Under(path[k][1]) /\ path[k][1] \in Site
      BY <1>3, <1>8, <3>1
    <3> QED
      BY <1>1, <1>6, <1>7, <3>1, <3>2
  <2> QED
    BY <2>1, <2>2
<1> HIDE DEF passed, holding
<1>12. \A k \in holding : nearer(k) \in SUBSET holding /\ k \notin nearer(k)
  BY <1>9
<1>13. \A k \in holding : IsFiniteSet(nearer(k)) /\ Cardinality(nearer(k)) \in Nat
  <2>1. ASSUME NEW k \in holding PROVE IsFiniteSet(nearer(k)) /\ Cardinality(nearer(k)) \in Nat
    <3> DEFINE T == nearer(k)
    <3>1. T \in SUBSET holding
      BY <1>12
    <3> HIDE DEF T
    <3>2. IsFiniteSet(T) /\ Cardinality(T) \in Nat
      BY <1>9, <3>1, FS_Subset, FS_CardinalityType
    <3> QED
      BY <3>2 DEF T
  <2> QED
    BY <2>1
<1>14. levels = Cardinality(nearer(t))
  <2> DEFINE T == nearer(t)
             f == [k \in T |-> path[k][1]]
  <2>1. levels = Cardinality(passed)
    BY DEF Level, passed, c
  <2>2. f \in [T -> passed]
    BY <1>11
  <2>3. \A x, y \in T : f[x] = f[y] => x = y
    BY <1>10, <1>12 DEF holding
  <2>4. \A a \in passed : \E x \in T : f[x] = a
    BY <1>11
  <2>5. IsFiniteSet(T)
    BY <1>9, <1>13
  <2> HIDE DEF T, f
  <2>6. Cardinality(passed) = Cardinality(T)
    BY <2>2, <2>3, <2>4, <2>5, SameCount
  <2> QED
    BY <2>1, <2>6 DEF T
\* A holder further up has more that are nearer.
<1>15. \A k, l \in holding : k < l => Cardinality(nearer(l)) < Cardinality(nearer(k))
  <2>1. ASSUME NEW k \in holding, NEW l \in holding, k < l
        PROVE  Cardinality(nearer(l)) < Cardinality(nearer(k))
    <3> DEFINE A == nearer(k)
               B == nearer(l)
    <3>1. B \in SUBSET A /\ l \in A /\ l \notin B
      BY <1>9, <1>12, <2>1
    <3>2. /\ IsFiniteSet(A) /\ Cardinality(A) \in Nat
          /\ IsFiniteSet(B) /\ Cardinality(B) \in Nat
      BY <1>13
    <3> HIDE DEF A, B
    <3>3. Cardinality(B) <= Cardinality(A) /\ Cardinality(B) # Cardinality(A)
      BY <3>1, <3>2, FS_Subset
    <3>4. Cardinality(B) < Cardinality(A)
      BY <3>2, <3>3
    <3> QED
      BY <3>4 DEF A, B
  <2> QED
    BY <2>1
<1>16. levels < Cardinality(holding)
  <2> DEFINE B == nearer(t)
  <2>1. B \in SUBSET holding /\ t \in holding /\ t \notin B /\ IsFiniteSet(B) /\ Cardinality(B) \in Nat
    BY <1>9, <1>12, <1>13
  <2> HIDE DEF B
  <2>2. Cardinality(holding) \in Nat
    BY <1>9, FS_CardinalityType
  <2>3. Cardinality(B) <= Cardinality(holding) /\ Cardinality(B) # Cardinality(holding)
    BY <1>9, <2>1, FS_Subset
  <2>4. Cardinality(B) < Cardinality(holding)
    BY <2>1, <2>2, <2>3
  <2> QED
    BY <1>14, <2>4 DEF B
<1> DEFINE at == CHOOSE k \in holding : Cardinality(nearer(k)) = levels
<1>17. TargetOf(o, levels) = path[at]
  <2>1. TargetOf(o, levels) = IF levels < Cardinality(holding) THEN path[at] ELSE path[1]
    BY DEF TargetOf, path, holding
  <2> HIDE DEF at, levels
  <2> QED
    BY <1>16, <2>1
<1>18. at = t
  <2>1. at \in holding /\ Cardinality(nearer(at)) = levels
    BY <1>9, <1>14
  <2> HIDE DEF at
  <2>2. ~ (at < t) /\ ~ (t < at)
    <3>1. Cardinality(nearer(at)) \in Nat /\ Cardinality(nearer(t)) \in Nat
      BY <1>9, <1>13, <2>1
    <3>2. Cardinality(nearer(at)) = Cardinality(nearer(t))
      BY <1>14, <2>1
    <3>3. at < t => Cardinality(nearer(t)) < Cardinality(nearer(at))
      BY <1>9, <1>15, <2>1
    <3>4. t < at => Cardinality(nearer(at)) < Cardinality(nearer(t))
      BY <1>9, <1>15, <2>1
    <3> QED
      BY <3>1, <3>2, <3>3, <3>4
  <2>3. at \in Nat /\ t \in Nat
    BY <1>9, <2>1
  <2> QED
    BY <2>2, <2>3
<1> HIDE DEF at, levels
<1> QED
  BY <1>3, <1>8, <1>17, <1>18 DEF levels, c

-----------------------------------------------------------------------------
(* The whole of a turn.                                                    *)

\* The entries but for what they remember, some of which is forgotten.
Forgets(infos, old) ==
    /\ DOMAIN infos = DOMAIN old
    /\ \A i \in DOMAIN old :
         /\ IsInfo(infos[i])
         /\ infos[i].site = old[i].site /\ infos[i].path = old[i].path
         /\ infos[i].passed = old[i].passed /\ infos[i].revision = old[i].revision
         /\ infos[i].ids = old[i].ids /\ infos[i].children = old[i].children
         /\ infos[i].root = old[i].root
         /\ infos[i].memo = Unknown \/ infos[i].memo = old[i].memo

LEMMA ForgetsKeeps ==
    ASSUME NEW infos, NEW old, NEW graph, NEW rts, NEW mnt, NEW s,
           Whole(old, graph, rts, mnt, s), Forgets(infos, old)
    PROVE  Whole(infos, graph, rts, mnt, s)
<1>1. /\ IsTree(DOMAIN old) /\ Entries(old, s) /\ Paths(old) /\ Remembered(old, s)
      /\ Mounted(DOMAIN old, mnt)
      /\ Nodes(old, graph) /\ Roots(old, graph)
      /\ Routed(old, graph, rts) /\ Shown(graph, s)
  BY DEF Whole
<1>2. IsTree(DOMAIN infos) /\ Mounted(DOMAIN infos, mnt)
  BY <1>1 DEF Forgets
<1>3. Entries(infos, s)
  BY <1>1 DEF Forgets, Entries
<1>4. Paths(infos)
  <2>1. DOMAIN infos = DOMAIN old /\ \A i \in DOMAIN old : infos[i].path = old[i].path
    BY DEF Forgets
  <2> QED
    BY <1>1, <2>1 DEF Paths
<1>5. Remembered(infos, s)
  BY <1>1 DEF Forgets, Remembered
<1>6. Nodes(infos, graph)
  BY <1>1 DEF Forgets, Nodes
<1>7. Roots(infos, graph)
  <2>1. DOMAIN infos = DOMAIN old /\ \A i \in DOMAIN old : infos[i].root = old[i].root /\ infos[i].ids = old[i].ids
    BY DEF Forgets
  <2> QED
    BY <1>1, <2>1 DEF Roots
<1>8. Routed(infos, graph, rts)
  <2>1. \A i \in DOMAIN old : infos[i].revision = old[i].revision
    BY DEF Forgets
  <2>2. \A n \in DOMAIN graph : graph[n].boundary \in DOMAIN old
    BY <1>1 DEF Nodes
  <2> QED
    BY <1>1, <2>1, <2>2 DEF Routed
<1> QED
  BY <1>1, <1>2, <1>3, <1>4, <1>5, <1>6, <1>7, <1>8 DEF Whole

\* Every boundary above the target forgets what it remembered.
LEMMA DirtyIs ==
    ASSUME NEW s, Entries(info, s), IsTree(DOMAIN info), Paths(info), NEW t \in DOMAIN info
    PROVE  /\ Forgets(Dirty(t), info) /\ Dirty(t)[t] = info[t]
           /\ \A i \in DOMAIN info : i # t /\ t[1] \in Under(i[1]) => Dirty(t)[i].memo = Unknown
<1> DEFINE X == DOMAIN info
<1>1. Dirty(t) = [i \in X |-> IF i # t /\ i \in Range(info[t].path)
                              THEN [info[i] EXCEPT !.memo = Unknown] ELSE info[i]]
  BY DEF Dirty
<1>2. \A i \in X : t[1] \in Under(i[1]) => i \in Range(info[t].path)
  <2>1. Line(X, t, info[t].path)
    BY LinesAre
  <2> QED
    BY <2>1 DEF Line, Range
<1>3. ASSUME NEW i \in X
      PROVE  /\ IsInfo(Dirty(t)[i])
             /\ Dirty(t)[i].site = info[i].site /\ Dirty(t)[i].path = info[i].path
             /\ Dirty(t)[i].passed = info[i].passed /\ Dirty(t)[i].revision = info[i].revision
             /\ Dirty(t)[i].ids = info[i].ids /\ Dirty(t)[i].children = info[i].children
             /\ Dirty(t)[i].root = info[i].root
             /\ Dirty(t)[i].memo = Unknown \/ Dirty(t)[i].memo = info[i].memo
  <2>1. IsInfo(info[i])
    BY DEF Entries
  <2>2. CASE i # t /\ i \in Range(info[t].path)
    <3> DEFINE e == info[i]
               f == Dirty(t)[i]
    <3>1. f = [e EXCEPT !.memo = Unknown] /\ IsInfo(e)
      BY <1>1, <2>1, <2>2
    <3> HIDE DEF e, f
    <3>2. f = [site |-> e.site, path |-> e.path, passed |-> e.passed, memo |-> Unknown,
               revision |-> e.revision, ids |-> e.ids, children |-> e.children, root |-> e.root]
      BY <3>1 DEF IsInfo
    <3>3. /\ IsInfo(f)
          /\ f.site = e.site /\ f.path = e.path
          /\ f.passed = e.passed /\ f.revision = e.revision
          /\ f.ids = e.ids /\ f.children = e.children
          /\ f.root = e.root
          /\ f.memo = Unknown
      BY <3>2 DEF IsInfo
    <3> QED
      BY <3>3 DEF e, f
  <2>3. CASE ~ (i # t /\ i \in Range(info[t].path))
    BY <1>1, <2>1, <2>3
  <2> QED
    BY <2>2, <2>3
<1>4. DOMAIN Dirty(t) = X /\ Dirty(t)[t] = info[t]
  BY <1>1
<1>5. ASSUME NEW i \in X, i # t, t[1] \in Under(i[1]) PROVE Dirty(t)[i].memo = Unknown
  <2>1. Dirty(t)[i] = [info[i] EXCEPT !.memo = Unknown] /\ IsInfo(info[i])
    BY <1>1, <1>2, <1>5 DEF Entries
  <2> DEFINE e == info[i]
             f == Dirty(t)[i]
  <2>2. f = [e EXCEPT !.memo = Unknown] /\ IsInfo(e)
    BY <2>1
  <2> HIDE DEF e, f
  <2>3. f.memo = Unknown
    BY <2>2 DEF IsInfo
  <2> QED
    BY <2>3 DEF f
<1> QED
  BY <1>3, <1>4, <1>5 DEF Forgets

\* The states that differ from the present one in a boundary at most.
LEMMA ChangesAre ==
    ASSUME cells \in States, NEW d \in Site, NEW s \in Changes(d)
    PROVE  s \in States /\ SameOutside(s, cells, d)
<1>1. cells \in [Holders -> UNION Range(Values)] /\ \A c \in Holders : cells[c] \in Values[c]
  BY DEF States
<1>2. CASE s = cells
  BY <1>2 DEF SameOutside
<1>3. ASSUME NEW c \in Under(d) \ Transparent, NEW v \in Values[c], s = [cells EXCEPT ![c] = v]
      PROVE  s \in States /\ SameOutside(s, cells, d)
  <2>1. c \in Holders
    BY UnderIs DEF Holders
  <2>2. v \in UNION Range(Values)
    BY <2>1, SessionAssumption DEF Range
  <2>3. s \in [Holders -> UNION Range(Values)] /\ \A e \in Holders : s[e] = IF e = c THEN v ELSE cells[e]
    BY <1>1, <1>3, <2>1, <2>2
  <2>4. s \in States
    BY <1>1, <2>3 DEF States
  <2>5. SameOutside(s, cells, d)
    BY <2>3 DEF SameOutside
  <2> QED
    BY <2>4, <2>5
<1> QED
  BY <1>2, <1>3 DEF Changes

\* What is above neither is below the one nor the other: its input is the same.
LEMMA InputAside ==
    ASSUME NEW s, NEW d \in Site, NEW c \in Site, SameOutside(s, cells, d),
           c \notin Under(d), d \notin Under(c)
    PROVE  Input(c, s) = Input(c, cells)
<1>1. \A e \in Under(c) \ Transparent : s[e] = cells[e]
  <2>1. ASSUME NEW e \in Under(c) \ Transparent PROVE s[e] = cells[e]
    <3>1. e \in Site /\ e \in Holders
      BY UnderIs DEF Holders
    <3>2. e \notin Under(d)
      BY <3>1, UnderIs
    <3> QED
      BY <3>1, <3>2 DEF SameOutside
  <2> QED
    BY <2>1
<1> QED
  BY <1>1 DEF Input

SessionInv ==
    /\ Whole(info, screen, routes, mounts, cells)
    /\ RootInstance \in DOMAIN info /\ shownRoot = info[RootInstance].root
    /\ shownRoot # Nothing => cells \in States
    /\ opened => shownRoot # Nothing

\* What a turn leaves.
Left ==
    /\ Whole(info', screen', routes', mounts', cells')
    /\ RootInstance \in DOMAIN info' /\ shownRoot' = info'[RootInstance].root
    /\ shownRoot' # Nothing /\ cells' \in States

\* Of a boundary that holds state, and of the states it or one in it may change
\* to, a rendering of it with all above it forgetting is enough.
LEMMA UpdateKeeps ==
    ASSUME SessionInv, shownRoot # Nothing, NEW t \in DOMAIN info, NEW d \in Site, t[1] = d,
           NEW s \in Changes(d), NEW i \in DOMAIN info, i = t,
           UpdateBoundary(i, s, Dirty(t))
    PROVE  Left
<1> DEFINE infos == Dirty(t)
<1>1. /\ Whole(info, screen, routes, mounts, cells)
      /\ RootInstance \in DOMAIN info /\ shownRoot = info[RootInstance].root
      /\ cells \in States
  BY DEF SessionInv
<1>2. IsTree(DOMAIN info) /\ Entries(info, cells) /\ Paths(info) /\ Remembered(info, cells)
  BY <1>1 DEF Whole
<1>3. /\ Forgets(infos, info) /\ infos[t] = info[t]
      /\ \A j \in DOMAIN info : j # t /\ t[1] \in Under(j[1]) => infos[j].memo = Unknown
  BY <1>2, DirtyIs
<1>4. s \in States /\ SameOutside(s, cells, d)
  BY <1>1, ChangesAre
<1> HIDE DEF infos
<1>5. Whole(infos, screen, routes, mounts, cells) /\ DOMAIN infos = DOMAIN info
  BY <1>1, <1>3, ForgetsKeeps DEF Forgets
<1>6. RootInstance \in DOMAIN infos /\ shownRoot = infos[RootInstance].root
  BY <1>1, <1>3 DEF Forgets
<1>7. ASSUME NEW j \in DOMAIN infos, j[1] \notin Under(t[1]), infos[j].memo # Unknown
      PROVE  infos[j].memo = Input(j[1], s)
  <2>1. j \in DOMAIN info /\ j[1] \in Site /\ infos[j].memo = info[j].memo
    BY <1>2, <1>3, <1>5, <1>7 DEF Forgets, IsTree
  <2>2. info[j].memo = Input(j[1], cells)
    BY <1>2, <1>7, <2>1 DEF Remembered
  <2>3. t[1] \notin Under(j[1])
    <3>1. j # t
      BY <1>7, UnderIs
    <3> QED
      BY <1>3, <1>7, <2>1, <3>1
  <2>4. Input(j[1], s) = Input(j[1], cells)
    BY <1>4, <1>7, <2>1, <2>3, InputAside
  <2> QED
    BY <2>1, <2>2, <2>4
<1>8. /\ cells' = s
      /\ IF Unchanged(infos[t], s)
         THEN info' = infos /\ UNCHANGED <<routes, screen, shownRoot, mounts>>
         ELSE Render(t, s, infos)
  BY DEF UpdateBoundary, infos
<1>9. CASE Unchanged(infos[t], s)
  <2>1. infos[t].memo = Input(d, s)
    BY <1>2, <1>3, <1>9 DEF Unchanged, Entries
  <2>2. infos[t].memo # Unknown
    BY <1>4, <2>1, SnapshotAssumption
  <2>3. Input(d, s) = Input(d, cells)
    BY <1>2, <1>3, <2>1, <2>2 DEF Remembered
  <2>4. \A c \in Under(d) \ Transparent : s[c] = Input(d, s)[c] /\ cells[c] = Input(d, cells)[c]
    BY DEF Input
  <2>5. \A c \in Holders : s[c] = cells[c]
    BY <1>4, <2>3, <2>4 DEF SameOutside, Holders
  <2>6. s = cells
    <3>1. s = [c \in Holders |-> s[c]] /\ cells = [c \in Holders |-> cells[c]]
      BY <1>1, <1>4 DEF States
    <3> QED
      BY <2>5, <3>1
  <2> QED
    BY <1>1, <1>5, <1>6, <1>8, <1>9, <2>6 DEF Left
<1>10. CASE ~ Unchanged(infos[t], s)
  <2>1. Render(t, s, infos)
    BY <1>8, <1>10
  <2>2. t \in DOMAIN infos /\ SameOutside(s, cells, t[1])
    BY <1>4, <1>5
  <2>3. \A j \in DOMAIN infos : j[1] \notin Under(t[1]) =>
            infos[j].memo = Unknown \/ infos[j].memo = Input(j[1], s)
    BY <1>7
  <2>4. /\ Whole(info', screen', routes', mounts', s)
        /\ RootInstance \in DOMAIN info' /\ shownRoot' = info'[RootInstance].root
        /\ shownRoot' # Nothing
    BY <1>4, <1>5, <1>6, <2>1, <2>2, <2>3, RenderKeeps
  <2> QED
    BY <1>4, <1>8, <2>4 DEF Left
<1> QED
  BY <1>9, <1>10

\* A list that is rendered alone.
LEMMA RefreshKeeps ==
    ASSUME SessionInv, shownRoot # Nothing, NEW i \in DOMAIN info, UpdateBoundary(i, cells, info)
    PROVE  Left
<1>1. /\ Whole(info, screen, routes, mounts, cells)
      /\ RootInstance \in DOMAIN info /\ shownRoot = info[RootInstance].root
      /\ cells \in States
  BY DEF SessionInv
<1>2. /\ cells' = cells
      /\ IF Unchanged(info[i], cells)
         THEN info' = info /\ UNCHANGED <<routes, screen, shownRoot, mounts>>
         ELSE Render(i, cells, info)
  BY DEF UpdateBoundary
<1>3. CASE Unchanged(info[i], cells)
  BY <1>1, <1>2, <1>3 DEF Left
<1>4. CASE ~ Unchanged(info[i], cells)
  <2>1. SameOutside(cells, cells, i[1])
    BY DEF SameOutside
  <2>2. \A j \in DOMAIN info : j[1] \notin Under(i[1]) =>
            info[j].memo = Unknown \/ info[j].memo = Input(j[1], cells)
    BY <1>1 DEF Whole, Remembered
  <2>3. /\ Whole(info', screen', routes', mounts', cells)
        /\ RootInstance \in DOMAIN info' /\ shownRoot' = info'[RootInstance].root
        /\ shownRoot' # Nothing
    BY <1>1, <1>2, <1>4, <2>1, <2>2, RenderKeeps
  <2> QED
    BY <1>1, <1>2, <2>3 DEF Left
<1> QED
  BY <1>3, <1>4

\* Whatever the handler of any boundary answers.
LEMMA TurnKeeps ==
    ASSUME SessionInv, shownRoot # Nothing, NEW origins, origins \subseteq DOMAIN info, Turn(origins)
    PROVE  Left
<1>0. PICK origin \in DOMAIN info : \E answer \in Answers(origin) :
          UpdateBoundary(answer.renders, answer.cells, answer.info)
  BY DEF Turn
<1>1. PICK answer \in Answers(origin) :
          UpdateBoundary(answer.renders, answer.cells, answer.info)
  BY <1>0
<1> DEFINE c == origin[1]
<1>2. Whole(info, screen, routes, mounts, cells) /\ IsTree(DOMAIN info) /\ Paths(info)
  BY DEF SessionInv, Whole
<1>3. c \in Site /\ RootInstance \in DOMAIN info
  BY <1>2 DEF IsTree, SessionInv
<1>4. \/ answer = Refresh(origin)
      \/ \E d \in HoldersOf(c) : \E s \in Changes(d) : answer = Update(origin, Level(c, d), s)
      \/ \E s \in Changes(Top) : answer = Delegate(origin, Level(c, Top), s)
  BY DEF Answers
<1>5. CASE answer = Refresh(origin)
  <2>1. UpdateBoundary(origin, cells, info)
    BY <1>1, <1>5 DEF Refresh
  <2> QED
    BY <2>1, RefreshKeeps
<1>6. ASSUME NEW d \in HoldersOf(c), NEW s \in Changes(d), answer = Update(origin, Level(c, d), s)
      PROVE  Left
  <2> DEFINE t == TargetOf(origin, Level(c, d))
  <2>1. t \in DOMAIN info /\ t[1] = d
    BY <1>2, TargetIs
  <2>2. UpdateBoundary(t, s, Dirty(t))
    BY <1>1, <1>6 DEF Update
  <2>3. d \in Site
    BY <1>2, <2>1 DEF IsTree
  <2> HIDE DEF t
  <2> QED
    BY <2>1, <2>2, <2>3, UpdateKeeps
<1>7. ASSUME NEW s \in Changes(Top), answer = Delegate(origin, Level(c, Top), s)
      PROVE  Left
  <2> DEFINE t == TargetOf(origin, Level(c, Top))
  <2>1. Top \in HoldersOf(c) /\ Top \in Site
    <3>1. Top \in Site /\ Top \notin Transparent
      BY SessionAssumption
    <3>2. c \in Under(Top)
      BY <1>3, UnderIs
    <3> QED
      BY <3>1, <3>2 DEF HoldersOf, Under
  <2>2. t \in DOMAIN info /\ t[1] = Top
    BY <1>2, <2>1, TargetIs
  <2>3. UpdateBoundary(RootInstance, s, Dirty(t))
    BY <1>1, <1>7 DEF Delegate
  <2> HIDE DEF t
  <2>4. RootInstance = t
    <3>1. RootInstance[1] = Top
      BY DEF RootInstance
    <3> QED
      BY <1>2, <1>3, <2>2, <3>1 DEF IsTree
  <2> QED
    BY <1>3, <2>1, <2>2, <2>3, <2>4, UpdateKeeps
<1> QED
  BY <1>4, <1>5, <1>6, <1>7

-----------------------------------------------------------------------------
(* The session.                                                            *)

\* Before anything is rendered there is the root's entry and the route of the
\* opening action.
LEMMA StartsWhole == SessionInit => SessionInv
<1> SUFFICES ASSUME SessionInit PROVE SessionInv
  OBVIOUS
<1> DEFINE e == NewInfo(Top, <<RootInstance>>, Nothing)
<1>1. /\ RootInstance \in Site \X Number /\ RootInstance[1] = Top /\ Top \in Site
      /\ OpenRoute \notin Site \X Number
  BY SessionAssumption DEF RootInstance
<1>2. /\ IsInfo(e) /\ e.site = Top /\ e.path = <<RootInstance>> /\ e.passed = Nothing
      /\ e.memo = Unknown /\ e.ids = {} /\ e.children = {} /\ e.root = Nothing
  BY DEF NewInfo, IsInfo
<1>3. /\ DOMAIN info = {RootInstance} /\ info[RootInstance] = e
      /\ DOMAIN routes = {OpenRoute} /\ screen = <<>> /\ mounts = <<>>
      /\ shownRoot = Nothing /\ ~ opened
  BY DEF SessionInit
<1>4. DOMAIN screen = {} /\ DOMAIN mounts = {}
  BY <1>3
<1>5. IsTree(DOMAIN info) /\ IsTree(DOMAIN screen)
  BY <1>1, <1>3, <1>4 DEF IsTree
<1> HIDE DEF e
<1>6. Entries(info, cells)
  <2>1. Inside(DOMAIN info, RootInstance) = {}
    BY <1>1, <1>3 DEF Inside
  <2>2. Given(Top, cells) = Nothing
    BY DEF Given
  <2> QED
    BY <1>1, <1>2, <1>3, <2>1, <2>2 DEF Entries
<1>7. Paths(info)
  <2>1. <<RootInstance>> \in Seq(Site \X Number)
    BY <1>1
  <2> QED
    BY <1>1, <1>2, <1>3, <2>1 DEF Paths
<1>8. Remembered(info, cells)
  BY <1>2, <1>3 DEF Remembered
<1>9. Mounted(DOMAIN info, mounts)
  BY <1>1, <1>3, <1>4 DEF Mounted
<1>10. Nodes(info, screen) /\ Routed(info, screen, routes) /\ Shown(screen, cells)
  BY <1>3, <1>4, <1>5 DEF Nodes, Routed, Shown
<1>11. Roots(info, screen)
  BY <1>2, <1>3, <1>4 DEF Roots
<1>12. Whole(info, screen, routes, mounts, cells)
  BY <1>5, <1>6, <1>7, <1>8, <1>9, <1>10, <1>11 DEF Whole
<1> QED
  BY <1>2, <1>3, <1>12 DEF SessionInv

\* The first rendering is one of the root, of any state.
LEMMA StartKeeps == SessionInv /\ Start => Left
<1> SUFFICES ASSUME SessionInv, Start PROVE Left
  OBVIOUS
<1>1. /\ Whole(info, screen, routes, mounts, cells)
      /\ RootInstance \in DOMAIN info /\ shownRoot = info[RootInstance].root
  BY DEF SessionInv
<1>2. cells' \in States /\ Render(RootInstance, cells', info)
  BY DEF Start
<1>3. PICK s \in States : s = cells' /\ Render(RootInstance, s, info)
  BY <1>2
<1>4. RootInstance[1] = Top /\ Under(Top) = Site
  BY UnderIs DEF RootInstance
<1>5. SameOutside(s, cells, RootInstance[1])
  BY <1>4 DEF SameOutside, Holders
<1>6. \A i \in DOMAIN info : i[1] \notin Under(RootInstance[1]) =>
          info[i].memo = Unknown \/ info[i].memo = Input(i[1], s)
  <2>1. \A i \in DOMAIN info : i[1] \in Site
    BY <1>1 DEF Whole, IsTree
  <2> QED
    BY <1>4, <2>1
<1>7. /\ Whole(info', screen', routes', mounts', s)
      /\ RootInstance \in DOMAIN info' /\ shownRoot' = info'[RootInstance].root
      /\ shownRoot' # Nothing
  BY <1>1, <1>3, <1>5, <1>6, RenderKeeps
<1> QED
  BY <1>3, <1>7 DEF Left

LEMMA OpenKeeps == SessionInv /\ Open => Left
<1> SUFFICES ASSUME SessionInv, Open PROVE Left
  OBVIOUS
<1>1. /\ shownRoot # Nothing
      /\ \/ Turn({RootInstance})
         \/ UNCHANGED <<cells, info, routes, screen, shownRoot, mounts>>
  BY DEF Open
<1>2. CASE Turn({RootInstance})
  <2>1. {RootInstance} \subseteq DOMAIN info
    BY DEF SessionInv
  <2> QED
    BY <1>1, <1>2, <2>1, TurnKeeps
<1>3. CASE UNCHANGED <<cells, info, routes, screen, shownRoot, mounts>>
  BY <1>1, <1>3 DEF SessionInv, Left
<1> QED
  BY <1>1, <1>2, <1>3

LEMMA DispatchKeeps == SessionInv /\ DispatchInput => Left
<1> SUFFICES ASSUME SessionInv, DispatchInput PROVE Left
  OBVIOUS
<1>1. shownRoot # Nothing /\ Turn(EventOrigins \cup CompletionOrigins)
  BY DEF SessionInv, DispatchInput
<1>2. EventOrigins \cup CompletionOrigins \subseteq DOMAIN info
  BY DEF EventOrigins, CompletionOrigins, Exists
<1> QED
  BY <1>1, <1>2, TurnKeeps

LEMMA NextKeeps == SessionInv /\ [SessionNext]_sessionVars => SessionInv'
<1> SUFFICES ASSUME SessionInv, [SessionNext]_sessionVars PROVE SessionInv'
  OBVIOUS
<1>1. Left => SessionInv'
  BY DEF Left, SessionInv
<1>2. CASE Start
  BY <1>1, <1>2, StartKeeps
<1>3. CASE Open
  BY <1>1, <1>3, OpenKeeps
<1>4. CASE DispatchInput
  BY <1>1, <1>4, DispatchKeeps
<1>5. CASE UNCHANGED sessionVars
  BY <1>5 DEF sessionVars, SessionInv, Whole, Shown, Routed
<1> QED
  BY <1>2, <1>3, <1>4, <1>5 DEF SessionNext

\* Whatever a turn renders and retains (rebuild!, apply_action!), the entries of
\* the session, the routes, the mounted graph and the registry remain one tree:
\* each entry has the value its place in the state gives it, a snapshot that is
\* its input or none, and the children that lie in it, and each node shows it.
THEOREM SessionInductive == SessionSpec => []SessionInv
<1>1. SessionInit => SessionInv
  BY StartsWhole
<1>2. SessionInv /\ [SessionNext]_sessionVars => SessionInv'
  BY NextKeeps
<1> QED
  BY <1>1, <1>2, PTL DEF SessionSpec

LEMMA WholeShows == SessionInv => ScreenCurrent
<1> SUFFICES ASSUME SessionInv, NEW n \in DOMAIN screen
             PROVE  LET emitted == {c \in Site \ {Top} : Parent[c] = n[1] /\ Emits(c, PassedNow[c])}
                        kids == {k[1] : k \in screen[n].kids}
                    IN  /\ screen[n].shows = Shows(n[1], PassedNow[n[1]], cells)
                        /\ kids \subseteq emitted
                        /\ n[1] \in Transparent \/ kids = emitted
  BY DEF ScreenCurrent
<1> DEFINE emitted == {c \in Site \ {Top} : Parent[c] = n[1] /\ Emits(c, PassedNow[c])}
           kids == {k[1] : k \in screen[n].kids}
<1>1. Nodes(info, screen) /\ Shown(screen, cells)
  BY DEF SessionInv, Whole
<1>2. /\ \A k \in DOMAIN screen : k[1] \in Site
      /\ screen[n].kids = {k \in DOMAIN screen : k[1] # Top /\ Parent[k[1]] = n[1]}
  BY <1>1 DEF Nodes, IsTree, Inside
<1>3. \A c \in Site : PassedNow[c] = Given(c, cells)
  BY PassedIs
<1>4. screen[n].shows = Shows(n[1], PassedNow[n[1]], cells)
  BY <1>1, <1>2, <1>3 DEF Shown
<1>5. kids \subseteq emitted
  <2>1. ASSUME NEW k \in screen[n].kids PROVE k[1] \in emitted
    <3>1. k \in DOMAIN screen /\ k[1] \in Site \ {Top} /\ Parent[k[1]] = n[1]
      BY <1>2
    <3>2. Emits(k[1], Given(k[1], cells))
      BY <1>1, <3>1 DEF Shown
    <3> QED
      BY <1>3, <3>1, <3>2
  <2> QED
    BY <2>1
<1>6. ASSUME n[1] \notin Transparent PROVE emitted \subseteq kids
  <2>1. ASSUME NEW c \in emitted PROVE c \in kids
    <3>1. c \in Site \ {Top} /\ Parent[c] = n[1] /\ Emits(c, Given(c, cells))
      BY <1>3
    <3>2. PICK k \in DOMAIN screen : k[1] = c
      BY <1>1, <1>6, <3>1 DEF Shown
    <3>3. k \in screen[n].kids
      BY <1>2, <3>1, <3>2
    <3> QED
      BY <3>2, <3>3
  <2> QED
    BY <2>1
<1> QED
  BY <1>4, <1>5, <1>6

\* However little of it a turn renders, the screen is what a rendering of the
\* whole application would show of the latest state: unchanged! retains only
\* what would come out the same, and what it retains stays where it belongs.
THEOREM ScreenCurrentHolds == SessionSpec => []ScreenCurrent
BY SessionInductive, WholeShows, PTL

LEMMA WholeAgrees == SessionInv => SidesAgree
<1> SUFFICES ASSUME SessionInv, shownRoot # Nothing
             PROVE  /\ DOMAIN screen = Subtree[shownRoot]
                    /\ DOMAIN routes = DOMAIN screen \cup {OpenRoute}
                    /\ DOMAIN info = BoundariesIn(screen)
                    /\ \A n \in DOMAIN screen :
                         LET i == screen[n].boundary
                             children == {screen[k].boundary : k \in screen[n].kids}
                         IN  /\ routes[n] = [boundary |-> i, revision |-> info[i].revision]
                             /\ info[i].root = n /\ info[i].children = children
                             /\ \A j \in children : mounts[<<i, j[1]>>] = j
                    /\ \A l \in DOMAIN mounts : mounts[l] \in info[l[1]].children
  BY DEF SidesAgree
<1> DEFINE X == DOMAIN info
           Y == DOMAIN screen
<1>1. /\ IsTree(X) /\ Entries(info, cells) /\ Mounted(X, mounts)
      /\ Nodes(info, screen) /\ Roots(info, screen) /\ Routed(info, screen, routes)
      /\ RootInstance \in X /\ shownRoot = info[RootInstance].root
  BY DEF SessionInv, Whole
<1>2. /\ \A x, y \in X : x[1] = y[1] => x = y
      /\ \A x, y \in Y : x[1] = y[1] => x = y
      /\ \A x \in X : x[1] \in Site
      /\ \A x \in Y : x[1] \in Site
  BY <1>1 DEF IsTree, Nodes
<1>3. shownRoot \in Y /\ shownRoot[1] = Top
  <2>1. RootInstance[1] = Top
    BY DEF RootInstance
  <2> QED
    BY <1>1, <2>1 DEF Roots
<1>4. Y = Subtree[shownRoot]
  <2>1. Subtree[shownRoot] = {m \in Y : m[1] \in Under(shownRoot[1])}
    BY <1>1, <1>3, SubtreeIs
  <2>2. Under(shownRoot[1]) = Site
    BY <1>3, UnderIs
  <2> QED
    BY <1>2, <2>1, <2>2
<1>5. DOMAIN routes = Y \cup {OpenRoute}
  BY <1>1 DEF Routed
<1>6. X = BoundariesIn(screen)
  <2>1. BoundariesIn(screen) = IF DOMAIN screen = {} THEN {} ELSE DOMAIN info
    BY <1>1, BoundariesAre
  <2> QED
    BY <1>3, <2>1
<1>7. ASSUME NEW n \in Y
      PROVE  LET i == screen[n].boundary
                 children == {screen[k].boundary : k \in screen[n].kids}
             IN  /\ routes[n] = [boundary |-> i, revision |-> info[i].revision]
                 /\ info[i].root = n /\ info[i].children = children
                 /\ \A j \in children : mounts[<<i, j[1]>>] = j
  <2> DEFINE i == screen[n].boundary
             children == {screen[k].boundary : k \in screen[n].kids}
  <2>1. i \in X /\ i[1] = n[1]
    BY <1>1 DEF Nodes
  <2>2. routes[n] = [boundary |-> i, revision |-> info[i].revision]
    BY <1>1 DEF Routed
  <2>3. \A x \in X : info[x].root \in Y /\ info[x].root[1] = x[1]
    BY <1>1, <1>3, RootsAre
  <2>4. info[i].root = n
    BY <1>2, <2>1, <2>3
  <2>5. info[i].children = children
    <3>1. info[i].children = {y \in X : y[1] # Top /\ Parent[y[1]] = i[1]}
      BY <1>1, <2>1 DEF Entries, Inside
    <3>2. screen[n].kids = {k \in Y : k[1] # Top /\ Parent[k[1]] = n[1]}
      BY <1>1 DEF Nodes, Inside
    <3>3. \A k \in Y : screen[k].boundary \in X /\ screen[k].boundary[1] = k[1]
      BY <1>1 DEF Nodes
    <3>4. ASSUME NEW y \in X PROVE screen[info[y].root].boundary = y /\ info[y].root \in Y /\ info[y].root[1] = y[1]
      BY <1>2, <2>3, <3>3
    <3>5. info[i].children \subseteq children
      BY <2>1, <3>1, <3>2, <3>4
    <3>6. children \subseteq info[i].children
      BY <2>1, <3>1, <3>2, <3>3
    <3> QED
      BY <3>5, <3>6
  <2>6. ASSUME NEW j \in children PROVE mounts[<<i, j[1]>>] = j
    <3>1. j \in X /\ j[1] # Top /\ Parent[j[1]] = i[1]
      BY <1>1, <2>1, <2>5 DEF Entries, Inside
    <3>2. <<i, j[1]>> \in DOMAIN mounts
      BY <1>1, <2>1, <3>1 DEF Mounted
    <3>3. mounts[<<i, j[1]>>] \in X /\ mounts[<<i, j[1]>>][1] = j[1]
      <4> DEFINE l == <<i, j[1]>>
      <4>1. l \in DOMAIN mounts /\ l[2] = j[1]
        BY <3>2
      <4> HIDE DEF l
      <4>2. mounts[l] \in X /\ mounts[l][1] = l[2]
        BY <1>1, <4>1 DEF Mounted
      <4> QED
        BY <4>1, <4>2 DEF l
    <3> QED
      BY <1>2, <3>1, <3>3
  <2> HIDE DEF i, children
  <2>7. /\ routes[n] = [boundary |-> i, revision |-> info[i].revision]
        /\ info[i].root = n /\ info[i].children = children
        /\ \A j \in children : mounts[<<i, j[1]>>] = j
    BY <2>2, <2>4, <2>5, <2>6
  <2> QED
    BY <2>7 DEF i, children
<1>8. ASSUME NEW l \in DOMAIN mounts PROVE mounts[l] \in info[l[1]].children
  <2>1. /\ l[1] \in X /\ l[2] \in Site \ {Top} /\ Parent[l[2]] = l[1][1]
        /\ mounts[l] \in X /\ mounts[l][1] = l[2]
    BY <1>1, <1>8 DEF Mounted
  <2> QED
    BY <1>1, <2>1 DEF Entries, Inside
<1> QED
  BY <1>4, <1>5, <1>6, <1>7, <1>8

\* After every turn the session (install!, retire!), the graph that Replace
\* splices and the registry (ComponentRegistry::commit) know the same boundaries.
THEOREM SidesAgreeHolds == SessionSpec => []SidesAgree
BY SessionInductive, WholeAgrees, PTL

=============================================================================

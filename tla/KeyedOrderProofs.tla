--------------------------- MODULE KeyedOrderProofs -------------------------
(***************************************************************************)
(* What holds of the linked order of a keyed column for every set of keys, *)
(* every bound and every sequence of transactions, legal or not.           *)
(*                                                                         *)
(* The links represent a sequence of distinct keys (Lists), which an       *)
(* operation takes out of (Cut) or puts into (Put); what the journal would *)
(* restore does not change while a transaction is open (TouchRestores).    *)
(* From the first come the iterators (OneList) and, with the second, that  *)
(* every step is a step of KeyedList.  What a commit publishes agrees with *)
(* the mounted nodes because a fragment's root is new and its instance is  *)
(* new or the one its key had (Staged).                                    *)
(*                                                                         *)
(* The last section is about KeyedColumn: what a turn has resolved agrees  *)
(* with the registry (SeenInv), so a key that survives keeps its instance. *)
(***************************************************************************)
EXTENDS KeyedColumn, SequenceTheorems, FiniteSetTheorems, WellFoundedInduction, TLAPS

-----------------------------------------------------------------------------
(* The types of an order and of a journal.                                 *)

Revision == 0 .. MaxRevision
Order == [head : Link, tail : Link, revision : Revision,
          children : UNION {[D -> Child] : D \in SUBSET Keys}]
Journal == [head : Link, tail : Link, revision : Revision,
            originals : UNION {[D -> Child \union {None}] : D \in SUBSET Keys}]

\* What Join changes, field by field.
Joined(r, o, left, right) ==
    /\ r \in Order
    /\ r.head = IF left = None THEN right ELSE o.head
    /\ r.tail = IF right = None THEN left ELSE o.tail
    /\ r.revision = o.revision
    /\ DOMAIN r.children = DOMAIN o.children
    /\ \A k \in DOMAIN o.children :
         /\ r.children[k].next = IF k = left THEN right ELSE o.children[k].next
         /\ r.children[k].previous = IF k = right THEN left ELSE o.children[k].previous
         /\ r.children[k].root = o.children[k].root
         /\ r.children[k].instance = o.children[k].instance

LEMMA JoinFields ==
    ASSUME NEW o \in Order, NEW left \in Link, NEW right \in Link, NEW r, r = Join(o, left, right)
    PROVE  Joined(r, o, left, right)
<1> DEFINE c == o.children
           D == DOMAIN c
           d == Linked(c, left, right)
<1>1. D \in SUBSET Keys /\ c \in [D -> Child]
  BY DEF Order
<1>2. \A k \in D : /\ d[k] \in Child
                   /\ d[k].next = IF k = left THEN right ELSE c[k].next
                   /\ d[k].previous = IF k = right THEN left ELSE c[k].previous
                   /\ d[k].root = c[k].root /\ d[k].instance = c[k].instance
  BY <1>1 DEF Child, Linked
<1>3. d \in [D -> Child]
  BY <1>2 DEF Linked
<1>4. /\ r.head = IF left = None THEN right ELSE o.head
      /\ r.tail = IF right = None THEN left ELSE o.tail
      /\ r.revision = o.revision
      /\ r.children = d
  BY DEF Join, Order
<1>5. DOMAIN d = D
  BY DEF Linked
<1>6. r \in [head : Link, tail : Link, revision : Revision, children : {d}]
  <2> HIDE DEF d
  <2> QED
    BY <1>4 DEF Join, Order
<1>7. d \in UNION {[E -> Child] : E \in SUBSET Keys}
  BY <1>1, <1>3
<1> QED
  BY <1>2, <1>4, <1>5, <1>6, <1>7 DEF Order, Joined

-----------------------------------------------------------------------------
(* The sequence the links represent.                                       *)

At(s, i) == IF i \in 1 .. Len(s) THEN s[i] ELSE None
Once(s) == \A i, j \in DOMAIN s : s[i] = s[j] => i = j
Met(s) == {s[i] : i \in DOMAIN s}

\* The ends and the neighbours are those of s.
Linking(o, s) ==
    /\ o.head = At(s, 1) /\ o.tail = At(s, Len(s))
    /\ \A i \in 1 .. Len(s) : /\ o.children[s[i]].previous = At(s, i - 1)
                              /\ o.children[s[i]].next = At(s, i + 1)

Lists(o, s) == s \in Seq(Keys) /\ Once(s) /\ Linking(o, s) /\ DOMAIN o.children = Met(s)

\* s without its place p, and s with k at place q.
Cut(s, p) == [i \in 1 .. (Len(s) - 1) |-> IF i < p THEN s[i] ELSE s[i + 1]]
Put(s, q, k) == [i \in 1 .. (Len(s) + 1) |->
                    IF i < q THEN s[i] ELSE IF i = q THEN k ELSE s[i - 1]]

LEMMA AtLink ==
    ASSUME NEW s \in Seq(Keys), NEW i
    PROVE  At(s, i) \in Link /\ (i \in 1 .. Len(s) => At(s, i) \in Keys /\ At(s, i) # None)
<1>1. \A j \in 1 .. Len(s) : s[j] \in Keys
  BY ElementOfSeq
<1> QED
  BY <1>1, NoneAssumption DEF At, Link

LEMMA CutSound ==
    ASSUME NEW s \in Seq(Keys), Once(s), NEW p \in 1 .. Len(s)
    PROVE  /\ Cut(s, p) \in Seq(Keys) /\ Len(Cut(s, p)) = Len(s) - 1
           /\ Once(Cut(s, p)) /\ Met(Cut(s, p)) = Met(s) \ {s[p]}
<1> DEFINE n == Len(s)
           t == Cut(s, p)
<1>1. n \in Nat /\ n >= 1 /\ DOMAIN s = 1 .. n /\ \A i \in 1 .. n : s[i] \in Keys
  BY ElementOfSeq, LenProperties
<1>2. t \in [1 .. (n - 1) -> Keys] /\ n - 1 \in Nat
  BY <1>1 DEF Cut
<1>3. t \in Seq(Keys) /\ Len(t) = n - 1 /\ DOMAIN t = 1 .. (n - 1)
  BY <1>2, SeqDef, IsASeq, LenProperties
<1>4. \A i \in 1 .. (n - 1) : t[i] = IF i < p THEN s[i] ELSE s[i + 1]
  BY DEF Cut
<1> HIDE DEF n, t
<1>5. Once(t)
  <2> DEFINE from(i) == IF i < p THEN i ELSE i + 1
  <2>1. p \in 1 .. n
    BY DEF n
  <2>2. \A i \in 1 .. (n - 1) : from(i) \in 1 .. n /\ t[i] = s[from(i)]
    BY <1>1, <1>4, <2>1
  <2>3. \A i, j \in 1 .. (n - 1) : from(i) = from(j) => i = j
    BY <1>1, <2>1
  <2> HIDE DEF from
  <2>4. \A i, j \in 1 .. n : s[i] = s[j] => i = j
    BY <1>1 DEF Once
  <2> QED
    BY <1>3, <2>2, <2>3, <2>4 DEF Once
<1>6. ASSUME NEW k \in Met(t) PROVE k \in Met(s) \ {s[p]}
  <2>1. PICK i \in 1 .. (n - 1) : k = t[i]
    BY <1>3 DEF Met
  <2>2. CASE i < p
    BY <1>1, <1>4, <2>1, <2>2 DEF Met, Once, n
  <2>3. CASE ~ (i < p)
    BY <1>1, <1>4, <2>1, <2>3 DEF Met, Once, n
  <2> QED
    BY <2>2, <2>3
<1>7. ASSUME NEW k \in Met(s), k # s[p] PROVE k \in Met(t)
  <2>1. PICK i \in 1 .. n : k = s[i]
    BY <1>1 DEF Met
  <2>2. CASE i < p
    BY <1>1, <1>3, <1>4, <2>1, <2>2 DEF Met, n
  <2>3. CASE i > p
    <3>1. i - 1 \in 1 .. (n - 1) /\ ~ (i - 1 < p) /\ (i - 1) + 1 = i
      BY <1>1, <2>1, <2>3 DEF n
    <3> QED
      BY <1>3, <1>4, <2>1, <3>1 DEF Met
  <2> QED
    BY <1>7, <2>1, <2>2, <2>3, <1>1 DEF n
<1> QED
  BY <1>3, <1>5, <1>6, <1>7 DEF n, t

LEMMA PutSound ==
    ASSUME NEW s \in Seq(Keys), Once(s), NEW q \in 1 .. (Len(s) + 1), NEW k \in Keys \ Met(s)
    PROVE  /\ Put(s, q, k) \in Seq(Keys) /\ Len(Put(s, q, k)) = Len(s) + 1
           /\ Once(Put(s, q, k)) /\ Met(Put(s, q, k)) = Met(s) \union {k}
<1> DEFINE n == Len(s)
           t == Put(s, q, k)
<1>1. n \in Nat /\ DOMAIN s = 1 .. n /\ \A i \in 1 .. n : s[i] \in Keys /\ s[i] # k
  BY ElementOfSeq, LenProperties DEF Met
<1>2. t \in [1 .. (n + 1) -> Keys] /\ n + 1 \in Nat
  BY <1>1 DEF Put
<1>3. t \in Seq(Keys) /\ Len(t) = n + 1 /\ DOMAIN t = 1 .. (n + 1)
  BY <1>2, SeqDef, IsASeq, LenProperties
<1>4. \A i \in 1 .. (n + 1) : t[i] = IF i < q THEN s[i] ELSE IF i = q THEN k ELSE s[i - 1]
  BY DEF Put
<1> HIDE DEF n, t
<1>5. /\ \A i \in 1 .. (n + 1) : /\ i < q => i \in 1 .. n
                                 /\ i > q => i - 1 \in 1 .. n
      /\ q \in Int
  BY <1>1 DEF n
<1>6. Once(t)
  <2> SUFFICES ASSUME NEW i \in 1 .. (n + 1), NEW j \in 1 .. (n + 1), t[i] = t[j] PROVE i = j
    BY <1>3 DEF Once
  <2> DEFINE x == IF i < q THEN i ELSE i - 1
             y == IF j < q THEN j ELSE j - 1
  <2>1. CASE i = q \/ j = q
    BY <1>1, <1>4, <1>5, <2>1
  <2>2. CASE i # q /\ j # q
    <3>1. x \in 1 .. n /\ y \in 1 .. n /\ t[i] = s[x] /\ t[j] = s[y]
      BY <1>1, <1>4, <1>5, <2>2
    <3>2. x = y
      BY <1>1, <3>1 DEF Once
    <3> QED
      BY <1>1, <1>5, <2>2, <3>2
  <2> QED
    BY <2>1, <2>2
<1>7. ASSUME NEW x \in Met(t) PROVE x \in Met(s) \union {k}
  <2>1. PICK i \in 1 .. (n + 1) : x = t[i]
    BY <1>3 DEF Met
  <2>2. CASE i < q
    BY <1>1, <1>4, <1>5, <2>1, <2>2 DEF Met
  <2>3. CASE i > q
    <3>1. i - 1 \in 1 .. n
      BY <1>1, <2>1, <2>3 DEF n
    <3> QED
      BY <1>1, <1>4, <2>1, <2>3, <3>1 DEF Met
  <2> QED
    BY <1>1, <1>4, <2>1, <2>2, <2>3 DEF n
<1>8. ASSUME NEW x \in Met(s) PROVE x \in Met(t)
  <2>1. PICK i \in 1 .. n : x = s[i]
    BY <1>1 DEF Met
  <2>2. CASE i < q
    <3>1. i \in 1 .. (n + 1)
      BY <1>1, <2>1
    <3> QED
      BY <1>3, <1>4, <2>1, <2>2, <3>1 DEF Met
  <2>3. CASE i >= q
    <3>1. i + 1 \in 1 .. (n + 1) /\ ~ (i + 1 < q) /\ i + 1 # q /\ (i + 1) - 1 = i
      BY <1>1, <2>1, <2>3 DEF n
    <3> QED
      BY <1>3, <1>4, <2>1, <3>1 DEF Met
  <2> QED
    BY <2>1, <2>2, <2>3, <1>1 DEF n
<1>9. k \in Met(t)
  BY <1>1, <1>3, <1>4 DEF Met, n
<1> QED
  BY <1>3, <1>6, <1>7, <1>8, <1>9 DEF n, t

\* A child's neighbours are joined: the links are those of the sequence without it.
LEMMA Unlinked ==
    ASSUME NEW o \in Order, NEW s, Lists(o, s), NEW p \in 1 .. Len(s),
           NEW u, u = Unlink(o, s[p])
    PROVE  /\ u \in Order /\ u.revision = o.revision
           /\ DOMAIN u.children = DOMAIN o.children
           /\ Linking(u, Cut(s, p))
           /\ \A k \in DOMAIN o.children :
                /\ u.children[k].root = o.children[k].root
                /\ u.children[k].instance = o.children[k].instance
                /\ k \notin {At(s, p - 1), At(s, p + 1)} => u.children[k] = o.children[k]
<1> DEFINE n == Len(s)
           t == Cut(s, p)
           left == At(s, p - 1)
           right == At(s, p + 1)
<1>1. /\ s \in Seq(Keys) /\ n \in Nat /\ n >= 1 /\ p \in 1 .. n
      /\ DOMAIN s = 1 .. n /\ \A i \in 1 .. n : s[i] \in Keys
      /\ DOMAIN o.children = Met(s) /\ Linking(o, s)
      /\ \A i, j \in 1 .. n : s[i] = s[j] => i = j
      /\ \A i \in 1 .. n : s[i] \in DOMAIN o.children /\ s[i] # None
  BY ElementOfSeq, LenProperties, NoneAssumption DEF Lists, Once, Met
<1>2. left \in Link /\ right \in Link
  BY <1>1, AtLink
<1>3. u = Join(o, left, right)
  BY <1>1 DEF Unlink, Linking
<1> HIDE DEF left, right
<1>4. /\ u \in Order
      /\ u.head = IF left = None THEN right ELSE o.head
      /\ u.tail = IF right = None THEN left ELSE o.tail
      /\ u.revision = o.revision
      /\ DOMAIN u.children = DOMAIN o.children
      /\ \A k \in DOMAIN o.children :
           /\ u.children[k].next = IF k = left THEN right ELSE o.children[k].next
           /\ u.children[k].previous = IF k = right THEN left ELSE o.children[k].previous
           /\ u.children[k].root = o.children[k].root
           /\ u.children[k].instance = o.children[k].instance
  <2>1. Joined(u, o, left, right)
    BY <1>2, <1>3, JoinFields
  <2> QED
    BY <2>1 DEF Joined
<1>5. Len(t) = n - 1 /\ \A i \in 1 .. (n - 1) : t[i] = IF i < p THEN s[i] ELSE s[i + 1]
  BY <1>1, CutSound DEF Lists, Cut
<1> HIDE DEF n, t
<1>6. \A i \in Int : At(t, i) = IF i < p THEN At(s, i) ELSE At(s, i + 1)
  <2> SUFFICES ASSUME NEW i \in Int
               PROVE  At(t, i) = IF i < p THEN At(s, i) ELSE At(s, i + 1)
    OBVIOUS
  <2>1. CASE i < p
    <3>1. i \in 1 .. (n - 1) <=> i \in 1 .. n
      BY <1>1, <2>1
    <3> QED
      BY <1>5, <2>1, <3>1 DEF At, n
  <2>2. CASE i >= p
    <3>1. i \in 1 .. (n - 1) <=> i + 1 \in 1 .. n
      BY <1>1, <2>2
    <3> QED
      BY <1>1, <1>5, <2>2, <3>1 DEF At, n
  <2> QED
    BY <1>1, <2>1, <2>2
<1>7. /\ \A i \in 1 .. n : At(s, i) = s[i]
      /\ \A i \in Int \ (1 .. n) : At(s, i) = None
  BY DEF At, n
<1>8. /\ o.head = At(s, 1) /\ o.tail = At(s, n)
      /\ \A i \in 1 .. n : /\ o.children[s[i]].previous = At(s, i - 1)
                           /\ o.children[s[i]].next = At(s, i + 1)
  BY <1>1 DEF Linking, n
<1>9. left = None <=> p = 1
  BY <1>1, <1>7 DEF left
<1>10. right = None <=> p = n
  BY <1>1, <1>7 DEF right
<1>11. u.head = At(t, 1)
  <2>1. CASE p = 1
    BY <1>4, <1>6, <1>9, <2>1 DEF right
  <2>2. CASE p # 1
    BY <1>1, <1>4, <1>6, <1>8, <1>9, <2>2
  <2> QED
    BY <2>1, <2>2
<1>12. u.tail = At(t, n - 1)
  <2>1. CASE p = n
    BY <1>1, <1>4, <1>6, <1>10, <2>1 DEF left
  <2>2. CASE p # n
    <3>1. ~ (n - 1 < p) /\ (n - 1) + 1 = n /\ n - 1 \in Int
      BY <1>1, <2>2
    <3> QED
      BY <1>4, <1>6, <1>8, <1>10, <2>2, <3>1
  <2> QED
    BY <2>1, <2>2
<1>13. ASSUME NEW i \in 1 .. (n - 1)
       PROVE  u.children[t[i]].previous = At(t, i - 1) /\ u.children[t[i]].next = At(t, i + 1)
  <2>1. CASE i < p
    <3>5. /\ i \in 1 .. n /\ i - 1 \in Int /\ i + 1 \in Int /\ i - 1 < p /\ i # p + 1
          /\ p - 1 \in Int /\ p + 1 \in Int
      BY <1>1, <2>1
    <3>1. t[i] = s[i] /\ At(t, i - 1) = At(s, i - 1)
      BY <1>5, <1>6, <2>1, <3>5
    <3>2. s[i] # right
      BY <1>1, <1>7, <3>5 DEF right
    <3>3. s[i] = left <=> i = p - 1
      BY <1>1, <1>7, <2>1, <3>5 DEF left
    <3>4. At(t, i + 1) = IF i = p - 1 THEN right ELSE At(s, i + 1)
      <4>1. i = p - 1 => ~ (i + 1 < p) /\ (i + 1) + 1 = p + 1
        BY <1>1
      <4>2. i # p - 1 => i + 1 < p
        BY <1>1, <2>1
      <4> QED
        BY <1>6, <3>5, <4>1, <4>2 DEF right
    <3> QED
      <4> DEFINE k == s[i]
      <4>1. k \in DOMAIN o.children /\ t[i] = k /\ k # right /\ (k = left <=> i = p - 1)
        BY <1>1, <3>1, <3>2, <3>3, <3>5
      <4>2. o.children[k].previous = At(s, i - 1) /\ o.children[k].next = At(s, i + 1)
        BY <1>8, <3>5
      <4> HIDE DEF k
      <4>3. u.children[k].previous = At(t, i - 1) /\ u.children[k].next = At(t, i + 1)
        BY <1>4, <3>1, <3>4, <4>1, <4>2
      <4> QED
        BY <4>1, <4>3
  <2>2. CASE i >= p
    <3>6. /\ i + 1 \in 1 .. n /\ i - 1 \in Int /\ i + 1 \in Int
          /\ (i + 1) - 1 = i /\ ~ (i < p) /\ ~ (i + 1 < p) /\ i + 1 # p - 1
      BY <1>1, <2>2
    <3>1. t[i] = s[i + 1] /\ At(t, i + 1) = At(s, (i + 1) + 1)
      BY <1>5, <1>6, <3>6
    <3>2. s[i + 1] # left
      BY <1>1, <1>7, <3>6 DEF left
    <3>3. s[i + 1] = right <=> i + 1 = p + 1
      BY <1>1, <1>7, <2>2, <3>6 DEF right
    <3>4. At(t, i - 1) = IF i = p THEN left ELSE At(s, i)
      <4>1. i # p => ~ (i - 1 < p) /\ (i - 1) + 1 = i
        BY <1>1, <2>2
      <4>2. i = p => i - 1 < p
        BY <1>1
      <4> QED
        BY <1>6, <3>6, <4>1, <4>2 DEF left
    <3>5. i + 1 = p + 1 <=> i = p
      BY <1>1
    <3> QED
      <4> DEFINE k == s[i + 1]
      <4>1. k \in DOMAIN o.children /\ t[i] = k /\ k # left /\ (k = right <=> i = p)
        BY <1>1, <3>1, <3>2, <3>3, <3>5, <3>6
      <4>2. o.children[k].previous = At(s, i) /\ o.children[k].next = At(s, (i + 1) + 1)
        BY <1>8, <3>6
      <4> HIDE DEF k
      <4>3. u.children[k].previous = At(t, i - 1) /\ u.children[k].next = At(t, i + 1)
        BY <1>4, <3>1, <3>4, <4>1, <4>2
      <4> QED
        BY <4>1, <4>3
  <2> QED
    BY <1>1, <2>1, <2>2
<1>14. ASSUME NEW k \in DOMAIN o.children, k \notin {left, right}
       PROVE  u.children[k] = o.children[k]
  <2>1. u.children[k] \in Child /\ o.children[k] \in Child
    BY <1>4 DEF Order
  <2> QED
    BY <1>4, <1>14, <2>1 DEF Child
<1> QED
  BY <1>4, <1>5, <1>11, <1>12, <1>13, <1>14 DEF Linking, n, t, left, right

\* The place before `before`, or the last one.
LEMMA PlaceBefore ==
    ASSUME NEW s \in Seq(Keys), NEW before \in Link, before = None \/ before \in Met(s)
    PROVE  \E q \in 1 .. (Len(s) + 1) : At(s, q) = before
<1>1. Len(s) \in Nat /\ DOMAIN s = 1 .. Len(s)
  BY LenProperties
<1>2. CASE before = None
  BY <1>1, <1>2 DEF At
<1>3. CASE before \in Met(s)
  <2>1. PICK q \in 1 .. Len(s) : s[q] = before
    BY <1>1, <1>3 DEF Met
  <2> QED
    BY <1>1, <2>1 DEF At
<1> QED
  BY <1>2, <1>3

\* A child that no link names is joined to the two that become its neighbours.
LEMMA Placing ==
    ASSUME NEW o \in Order, NEW s \in Seq(Keys), Once(s), Linking(o, s),
           NEW k \in DOMAIN o.children, k \notin Met(s), Met(s) \subseteq DOMAIN o.children,
           NEW q \in 1 .. (Len(s) + 1), NEW before, before = At(s, q),
           NEW u, u = Join(Join(o, Previous(o, before), k), k, before)
    PROVE  /\ u \in Order /\ u.revision = o.revision
           /\ DOMAIN u.children = DOMAIN o.children
           /\ Linking(u, Put(s, q, k))
           /\ Previous(o, before) = At(s, q - 1)
           /\ \A x \in DOMAIN o.children :
                /\ u.children[x].root = o.children[x].root
                /\ u.children[x].instance = o.children[x].instance
                /\ x \notin {k, before, Previous(o, before)} => u.children[x] = o.children[x]
<1> DEFINE n == Len(s)
           t == Put(s, q, k)
           left == At(s, q - 1)
           m == Join(o, left, k)
<1>1. /\ n \in Nat /\ q \in 1 .. (n + 1) /\ DOMAIN s = 1 .. n
      /\ \A i \in 1 .. n : s[i] \in Keys /\ s[i] # None /\ s[i] # k /\ s[i] \in DOMAIN o.children
      /\ \A i, j \in 1 .. n : s[i] = s[j] => i = j
  BY ElementOfSeq, LenProperties, NoneAssumption DEF Once, Met
<1>2. k \in Keys /\ k \in Link /\ k # None
  BY NoneAssumption DEF Order, Link
<1>3. left \in Link /\ before \in Link
  BY AtLink
<1>4. /\ \A i \in 1 .. n : At(s, i) = s[i]
      /\ \A i \in Int \ (1 .. n) : At(s, i) = None
  BY DEF At
<1>5. /\ o.head = At(s, 1) /\ o.tail = At(s, n)
      /\ \A i \in 1 .. n : /\ o.children[s[i]].previous = At(s, i - 1)
                           /\ o.children[s[i]].next = At(s, i + 1)
  BY DEF Linking
<1>6. before = None <=> q = n + 1
  BY <1>1, <1>4
<1>7. left = None <=> q = 1
  BY <1>1, <1>4
<1>8. Previous(o, before) = left
  <2>1. CASE q = n + 1
    <3>1. q - 1 = n
      BY <1>1, <2>1
    <3> QED
      BY <1>5, <1>6, <2>1, <3>1 DEF Previous
  <2>2. CASE q # n + 1
    <3>1. q \in 1 .. n
      BY <1>1, <2>2
    <3> QED
      BY <1>4, <1>5, <1>6, <2>2, <3>1 DEF Previous
  <2> QED
    BY <2>1, <2>2
<1>9. u = Join(m, k, before)
  BY <1>8
<1>10. Len(t) = n + 1 /\ \A i \in 1 .. (n + 1) : t[i] = IF i < q THEN s[i] ELSE IF i = q THEN k ELSE s[i - 1]
  BY <1>2, PutSound DEF Put
<1>11. left # k /\ before # k
  BY <1>1, <1>2, <1>4, <1>6, <1>7 DEF At
<1> HIDE DEF n, t, left
<1>12. /\ m \in Order
       /\ m.head = IF left = None THEN k ELSE o.head
       /\ m.tail = o.tail
       /\ m.revision = o.revision
       /\ DOMAIN m.children = DOMAIN o.children
       /\ \A x \in DOMAIN o.children :
            /\ m.children[x].next = IF x = left THEN k ELSE o.children[x].next
            /\ m.children[x].previous = IF x = k THEN left ELSE o.children[x].previous
            /\ m.children[x].root = o.children[x].root
            /\ m.children[x].instance = o.children[x].instance
  <2> HIDE DEF m
  <2>1. m = Join(o, left, k)
    BY DEF m
  <2> QED
    <3>1. Joined(m, o, left, k)
      BY <1>2, <1>3, <2>1, JoinFields
    <3> QED
      BY <1>2, <3>1 DEF Joined
<1> HIDE DEF m
<1>13. /\ u \in Order
       /\ u.head = m.head
       /\ u.tail = IF before = None THEN k ELSE m.tail
       /\ u.revision = m.revision
       /\ DOMAIN u.children = DOMAIN m.children
       /\ \A x \in DOMAIN m.children :
            /\ u.children[x].next = IF x = k THEN before ELSE m.children[x].next
            /\ u.children[x].previous = IF x = before THEN k ELSE m.children[x].previous
            /\ u.children[x].root = m.children[x].root
            /\ u.children[x].instance = m.children[x].instance
  <2>1. Joined(u, m, k, before)
    BY <1>2, <1>3, <1>9, <1>12, JoinFields
  <2> QED
    BY <1>2, <2>1 DEF Joined
<1>14. /\ u \in Order
       /\ u.head = IF left = None THEN k ELSE o.head
       /\ u.tail = IF before = None THEN k ELSE o.tail
       /\ u.revision = o.revision
       /\ DOMAIN u.children = DOMAIN o.children
       /\ \A x \in DOMAIN o.children :
            /\ u.children[x].next = IF x = k THEN before ELSE IF x = left THEN k
                                    ELSE o.children[x].next
            /\ u.children[x].previous = IF x = before THEN k ELSE IF x = k THEN left
                                        ELSE o.children[x].previous
            /\ u.children[x].root = o.children[x].root
            /\ u.children[x].instance = o.children[x].instance
  BY <1>12, <1>13
<1>15. \A i \in Int : At(t, i) = IF i < q THEN At(s, i) ELSE IF i = q THEN k ELSE At(s, i - 1)
  <2> SUFFICES ASSUME NEW i \in Int
               PROVE  At(t, i) = IF i < q THEN At(s, i) ELSE IF i = q THEN k ELSE At(s, i - 1)
    OBVIOUS
  <2>1. CASE i < q
    <3>1. i \in 1 .. (n + 1) <=> i \in 1 .. n
      BY <1>1, <2>1
    <3> QED
      BY <1>10, <2>1, <3>1 DEF At, n
  <2>2. CASE i = q
    BY <1>1, <1>10, <2>2 DEF At
  <2>3. CASE i > q
    <3>1. i \in 1 .. (n + 1) <=> i - 1 \in 1 .. n
      BY <1>1, <2>3
    <3>2. ~ (i < q) /\ i # q
      BY <1>1, <2>3
    <3> QED
      BY <1>10, <3>1, <3>2 DEF At, n
  <2> QED
    BY <1>1, <2>1, <2>2, <2>3
<1>16. u.head = At(t, 1)
  BY <1>1, <1>5, <1>7, <1>14, <1>15
<1>17. u.tail = At(t, n + 1)
  <2>1. ~ (n + 1 < q) /\ (n + 1) - 1 = n /\ n + 1 \in Int
    BY <1>1
  <2> QED
    BY <1>5, <1>6, <1>14, <1>15, <2>1
<1>18. ASSUME NEW i \in 1 .. (n + 1)
       PROVE  u.children[t[i]].previous = At(t, i - 1) /\ u.children[t[i]].next = At(t, i + 1)
  <2>1. i - 1 \in Int /\ i + 1 \in Int /\ q - 1 \in Int /\ q \in Int /\ i \in Int
    BY <1>1
  <2>2. CASE i < q
    <3>1. /\ i \in 1 .. n /\ i - 1 < q
          /\ (i = q - 1 => ~ (i + 1 < q) /\ i + 1 = q)
          /\ (i # q - 1 => i + 1 < q)
      BY <1>1, <2>2
    <3> DEFINE x == s[i]
    <3>2. x \in DOMAIN o.children /\ t[i] = x /\ x # k
      BY <1>1, <1>10, <2>2, <3>1
    <3>3. x = left <=> i = q - 1
      BY <1>1, <1>4, <2>1, <2>2, <3>1 DEF left
    <3>4. x # before
      BY <1>1, <1>4, <1>6, <2>1, <2>2, <3>1
    <3>5. o.children[x].previous = At(s, i - 1) /\ o.children[x].next = At(s, i + 1)
      BY <1>5, <3>1
    <3>6. At(t, i - 1) = At(s, i - 1) /\ At(t, i + 1) = IF i = q - 1 THEN k ELSE At(s, i + 1)
      BY <1>15, <2>1, <3>1
    <3> HIDE DEF x
    <3>7. u.children[x].previous = At(t, i - 1) /\ u.children[x].next = At(t, i + 1)
      BY <1>14, <3>2, <3>3, <3>4, <3>5, <3>6
    <3> QED
      BY <3>2, <3>7
  <2>3. CASE i = q
    <3>1. /\ t[i] = k /\ i - 1 < q /\ ~ (i + 1 < q) /\ i + 1 # q /\ (i + 1) - 1 = q
      BY <1>1, <1>10, <2>3
    <3>2. At(t, i - 1) = left /\ At(t, i + 1) = before
      BY <1>15, <2>1, <2>3, <3>1 DEF left
    <3> QED
      BY <1>11, <1>14, <3>1, <3>2
  <2>4. CASE i > q
    <3>1. /\ i - 1 \in 1 .. n /\ ~ (i < q) /\ i # q
          /\ ~ (i + 1 < q) /\ i + 1 # q /\ (i + 1) - 1 = i /\ (i - 1) + 1 = i
          /\ ~ (i - 1 < q) /\ i - 1 # q - 1
      BY <1>1, <2>4
    <3> DEFINE x == s[i - 1]
    <3>2. x \in DOMAIN o.children /\ t[i] = x /\ x # k
      BY <1>1, <1>10, <3>1
    <3>3. x = before <=> i - 1 = q
      BY <1>1, <1>4, <1>6, <2>1, <3>1
    <3>4. x # left
      BY <1>1, <1>4, <1>7, <2>1, <3>1 DEF left
    <3>5. o.children[x].previous = At(s, (i - 1) - 1) /\ o.children[x].next = At(s, i)
      BY <1>5, <3>1
    <3>6. At(t, i + 1) = At(s, i) /\ At(t, i - 1) = IF i - 1 = q THEN k ELSE At(s, (i - 1) - 1)
      BY <1>15, <2>1, <3>1
    <3> HIDE DEF x
    <3>7. u.children[x].previous = At(t, i - 1) /\ u.children[x].next = At(t, i + 1)
      BY <1>14, <3>2, <3>3, <3>4, <3>5, <3>6
    <3> QED
      BY <3>2, <3>7
  <2> QED
    BY <1>1, <2>2, <2>3, <2>4
<1>19. ASSUME NEW x \in DOMAIN o.children, x \notin {k, before, left}
       PROVE  u.children[x] = o.children[x]
  <2>1. u.children[x] \in Child /\ o.children[x] \in Child
    BY <1>14 DEF Order
  <2> QED
    BY <1>14, <1>19, <2>1 DEF Child
<1> QED
  BY <1>8, <1>10, <1>14, <1>16, <1>17, <1>18, <1>19 DEF Linking, n, t, left

-----------------------------------------------------------------------------
(* The operations of the transaction.                                      *)

\* The children in D are the rows they were.
RowsKept(r, o, D) ==
    \A x \in D : r.children[x].root = o.children[x].root
                 /\ r.children[x].instance = o.children[x].instance

\* KeyedOrderJournal::insert puts the new child before the anchor.
LEMMA InsertLists ==
    ASSUME NEW o \in Order, NEW s, Lists(o, s), NEW k \in Keys, k \notin Met(s),
           NEW root \in 1 .. MaxNode, NEW instance \in 1 .. MaxNode,
           NEW q \in 1 .. (Len(s) + 1), NEW before, before = At(s, q),
           NEW u, u = InsertChild(o, k, root, instance, before)
    PROVE  /\ u \in Order /\ u.revision = o.revision
           /\ Lists(u, Put(s, q, k))
           /\ RowsKept(u, o, DOMAIN o.children)
           /\ u.children[k].root = root /\ u.children[k].instance = instance
           /\ \A x \in DOMAIN o.children \ {before, Previous(o, before)} :
                    u.children[x] = o.children[x]
           /\ before # k
<1> DEFINE child == [root |-> root, instance |-> instance, previous |-> None, next |-> None]
           c == [x \in DOMAIN o.children \union {k} |-> IF x = k THEN child ELSE o.children[x]]
           D == DOMAIN o.children
           a == [o EXCEPT !.children = c]
<1>1. /\ s \in Seq(Keys) /\ Once(s) /\ Linking(o, s) /\ D = Met(s)
      /\ DOMAIN s = 1 .. Len(s)
      /\ D \in SUBSET Keys /\ o.children \in [D -> Child] /\ k \notin D
  BY LenProperties DEF Lists, Order
<1>2. child \in Child
  BY DEF Child, Link
<1>3. c \in [D \union {k} -> Child] /\ c[k] = child /\ \A x \in D : c[x] = o.children[x]
  BY <1>1, <1>2
<1>4. DOMAIN c = D \union {k}
  OBVIOUS
<1> HIDE DEF c, child
<1>5. /\ a.head = o.head /\ a.tail = o.tail /\ a.revision = o.revision /\ a.children = c
      /\ a \in [head : Link, tail : Link, revision : Revision, children : {c}]
  BY DEF Order
<1>6. c \in UNION {[E -> Child] : E \in SUBSET Keys}
  <2>1. D \union {k} \in SUBSET Keys
    BY <1>1
  <2> QED
    BY <1>3, <2>1
<1> HIDE DEF a
<1>7. a \in Order
  BY <1>5, <1>6 DEF Order
<1>8. Linking(a, s)
  <2>1. \A i \in 1 .. Len(s) : c[s[i]] = o.children[s[i]]
    BY <1>1, <1>3 DEF Met
  <2> QED
    BY <1>1, <1>5, <2>1 DEF Linking
<1>9. before = None \/ before \in D
  BY <1>1 DEF At, Met
<1>10. Previous(a, before) = Previous(o, before)
  BY <1>1, <1>3, <1>5, <1>9 DEF Previous
<1>11. a = [o EXCEPT !.children = [x \in DOMAIN @ \union {k} |-> IF x = k THEN child ELSE @[x]]]
  BY DEF a, c
<1>12. u = Join(Join(a, Previous(a, before), k), k, before)
  BY <1>10, <1>11 DEF InsertChild, child
<1>13. /\ u \in Order /\ u.revision = a.revision
       /\ DOMAIN u.children = DOMAIN a.children
       /\ Linking(u, Put(s, q, k))
       /\ \A x \in DOMAIN a.children :
            /\ u.children[x].root = a.children[x].root
            /\ u.children[x].instance = a.children[x].instance
            /\ x \notin {k, before, Previous(a, before)} => u.children[x] = a.children[x]
  <2>1. k \in DOMAIN a.children /\ Met(s) \subseteq DOMAIN a.children
    BY <1>1, <1>4, <1>5
  <2> QED
    BY <1>1, <1>7, <1>8, <1>12, <2>1, Placing
<1>14. Lists(u, Put(s, q, k))
  BY <1>1, <1>4, <1>5, <1>13, PutSound DEF Lists
<1>15. before # k
  BY <1>1, <1>9, NoneAssumption
<1> QED
  BY <1>1, <1>3, <1>4, <1>5, <1>10, <1>13, <1>14, <1>15 DEF RowsKept, child

\* The neighbours of the child at place p.
LEMMA NeighboursAt ==
    ASSUME NEW o, NEW s, Lists(o, s), NEW p \in 1 .. Len(s)
    PROVE  /\ s[p] \in DOMAIN o.children
           /\ Neighbours(o, s[p]) = {At(s, p - 1), At(s, p + 1)}
<1>1. DOMAIN s = 1 .. Len(s)
  BY LenProperties DEF Lists
<1> QED
  BY <1>1 DEF Lists, Linking, Met, Neighbours

\* The child k is at place p.
StandsAt(o, s, p, k) == Lists(o, s) /\ p \in 1 .. Len(s) /\ k = s[p]

\* KeyedOrderJournal::remove takes the child out.
LEMMA RemoveLists ==
    ASSUME NEW o \in Order, NEW s, NEW p, NEW k, StandsAt(o, s, p, k),
           NEW u, u = RemoveChild(o, k)
    PROVE  /\ u \in Order /\ u.revision = o.revision
           /\ Lists(u, Cut(s, p))
           /\ RowsKept(u, o, DOMAIN o.children \ {k})
           /\ \A x \in DOMAIN o.children \ (Neighbours(o, k) \union {k}) :
                    u.children[x] = o.children[x]
<1> USE DEF StandsAt
<1> DEFINE m == Unlink(o, k)
           c == [x \in DOMAIN m.children \ {k} |-> m.children[x]]
<1>1. /\ m \in Order /\ m.revision = o.revision
      /\ DOMAIN m.children = DOMAIN o.children
      /\ Linking(m, Cut(s, p))
      /\ \A x \in DOMAIN o.children :
           /\ m.children[x].root = o.children[x].root
           /\ m.children[x].instance = o.children[x].instance
           /\ x \notin Neighbours(o, k) => m.children[x] = o.children[x]
  <2> HIDE DEF m
  <2>1. m = Unlink(o, s[p])
    BY DEF m
  <2>2. /\ m \in Order /\ m.revision = o.revision
        /\ DOMAIN m.children = DOMAIN o.children
        /\ Linking(m, Cut(s, p))
        /\ \A x \in DOMAIN o.children :
             /\ m.children[x].root = o.children[x].root
             /\ m.children[x].instance = o.children[x].instance
             /\ x \notin {At(s, p - 1), At(s, p + 1)} => m.children[x] = o.children[x]
    BY <2>1, Unlinked
  <2> QED
    BY <2>2, NeighboursAt
<1>2. u = [m EXCEPT !.children = c]
  BY DEF RemoveChild
<1> HIDE DEF m
<1>3. DOMAIN m.children \in SUBSET Keys /\ m.children \in [DOMAIN m.children -> Child]
  BY <1>1 DEF Order
<1>4. /\ c \in [DOMAIN m.children \ {k} -> Child]
      /\ DOMAIN c = DOMAIN m.children \ {k}
      /\ \A x \in DOMAIN m.children \ {k} : c[x] = m.children[x]
  BY <1>3
<1> HIDE DEF c
<1>5. c \in UNION {[E -> Child] : E \in SUBSET Keys}
  <2>1. DOMAIN m.children \ {k} \in SUBSET Keys
    BY <1>3
  <2> QED
    BY <1>4, <2>1
<1>6. /\ u.head = m.head /\ u.tail = m.tail /\ u.revision = m.revision /\ u.children = c
      /\ u \in [head : Link, tail : Link, revision : Revision, children : {c}]
  BY <1>1, <1>2 DEF Order
<1>7. u \in Order
  BY <1>5, <1>6 DEF Order
<1>8. /\ Cut(s, p) \in Seq(Keys) /\ Once(Cut(s, p)) /\ Met(Cut(s, p)) = Met(s) \ {k}
      /\ DOMAIN Cut(s, p) = 1 .. Len(Cut(s, p))
      /\ DOMAIN o.children = Met(s)
  BY CutSound, LenProperties DEF Lists
<1>9. Linking(u, Cut(s, p))
  <2>1. \A i \in 1 .. Len(Cut(s, p)) : c[Cut(s, p)[i]] = m.children[Cut(s, p)[i]]
    <3>1. \A i \in 1 .. Len(Cut(s, p)) : Cut(s, p)[i] \in Met(Cut(s, p))
      BY <1>8 DEF Met
    <3> QED
      BY <1>1, <1>4, <1>8, <3>1
  <2> QED
    BY <1>1, <1>6, <2>1 DEF Linking
<1> QED
  BY <1>1, <1>4, <1>6, <1>7, <1>8, <1>9 DEF Lists, RowsKept

\* reorder: a child that does not stay is taken out and placed again.
LEMMA MoveLists ==
    ASSUME NEW o \in Order, NEW s, NEW p, NEW k, StandsAt(o, s, p, k),
           NEW before, ~ Stays(o, k, before), before = None \/ before \in DOMAIN o.children,
           NEW u, u = MoveChild(o, k, before)
    PROVE  /\ u \in Order /\ u.revision = o.revision
           /\ \E q \in 1 .. (Len(Cut(s, p)) + 1) :
                    At(Cut(s, p), q) = before /\ Lists(u, Put(Cut(s, p), q, k))
           /\ RowsKept(u, o, DOMAIN o.children)
           /\ \A x \in DOMAIN o.children \ (Neighbours(o, k) \union
                                {Previous(Unlink(o, k), before), before, k}) :
                    u.children[x] = o.children[x]
<1> USE DEF StandsAt
<1> DEFINE m == Unlink(o, k)
           t == Cut(s, p)
<1>1. /\ m \in Order /\ m.revision = o.revision
      /\ DOMAIN m.children = DOMAIN o.children
      /\ Linking(m, t)
      /\ \A x \in DOMAIN o.children :
           /\ m.children[x].root = o.children[x].root
           /\ m.children[x].instance = o.children[x].instance
           /\ x \notin Neighbours(o, k) => m.children[x] = o.children[x]
  <2> HIDE DEF m
  <2>1. m = Unlink(o, s[p])
    BY DEF m
  <2>2. /\ m \in Order /\ m.revision = o.revision
        /\ DOMAIN m.children = DOMAIN o.children
        /\ Linking(m, Cut(s, p))
        /\ \A x \in DOMAIN o.children :
             /\ m.children[x].root = o.children[x].root
             /\ m.children[x].instance = o.children[x].instance
             /\ x \notin {At(s, p - 1), At(s, p + 1)} => m.children[x] = o.children[x]
    BY <2>1, Unlinked
  <2> QED
    BY <2>2, NeighboursAt
<1>2. /\ t \in Seq(Keys) /\ Once(t) /\ Met(t) = Met(s) \ {k}
      /\ DOMAIN o.children = Met(s) /\ k \in DOMAIN o.children
  BY CutSound, NeighboursAt DEF Lists
<1>3. before # k
  BY DEF Stays
<1>4. before \in Link /\ (before = None \/ before \in Met(t)) /\ Met(s) \subseteq Keys
  BY <1>2, <1>3, ElementOfSeq, LenProperties DEF Link, Met, Lists
<1>5. PICK q \in 1 .. (Len(t) + 1) : At(t, q) = before
  BY <1>2, <1>4, PlaceBefore
<1>6. u = Join(Join(m, Previous(m, before), k), k, before)
  BY DEF MoveChild
<1> HIDE DEF m, t
<1>7. /\ u \in Order /\ u.revision = m.revision
      /\ DOMAIN u.children = DOMAIN m.children
      /\ Linking(u, Put(t, q, k))
      /\ \A x \in DOMAIN m.children :
           /\ u.children[x].root = m.children[x].root
           /\ u.children[x].instance = m.children[x].instance
           /\ x \notin {k, before, Previous(m, before)} => u.children[x] = m.children[x]
  <2>1. k \in DOMAIN m.children /\ k \notin Met(t) /\ Met(t) \subseteq DOMAIN m.children
    BY <1>1, <1>2
  <2> QED
    BY <1>1, <1>2, <1>5, <1>6, <2>1, Placing
<1>8. Lists(u, Put(t, q, k))
  <2>1. k \in Keys \ Met(t)
    BY <1>2, <1>4
  <2>2. /\ Put(t, q, k) \in Seq(Keys) /\ Once(Put(t, q, k))
        /\ Met(Put(t, q, k)) = Met(t) \union {k}
    BY <1>2, <2>1, PutSound
  <2> QED
    BY <1>1, <1>2, <1>7, <2>2 DEF Lists
<1> QED
  BY <1>1, <1>5, <1>7, <1>8 DEF RowsKept, m, t

\* replace_keyed: the links do not change.
LEMMA ReplaceLists ==
    ASSUME NEW o \in Order, NEW s, Lists(o, s), NEW k \in DOMAIN o.children,
           NEW root \in 1 .. MaxNode, NEW u, u = ReplaceChild(o, k, root)
    PROVE  /\ u \in Order /\ u.revision = o.revision
           /\ Lists(u, s)
           /\ u.children[k].root = root /\ u.children[k].instance = o.children[k].instance
           /\ \A x \in DOMAIN o.children \ {k} : u.children[x] = o.children[x]
<1> DEFINE child == [o.children[k] EXCEPT !.root = root]
           c == [o.children EXCEPT ![k] = child]
           D == DOMAIN o.children
<1>1. D \in SUBSET Keys /\ o.children \in [D -> Child]
  BY DEF Order
<1>2. /\ child \in Child /\ child.root = root /\ child.instance = o.children[k].instance
      /\ child.previous = o.children[k].previous /\ child.next = o.children[k].next
  BY <1>1 DEF Child
<1>3. u = [o EXCEPT !.children = c]
  BY DEF ReplaceChild, Order
<1> HIDE DEF child
<1>4. c \in [D -> Child] /\ DOMAIN c = D /\ c[k] = child /\ \A x \in D \ {k} : c[x] = o.children[x]
  BY <1>1, <1>2
<1> HIDE DEF c
<1>5. c \in UNION {[E -> Child] : E \in SUBSET Keys}
  BY <1>1, <1>4
<1>6. /\ u.head = o.head /\ u.tail = o.tail /\ u.revision = o.revision /\ u.children = c
      /\ u \in [head : Link, tail : Link, revision : Revision, children : {c}]
  BY <1>3 DEF Order
<1>7. u \in Order
  BY <1>5, <1>6 DEF Order
<1>8. \A x \in D : u.children[x].previous = o.children[x].previous /\ u.children[x].next = o.children[x].next
  BY <1>2, <1>4, <1>6
<1>9. Lists(u, s)
  <2>1. \A i \in 1 .. Len(s) : s[i] \in D
    BY LenProperties DEF Lists, Met
  <2> QED
    BY <1>4, <1>6, <1>8, <2>1 DEF Lists, Linking
<1> QED
  BY <1>2, <1>4, <1>6, <1>7, <1>9

-----------------------------------------------------------------------------
(* The journal.                                                            *)

\* touch, as a function of the journal.
Touched(j, o, ks) ==
    [j EXCEPT !.originals =
        [k \in DOMAIN @ \union (ks \ {None}) |->
            IF k \in DOMAIN @ THEN @[k]
            ELSE IF Has(o, k) THEN o.children[k] ELSE None]]

\* What rollback restores, key by key.
LEMMA RestoredFields ==
    ASSUME NEW o \in Order, NEW j \in Journal, NEW r, r = Restored(o, j)
    PROVE  /\ r \in Order /\ r.head = j.head /\ r.tail = j.tail /\ r.revision = j.revision
           /\ \A k : k \in DOMAIN r.children <=>
                IF k \in DOMAIN j.originals THEN j.originals[k] # None
                ELSE k \in DOMAIN o.children
           /\ \A k \in DOMAIN r.children :
                r.children[k] = IF k \in DOMAIN j.originals THEN j.originals[k]
                                ELSE o.children[k]
<1> DEFINE J == DOMAIN j.originals
           D == (DOMAIN o.children \union J) \ {k \in J : j.originals[k] = None}
           c == [k \in D |-> IF k \in J THEN j.originals[k] ELSE o.children[k]]
<1>1. r = [head |-> j.head, tail |-> j.tail, revision |-> j.revision, children |-> c]
  BY DEF Restored
<1>2. /\ DOMAIN o.children \in SUBSET Keys /\ o.children \in [DOMAIN o.children -> Child]
      /\ J \in SUBSET Keys /\ j.originals \in [J -> Child \union {None}]
      /\ j.head \in Link /\ j.tail \in Link /\ j.revision \in Revision
  BY DEF Order, Journal
<1>3. D \in SUBSET Keys /\ c \in [D -> Child] /\ DOMAIN c = D
  BY <1>2
<1>4. c \in UNION {[E -> Child] : E \in SUBSET Keys}
  BY <1>3
<1>5. r \in Order
  <2> HIDE DEF c
  <2> QED
    BY <1>1, <1>2, <1>4 DEF Order
<1> QED
  BY <1>1, <1>3, <1>5

\* An operation that journals each key before it changes it leaves alone what a
\* rollback restores.
LEMMA TouchRestores ==
    ASSUME NEW o \in Order, NEW u \in Order, NEW j \in Journal, NEW ks \in SUBSET Link,
           \A x : x \notin ks => (x \in DOMAIN u.children <=> x \in DOMAIN o.children),
           \A x \in DOMAIN o.children \ ks : u.children[x] = o.children[x],
           NEW t, t = Touched(j, o, ks)
    PROVE  t \in Journal /\ Restored(u, t) = Restored(o, j)
<1> DEFINE J == DOMAIN j.originals
           T == J \union (ks \ {None})
           f == [k \in T |-> IF k \in J THEN j.originals[k]
                             ELSE IF Has(o, k) THEN o.children[k] ELSE None]
<1>1. /\ DOMAIN o.children \in SUBSET Keys /\ o.children \in [DOMAIN o.children -> Child]
      /\ DOMAIN u.children \in SUBSET Keys
      /\ J \in SUBSET Keys /\ j.originals \in [J -> Child \union {None}]
      /\ j.head \in Link /\ j.tail \in Link /\ j.revision \in Revision
  BY DEF Order, Journal
<1>2. T \in SUBSET Keys
  BY <1>1 DEF Link
<1>3. f \in [T -> Child \union {None}] /\ DOMAIN f = T
  BY <1>1 DEF Has
<1>4. f \in UNION {[E -> Child \union {None}] : E \in SUBSET Keys}
  <2> HIDE DEF f, T
  <2> QED
    BY <1>2, <1>3
<1>5. /\ \A k \in J : f[k] = j.originals[k]
      /\ \A k \in T \ J : f[k] = IF k \in DOMAIN o.children THEN o.children[k] ELSE None
  BY DEF Has
<1>6. t = [j EXCEPT !.originals = f]
  BY DEF Touched
<1> HIDE DEF f
<1>7. /\ t.head = j.head /\ t.tail = j.tail /\ t.revision = j.revision /\ t.originals = f
      /\ t \in [head : Link, tail : Link, revision : Revision, originals : {f}]
  BY <1>6 DEF Journal
<1>8. t \in Journal
  BY <1>4, <1>7 DEF Journal
<1> DEFINE r == Restored(u, t)
           b == Restored(o, j)
<1>9. /\ r \in Order /\ r.head = t.head /\ r.tail = t.tail /\ r.revision = t.revision
      /\ \A k : k \in DOMAIN r.children <=>
           IF k \in DOMAIN t.originals THEN t.originals[k] # None ELSE k \in DOMAIN u.children
      /\ \A k \in DOMAIN r.children :
           r.children[k] = IF k \in DOMAIN t.originals THEN t.originals[k] ELSE u.children[k]
  BY <1>8, RestoredFields
<1>10. /\ b \in Order /\ b.head = j.head /\ b.tail = j.tail /\ b.revision = j.revision
       /\ \A k : k \in DOMAIN b.children <=>
            IF k \in J THEN j.originals[k] # None ELSE k \in DOMAIN o.children
       /\ \A k \in DOMAIN b.children :
            b.children[k] = IF k \in J THEN j.originals[k] ELSE o.children[k]
  BY RestoredFields
<1> HIDE DEF r, b
<1>11. \A k \in DOMAIN o.children : o.children[k] # None
  BY <1>1, NoneAssumption
<1>12. ASSUME NEW k
       PROVE  k \in DOMAIN r.children <=> k \in DOMAIN b.children
  <2>1. CASE k \in J
    BY <1>3, <1>5, <1>7, <1>9, <1>10, <2>1
  <2>2. CASE k \in T \ J
    BY <1>3, <1>5, <1>7, <1>9, <1>10, <1>11, <2>2
  <2>3. CASE k \notin T
    <3>1. k \notin ks \/ k = None
      BY <2>3
    <3>2. k \in DOMAIN u.children <=> k \in DOMAIN o.children
      BY <1>1, <3>1, NoneAssumption
    <3> QED
      BY <1>3, <1>7, <1>9, <1>10, <2>3, <3>2
  <2> QED
    BY <2>1, <2>2, <2>3
<1>13. DOMAIN r.children = DOMAIN b.children
  BY <1>12
<1>14. ASSUME NEW k \in DOMAIN b.children
       PROVE  r.children[k] = b.children[k]
  <2>1. CASE k \in J
    BY <1>3, <1>5, <1>7, <1>9, <1>10, <1>13, <2>1
  <2>2. CASE k \in T \ J
    BY <1>3, <1>5, <1>7, <1>9, <1>10, <1>13, <2>2
  <2>3. CASE k \notin T
    <3>1. k \in DOMAIN o.children /\ k # None
      BY <1>1, <1>10, <2>3, NoneAssumption
    <3>2. u.children[k] = o.children[k]
      BY <2>3, <3>1
    <3> QED
      BY <1>3, <1>7, <1>9, <1>10, <1>13, <2>3, <3>2
  <2> QED
    BY <2>1, <2>2, <2>3
<1>15. r.children = b.children
  <2>1. /\ r.children = [k \in DOMAIN r.children |-> r.children[k]]
        /\ b.children = [k \in DOMAIN b.children |-> b.children[k]]
    BY <1>9, <1>10 DEF Order
  <2> QED
    BY <1>13, <1>14, <2>1
<1>16. r = b
  BY <1>7, <1>9, <1>10, <1>15 DEF Order
<1> QED
  BY <1>8, <1>16 DEF r, b

\* The journal that opens a transaction restores the order as it is.
LEMMA OpeningRestores ==
    ASSUME NEW o \in Order, NEW j,
           j = [head |-> o.head, tail |-> o.tail, revision |-> o.revision, originals |-> <<>>]
    PROVE  j \in Journal /\ Restored(o, j) = o
<1>1. j \in Journal
  <2>1. <<>> \in [{} -> Child \union {None}]
    OBVIOUS
  <2>2. <<>> \in UNION {[E -> Child \union {None}] : E \in SUBSET Keys}
    BY <2>1
  <2> QED
    BY <2>2 DEF Order, Journal
<1>2. DOMAIN j.originals = {}
  OBVIOUS
<1> DEFINE r == Restored(o, j)
<1>3. /\ r \in Order /\ r.head = j.head /\ r.tail = j.tail /\ r.revision = j.revision
      /\ \A k : k \in DOMAIN r.children <=> k \in DOMAIN o.children
      /\ \A k \in DOMAIN r.children : r.children[k] = o.children[k]
  BY <1>1, <1>2, RestoredFields
<1> HIDE DEF r
<1>4. r.children = o.children
  <2>1. /\ r.children = [k \in DOMAIN r.children |-> r.children[k]]
        /\ o.children = [k \in DOMAIN o.children |-> o.children[k]]
    BY <1>3 DEF Order
  <2>2. DOMAIN r.children = DOMAIN o.children
    BY <1>3
  <2> QED
    BY <1>3, <2>1, <2>2
<1>5. r = o
  BY <1>3, <1>4 DEF Order
<1> QED
  BY <1>1, <1>5 DEF r

-----------------------------------------------------------------------------
(* The iterators.                                                          *)

\* A set of numbers has a least one.
LEMMA LeastNumber ==
    ASSUME NEW T \in SUBSET Nat, T # {}
    PROVE  \E m \in T : \A k \in T : m <= k
<1> DEFINE R == {ss \in Nat \X Nat : ss[1] < ss[2]}
<1>1. IsWellFoundedOn(R, Nat)
  BY NatLessThanWellFounded DEF OpToRel
<1>2. \E x \in T : \A y \in T : ~ (<<y, x>> \in R)
  <2> HIDE DEF R
  <2> QED
    BY <1>1, WFMin
<1>3. \A x, y \in Nat : ~ (<<y, x>> \in R) => x <= y
  OBVIOUS
<1> QED
  BY <1>2, <1>3

\* Two walks that start alike and take the same steps are one.
Alike(f, g, n) == /\ n >= 1 => f[1] = g[1]
                  /\ \A i \in 2 .. n : f[i - 1] = g[i - 1] => f[i] = g[i]

LEMMA SameWalk ==
    ASSUME NEW n \in Nat, NEW f, NEW g, Alike(f, g, n)
    PROVE  \A i \in 1 .. n : f[i] = g[i]
<1> DEFINE T == {i \in 1 .. n : f[i] # g[i]}
<1>1. SUFFICES ASSUME T # {} PROVE FALSE
  OBVIOUS
<1>2. T \in SUBSET Nat
  OBVIOUS
<1>3. PICK m \in T : \A k \in T : m <= k
  <2> HIDE DEF T
  <2> QED
    BY <1>1, <1>2, LeastNumber
<1>4. m \in 1 .. n /\ f[m] # g[m]
  BY <1>3
<1>5. m \in 2 .. n /\ m - 1 \in 1 .. n /\ ~ (m <= m - 1)
  BY <1>4 DEF Alike
<1>6. f[m - 1] = g[m - 1]
  BY <1>3, <1>5
<1> QED
  BY <1>4, <1>5, <1>6 DEF Alike

LEMMA ListedCount ==
    ASSUME NEW o, NEW s, Lists(o, s)
    PROVE  Cardinality(DOMAIN o.children) = Len(s)
<1>1. /\ Len(s) \in Nat /\ DOMAIN s = 1 .. Len(s) /\ s \in [1 .. Len(s) -> Keys]
      /\ Once(s) /\ DOMAIN o.children = Met(s)
  BY LenProperties DEF Lists
<1>2. s \in Bijection(1 .. Len(s), Met(s))
  <2>1. s \in [1 .. Len(s) -> Met(s)]
    BY <1>1 DEF Met
  <2> QED
    BY <1>1, <2>1 DEF Bijection, Injection, Surjection, IsInjective, Once, Met
<1>3. ExistsBijection(1 .. Len(s), Met(s))
  BY <1>2 DEF ExistsBijection
<1> QED
  BY <1>1, <1>3, FS_CountingElements

\* From the head along `next` come the keys of the sequence the links represent.
LEMMA IterLists ==
    ASSUME NEW o, NEW s, Lists(o, s)
    PROVE  Iter(o) = s
<1> DEFINE n == Len(s)
           step(f, i) == IF i = 1 THEN o.head ELSE Following(o, f[i - 1])
           walk(f) == f = [i \in 1 .. n |-> step(f, i)]
           at == CHOOSE f : walk(f)
<1>1. /\ n \in Nat /\ DOMAIN s = 1 .. n /\ s = [i \in 1 .. n |-> s[i]]
      /\ DOMAIN o.children = Met(s) /\ Linking(o, s)
  BY LenProperties DEF Lists
<1>2. Iter(o) = at
  BY ListedCount DEF Iter
<1>3. ASSUME NEW i \in 1 .. n PROVE s[i] = step(s, i)
  <2>1. CASE i = 1
    BY <1>1, <2>1 DEF Linking, At
  <2>2. CASE i # 1
    <3>1. i - 1 \in 1 .. n /\ (i - 1) + 1 = i
      BY <1>1, <2>2
    <3>2. s[i - 1] \in DOMAIN o.children
      BY <1>1, <3>1 DEF Met
    <3> QED
      BY <1>1, <2>2, <3>1, <3>2 DEF Linking, At, Following, Has
  <2> QED
    BY <2>1, <2>2
<1>4. walk(s)
  BY <1>1, <1>3
<1>5. walk(at)
  BY <1>4
<1> HIDE DEF at
<1>6. at = [i \in 1 .. n |-> at[i]] /\ \A i \in 1 .. n : at[i] = step(at, i)
  BY <1>5
<1>7. \A i \in 1 .. n : at[i] = s[i]
  <2>1. n \in Nat
    BY <1>1
  <2> HIDE DEF n
  <2>2. n >= 1 => at[1] = s[1]
    <3>1. n >= 1 => 1 \in 1 .. n
      BY <2>1
    <3> QED
      BY <1>3, <1>6, <3>1
  <2>3. ASSUME NEW i \in 2 .. n, at[i - 1] = s[i - 1] PROVE at[i] = s[i]
    <3>1. i \in 1 .. n /\ i # 1
      BY <2>1
    <3>2. at[i] = Following(o, at[i - 1]) /\ s[i] = Following(o, s[i - 1])
      BY <1>3, <1>6, <3>1
    <3> QED
      BY <2>3, <3>2
  <2>4. Alike(at, s, n)
    BY <2>2, <2>3 DEF Alike
  <2> QED
    BY <2>1, <2>4, SameWalk
<1> QED
  BY <1>1, <1>2, <1>6, <1>7

\* From the tail along `previous` come the same keys, the last one first.
LEMMA IterBackLists ==
    ASSUME NEW o, NEW s, Lists(o, s)
    PROVE  \A i \in 1 .. Len(s) : IterBack(o)[i] = s[Len(s) + 1 - i]
<1> DEFINE n == Len(s)
           r == [i \in 1 .. n |-> s[n + 1 - i]]
           step(f, i) == IF i = 1 THEN o.tail ELSE Preceding(o, f[i - 1])
           walk(f) == f = [i \in 1 .. n |-> step(f, i)]
           at == CHOOSE f : walk(f)
<1>1. n \in Nat /\ DOMAIN s = 1 .. n /\ DOMAIN o.children = Met(s) /\ Linking(o, s)
  BY LenProperties DEF Lists
<1>2. IterBack(o) = at
  BY ListedCount DEF IterBack
<1>3. ASSUME NEW i \in 1 .. n PROVE r[i] = step(r, i)
  <2>1. CASE i = 1
    <3>1. n + 1 - i = n /\ n \in 1 .. n
      BY <1>1, <2>1
    <3> QED
      BY <1>1, <2>1, <3>1 DEF Linking, At
  <2>2. CASE i # 1
    <3>1. /\ i - 1 \in 1 .. n /\ n + 1 - (i - 1) \in 1 .. n
          /\ (n + 1 - (i - 1)) - 1 = n + 1 - i /\ n + 1 - i \in 1 .. n
      BY <1>1, <2>2
    <3>2. r[i - 1] = s[n + 1 - (i - 1)] /\ r[i] = s[n + 1 - i]
      BY <3>1
    <3>3. r[i - 1] \in DOMAIN o.children
      BY <1>1, <3>1, <3>2 DEF Met
    <3>4. o.children[r[i - 1]].previous = s[n + 1 - i]
      BY <1>1, <3>1, <3>2 DEF Linking, At
    <3> QED
      BY <2>2, <3>2, <3>3, <3>4 DEF Preceding, Has
  <2> QED
    BY <2>1, <2>2
<1>4. walk(r)
  <2>1. r = [i \in 1 .. n |-> r[i]]
    OBVIOUS
  <2> HIDE DEF r
  <2> QED
    BY <1>3, <2>1
<1>5. walk(at)
  BY <1>4
<1> HIDE DEF at
<1>6. \A i \in 1 .. n : at[i] = step(at, i)
  BY <1>5
<1>7. \A i \in 1 .. n : at[i] = r[i]
  <2>1. n \in Nat
    BY <1>1
  <2> HIDE DEF r, n
  <2>2. Alike(at, r, n)
    BY <1>3, <1>6, <2>1 DEF Alike
  <2> QED
    BY <2>1, <2>2, SameWalk
<1> QED
  BY <1>2, <1>7

-----------------------------------------------------------------------------
(* The invariant.                                                          *)

Fragment == [key : Keys, root : 1 .. MaxNode, instance : 1 .. MaxNode]

Typed ==
    /\ keyed \in BOOLEAN /\ order \in Order /\ journal \in Journal
    /\ proposed \in (1 .. MaxRevision) \union {None}
    /\ fragments \in SUBSET Fragment
    /\ mounted \in SUBSET (1 .. MaxNode)
    /\ instances \in UNION {[D -> 1 .. MaxNode] : D \in SUBSET (1 .. MaxNode)}
    /\ dialog \in (1 .. MaxNode) \union {None}
    /\ maxNode \in 0 .. MaxNode /\ maxInstance \in 0 .. MaxNode

\* The order as it is, and the one a rollback restores, are linear; a
\* transaction that is open proposes a later revision.
Linear ==
    /\ \E s : Lists(order, s)
    /\ \E s : Lists(Base, s)
    /\ Open => proposed > journal.revision

RootsOf(o, D) == {o.children[k].root : k \in D}
InstancesOf(o) == {o.children[k].instance : k \in DOMAIN o.children}

\* What is mounted is what the order b lists, each root once, and none newer
\* than the graph has seen.
Published(b) ==
    /\ mounted = RootsOf(b, DOMAIN b.children)
    /\ DOMAIN instances = InstancesOf(b)
    /\ \A k \in DOMAIN b.children :
        /\ instances[b.children[k].instance] = b.children[k].root
        /\ b.children[k].root <= maxNode /\ b.children[k].instance <= maxInstance
    /\ \A k, l \in DOMAIN b.children : b.children[k].root = b.children[l].root => k = l
    /\ RootsOf(b, DOMAIN b.children \intersect Modal) = {dialog} \ {None}

\* The row k of the working order is the row it was.
RowStays(b, o, k) ==
    /\ k \in DOMAIN b.children
    /\ o.children[k].root = b.children[k].root
    /\ o.children[k].instance = b.children[k].instance

FragmentOf(o, k) ==
    [key |-> k, root |-> o.children[k].root, instance |-> o.children[k].instance]

\* A fragment has a new root, and a new instance or the one its key had; and a
\* row of the working order is the one it was or the one a fragment brought.
Staged(b) ==
    /\ \A f \in fragments :
        /\ f.root > maxNode
        /\ \/ f.instance > maxInstance
           \/ f.key \in DOMAIN b.children /\ b.children[f.key].instance = f.instance
    /\ \A f, g \in fragments : f.root = g.root \/ f.instance = g.instance => f = g
    /\ \A k \in DOMAIN order.children :
        RowStays(b, order, k) \/ FragmentOf(order, k) \in fragments
    /\ ~Open => fragments = {}

OrderInv == Typed /\ Linear /\ Published(Base) /\ Staged(Base)

\* from_seed: the order lists its seed, row i with node i and instance i.
LEMMA SeedLists ==
    ASSUME NEW s \in Seq(Keys), Once(s), Len(s) <= MaxNode, NEW rev \in Revision,
           NEW o, o = FromSeed(s, rev)
    PROVE  /\ o \in Order /\ Lists(o, s)
           /\ \A i \in 1 .. Len(s) : o.children[s[i]].root = i /\ o.children[s[i]].instance = i
<1> DEFINE n == Len(s)
           place(k) == CHOOSE i \in 1 .. n : s[i] = k
           row(k) == [root |-> place(k), instance |-> place(k),
                      previous |-> At(s, place(k) - 1), next |-> At(s, place(k) + 1)]
           c == [k \in {s[i] : i \in 1 .. n} |-> row(k)]
<1>1. /\ n \in Nat /\ DOMAIN s = 1 .. n /\ \A i \in 1 .. n : s[i] \in Keys
      /\ MaxNode \in Nat
  BY ElementOfSeq, LenProperties, BoundAssumption
<1>2. /\ Met(s) = {s[i] : i \in 1 .. n}
      /\ Met(s) \in SUBSET Keys
  BY <1>1 DEF Met
<1>3. \A k \in Met(s) : place(k) \in 1 .. n /\ s[place(k)] = k
  BY <1>2
<1>4. \A i \in 1 .. n : s[i] \in Met(s) /\ place(s[i]) = i
  BY <1>1, <1>2, <1>3 DEF Once
<1>5. o = [head |-> At(s, 1), tail |-> At(s, n), revision |-> rev, children |-> c]
  BY DEF FromSeed, At
<1>6. /\ \A i \in 1 .. n : c[s[i]] = row(s[i])
      /\ DOMAIN c = Met(s)
  BY <1>2
<1> HIDE DEF place
<1>7. ASSUME NEW k \in Met(s) PROVE row(k) \in Child
  <2>1. place(k) \in 1 .. MaxNode
    BY <1>1, <1>3, <1>7
  <2>2. At(s, place(k) - 1) \in Link /\ At(s, place(k) + 1) \in Link
    BY AtLink
  <2> QED
    BY <2>1, <2>2 DEF Child
<1>8. c \in [Met(s) -> Child]
  BY <1>2, <1>7
<1>9. c \in UNION {[E -> Child] : E \in SUBSET Keys}
  <2> HIDE DEF c
  <2> QED
    BY <1>2, <1>8
<1>10. \A i \in 1 .. n : c[s[i]] = [root |-> i, instance |-> i, previous |-> At(s, i - 1),
                                    next |-> At(s, i + 1)]
  BY <1>4, <1>6
<1> HIDE DEF c, n
<1>11. o \in Order
  BY <1>5, <1>9, AtLink DEF Order
<1>12. /\ o.head = At(s, 1) /\ o.tail = At(s, n) /\ o.children = c
       /\ \A i \in 1 .. n : /\ o.children[s[i]].previous = At(s, i - 1)
                            /\ o.children[s[i]].next = At(s, i + 1)
                            /\ o.children[s[i]].root = i /\ o.children[s[i]].instance = i
  <2>1. o.head = At(s, 1) /\ o.tail = At(s, n) /\ o.children = c
    BY <1>5
  <2>2. ASSUME NEW i \in 1 .. n
        PROVE  /\ o.children[s[i]].previous = At(s, i - 1)
               /\ o.children[s[i]].next = At(s, i + 1)
               /\ o.children[s[i]].root = i /\ o.children[s[i]].instance = i
    <3>1. o.children[s[i]] = [root |-> i, instance |-> i, previous |-> At(s, i - 1),
                              next |-> At(s, i + 1)]
      BY <1>10, <2>1
    <3> QED
      BY <3>1
  <2> QED
    BY <2>1, <2>2
<1>13. Lists(o, s)
  BY <1>6, <1>12 DEF Lists, Linking, n
<1> QED
  BY <1>11, <1>12, <1>13 DEF n

LEMMA NoJournalTyped == NoJournal \in Journal
<1>1. <<>> \in [{} -> Child \union {None}]
  OBVIOUS
<1>2. <<>> \in UNION {[E -> Child \union {None}] : E \in SUBSET Keys}
  BY <1>1
<1>3. None \in Link /\ 0 \in Revision
  BY BoundAssumption DEF Link, Revision
<1> QED
  BY <1>2, <1>3 DEF NoJournal, Journal

\* mount: the nodes and the instances are those of the seed.
LEMMA InitInv == Init => OrderInv
<1> SUFFICES ASSUME Init PROVE OrderInv
  OBVIOUS
<1>1. PICK s \in Seeds, k \in BOOLEAN :
        /\ keyed = k /\ order = FromSeed(s, IF k THEN 1 ELSE 0)
        /\ mounted = 1 .. Len(s) /\ maxNode = Len(s) /\ maxInstance = Len(s)
        /\ instances = [i \in 1 .. Len(s) |-> i]
        /\ dialog = IF \E i \in DOMAIN s : s[i] \in Modal
                    THEN CHOOSE i \in DOMAIN s : s[i] \in Modal ELSE None
  BY DEF Init
<1>2. journal = NoJournal /\ proposed = None /\ fragments = {}
  BY DEF Init
<1>3. PICK n \in 0 .. 2 : s \in [1 .. n -> Keys]
  BY DEF Seeds
<1>4. s \in Seq(Keys) /\ Len(s) = n /\ DOMAIN s = 1 .. n /\ n <= MaxNode /\ n \in Nat
  <2>1. n \in Nat /\ n <= MaxNode
    BY BoundAssumption
  <2> QED
    BY <1>3, <2>1, SeqDef, LenProperties
<1>5. /\ Once(s)
      /\ \A i, j \in DOMAIN s : s[i] \in Modal /\ s[j] \in Modal => i = j
  BY DEF Seeds, Once
<1>6. /\ order \in Order /\ Lists(order, s)
      /\ \A i \in 1 .. n : order.children[s[i]].root = i /\ order.children[s[i]].instance = i
  <2>1. (IF k THEN 1 ELSE 0) \in Revision
    BY BoundAssumption DEF Revision
  <2> QED
    BY <1>1, <1>4, <1>5, <2>1, SeedLists
<1>7. Base = order /\ ~ Open
  BY <1>2 DEF Base, Open
<1>8. dialog \in (1 .. n) \union {None}
  BY <1>1, <1>4
<1>9. Typed
  <2>2. 1 .. n \in SUBSET (1 .. MaxNode) /\ n \in 0 .. MaxNode
    BY <1>4, BoundAssumption
  <2>3. instances \in [1 .. n -> 1 .. MaxNode]
    BY <1>1, <1>4, <2>2
  <2>4. instances \in UNION {[D -> 1 .. MaxNode] : D \in SUBSET (1 .. MaxNode)}
    BY <2>2, <2>3
  <2> QED
    BY <1>1, <1>2, <1>4, <1>6, <1>8, <2>2, <2>4, NoJournalTyped DEF Typed
<1>10. Linear
  BY <1>6, <1>7 DEF Linear
<1>11. Published(Base)
  <2>1. DOMAIN order.children = {s[i] : i \in 1 .. n}
    BY <1>4, <1>6 DEF Lists, Met
  <2>2. mounted = RootsOf(order, DOMAIN order.children)
    BY <1>1, <1>4, <1>6, <2>1 DEF RootsOf
  <2>3. DOMAIN instances = InstancesOf(order)
    BY <1>1, <1>4, <1>6, <2>1 DEF InstancesOf
  <2>4. \A x \in DOMAIN order.children :
          /\ instances[order.children[x].instance] = order.children[x].root
          /\ order.children[x].root <= maxNode /\ order.children[x].instance <= maxInstance
    BY <1>1, <1>4, <1>6, <2>1
  <2>5. \A x, y \in DOMAIN order.children : order.children[x].root = order.children[y].root => x = y
    BY <1>6, <2>1
  <2>6. RootsOf(order, DOMAIN order.children \intersect Modal) = {dialog} \ {None}
    <3>1. RootsOf(order, DOMAIN order.children \intersect Modal) = {i \in 1 .. n : s[i] \in Modal}
      BY <1>6, <2>1 DEF RootsOf
    <3>2. CASE \E i \in 1 .. n : s[i] \in Modal
      <4>1. dialog \in 1 .. n /\ s[dialog] \in Modal
        BY <1>1, <1>4, <3>2
      <4>2. dialog # None
        BY <4>1, NoneAssumption
      <4> QED
        BY <1>4, <1>5, <3>1, <4>1, <4>2
    <3>3. CASE ~ \E i \in 1 .. n : s[i] \in Modal
      BY <1>1, <1>4, <3>1, <3>3
    <3> QED
      BY <3>2, <3>3
  <2> QED
    BY <1>7, <2>2, <2>3, <2>4, <2>5, <2>6 DEF Published
<1>12. Staged(Base)
  BY <1>2, <1>7 DEF Staged, RowStays
<1> QED
  BY <1>9, <1>10, <1>11, <1>12 DEF OrderInv

-----------------------------------------------------------------------------
(* The invariant is kept: opening and refusing a transaction.              *)

LEMMA BaseIsOrder == Typed => Base \in Order
  BY RestoredFields DEF Typed, Base

LEMMA BeginKeeps ==
    ASSUME OrderInv, NEW base \in 0 .. MaxRevision, NEW new \in 0 .. MaxRevision,
           Begin(base, new)
    PROVE  OrderInv' /\ Open' /\ Base' = order
<1>1. /\ ~ Open /\ base = order.revision /\ new > base /\ proposed' = new
      /\ journal' = [head |-> order.head, tail |-> order.tail,
                     revision |-> order.revision, originals |-> <<>>]
      /\ fragments' = {} /\ order' = order /\ keyed' = keyed /\ mounted' = mounted
      /\ instances' = instances /\ dialog' = dialog /\ maxNode' = maxNode
      /\ maxInstance' = maxInstance
  BY DEF Begin, graphVars
<1>2. Typed /\ Linear /\ Published(Base) /\ Staged(Base) /\ Base = order
  BY <1>1 DEF OrderInv, Base
<1>3. journal' \in Journal /\ Restored(order, journal') = order /\ journal'.revision = base
  <2>1. order \in Order
    BY <1>2 DEF Typed
  <2>2. journal'.revision = base
    BY <1>1
  <2> QED
    BY <1>1, <2>1, <2>2, OpeningRestores
<1>4. new \in 1 .. MaxRevision
  BY <1>1, BoundAssumption
<1>5. Open'
  BY <1>1, <1>4, NoneAssumption DEF Open
<1>6. Base' = order
  BY <1>1, <1>3, <1>5 DEF Base
<1>7. Typed'
  BY <1>1, <1>2, <1>3, <1>4 DEF Typed
<1>8. Linear'
  BY <1>1, <1>2, <1>3, <1>6 DEF Linear
<1>9. Published(Base)'
  BY <1>1, <1>2, <1>6 DEF Published
<1>10. Staged(Base)'
  BY <1>1, <1>2, <1>5, <1>6 DEF Staged, RowStays
<1> QED
  BY <1>5, <1>6, <1>7, <1>8, <1>9, <1>10 DEF OrderInv

\* A refused operation leaves the order the transaction began with.
LEMMA RejectKeeps ==
    ASSUME OrderInv, Open, Reject
    PROVE  OrderInv' /\ ~ Open' /\ order' = Base /\ Base' = Base
<1>1. /\ order' = Restored(order, journal) /\ journal' = NoJournal /\ proposed' = None
      /\ fragments' = {} /\ keyed' = keyed /\ mounted' = mounted
      /\ instances' = instances /\ dialog' = dialog /\ maxNode' = maxNode
      /\ maxInstance' = maxInstance
  BY DEF Reject, graphVars
<1>2. Typed /\ Linear /\ Published(Base) /\ Staged(Base) /\ Base = Restored(order, journal)
  BY DEF OrderInv, Base
<1>3. ~ Open' /\ order' = Base /\ Base' = Base
  BY <1>1, <1>2 DEF Open, Base
<1>4. NoJournal \in Journal
  BY NoJournalTyped
<1>5. Typed'
  BY <1>1, <1>2, <1>3, <1>4, BaseIsOrder DEF Typed
<1>6. Linear'
  BY <1>2, <1>3 DEF Linear
<1>7. Published(Base)'
  BY <1>1, <1>2, <1>3 DEF Published
<1>8. Staged(Base)'
  BY <1>1, <1>3 DEF Staged, RowStays
<1> QED
  BY <1>3, <1>5, <1>6, <1>7, <1>8 DEF OrderInv

-----------------------------------------------------------------------------
(* The edits.                                                              *)

\* An edit that journals what it changes and leaves the links linear keeps all
\* but the staging.
Editing(ks) ==
    /\ Open /\ proposed' = proposed /\ UNCHANGED graphVars
    /\ order' \in Order /\ (\E s : Lists(order', s))
    /\ ks \in SUBSET Link
    /\ journal' = Touched(journal, order, ks)
    /\ \A x : x \notin ks => (x \in DOMAIN order'.children <=> x \in DOMAIN order.children)
    /\ \A x \in DOMAIN order.children \ ks : order'.children[x] = order.children[x]

LEMMA EditKeeps ==
    ASSUME OrderInv, NEW ks, Editing(ks), fragments' \in SUBSET Fragment
    PROVE  Typed' /\ Linear' /\ Published(Base)' /\ Base' = Base /\ Open'
<1>1. Typed /\ Linear /\ Published(Base) /\ Base = Restored(order, journal)
  BY DEF OrderInv, Base, Editing
<1>2. /\ proposed' = proposed /\ keyed' = keyed /\ mounted' = mounted
      /\ instances' = instances /\ dialog' = dialog /\ maxNode' = maxNode
      /\ maxInstance' = maxInstance
  BY DEF Editing, graphVars
<1>3. Open' /\ Open
  BY <1>2 DEF Editing, Open
<1>4. order \in Order /\ journal \in Journal
  BY <1>1 DEF Typed
<1>5. journal' \in Journal /\ Restored(order', journal') = Restored(order, journal)
  BY <1>4, TouchRestores DEF Editing
<1>6. Base' = Base
  BY <1>1, <1>3, <1>5 DEF Base
<1>7. Typed'
  BY <1>1, <1>2, <1>5 DEF Typed, Editing
<1>8. journal'.revision = journal.revision
  BY <1>4 DEF Editing, Touched, Journal
<1>9. Linear'
  BY <1>1, <1>2, <1>3, <1>6, <1>8 DEF Linear, Editing
<1>10. Published(Base)'
  BY <1>1, <1>2, <1>6 DEF Published
<1> QED
  BY <1>3, <1>6, <1>7, <1>9, <1>10

LEMMA InsertKeeps ==
    ASSUME OrderInv, Open, NEW k \in Keys, NEW before \in Link,
           NEW root \in 1 .. MaxNode, NEW instance \in 1 .. MaxNode,
           AcceptsInsert(k, before, root, instance), Insert(k, before, root, instance)
    PROVE  /\ OrderInv' /\ Open' /\ Base' = Base
           /\ RowsKept(order', order, DOMAIN order.children)
           /\ order'.children[k].root = root /\ order'.children[k].instance = instance
           /\ \E s : \E q \in 1 .. (Len(s) + 1) :
                /\ Lists(order, s) /\ k \notin Met(s) /\ At(s, q) = before
                /\ Lists(order', Put(s, q, k))
<1> DEFINE ks == {k, Previous(order, before), before}
           f == [key |-> k, root |-> root, instance |-> instance]
<1>1. /\ order' = InsertChild(order, k, root, instance, before)
      /\ Touch(order, ks) /\ fragments' = fragments \union {f}
      /\ UNCHANGED <<graphVars, proposed>>
      /\ k \notin DOMAIN order.children /\ (before = None \/ before \in DOMAIN order.children)
      /\ FreshIds(root, instance, None)
  BY DEF Insert, AcceptsInsert, Has, Stage
<1>2. /\ order \in Order /\ fragments \in SUBSET Fragment
      /\ maxNode' = maxNode /\ maxInstance' = maxInstance
      /\ Staged(Base)
  BY <1>1 DEF OrderInv, Typed, graphVars
<1>3. PICK s : Lists(order, s)
  BY DEF OrderInv, Linear
<1>4. s \in Seq(Keys) /\ DOMAIN order.children = Met(s) /\ k \notin Met(s)
  BY <1>1, <1>3 DEF Lists
<1>5. PICK q \in 1 .. (Len(s) + 1) : At(s, q) = before
  BY <1>1, <1>4, PlaceBefore
<1>6. /\ order' \in Order
      /\ Lists(order', Put(s, q, k))
      /\ RowsKept(order', order, DOMAIN order.children)
      /\ order'.children[k].root = root /\ order'.children[k].instance = instance
      /\ \A x \in DOMAIN order.children \ {before, Previous(order, before)} :
               order'.children[x] = order.children[x]
      /\ before # k
  BY <1>1, <1>2, <1>3, <1>4, <1>5, InsertLists
<1>7. DOMAIN order'.children = DOMAIN order.children \union {k}
  BY <1>3, <1>4, <1>5, <1>6, PutSound DEF Lists
<1>8. Previous(order, before) \in Link
  <2>1. CASE before = None
    BY <1>2, <2>1 DEF Order, Previous
  <2>2. CASE before # None
    <3>1. order.children[before] \in Child
      BY <1>1, <1>2, <2>2 DEF Order
    <3> QED
      BY <2>2, <3>1 DEF Previous, Child
  <2> QED
    BY <2>1, <2>2
<1>9. journal' = Touched(journal, order, ks)
  BY <1>1 DEF Touch, Touched
<1>10. Editing(ks)
  <2>1. ks \in SUBSET Link
    BY <1>8 DEF Link
  <2> QED
    BY <1>1, <1>6, <1>7, <1>9, <2>1 DEF Editing
<1>11. f \in Fragment /\ fragments' \in SUBSET Fragment
  BY <1>1, <1>2 DEF Fragment
<1>12. Typed' /\ Linear' /\ Published(Base)' /\ Base' = Base /\ Open'
  <2> HIDE DEF ks
  <2> QED
    BY <1>10, <1>11, EditKeeps
<1>13. Staged(Base)'
  <2>1. /\ root > maxNode /\ \A g \in fragments : g.root # root /\ g.instance # instance
        /\ instance > maxInstance
    <3>1. instance # None
      BY NoneAssumption
    <3> QED
      BY <1>1, <3>1 DEF FreshIds
  <2>2. \A g \in fragments' :
          /\ g.root > maxNode
          /\ \/ g.instance > maxInstance
             \/ g.key \in DOMAIN Base.children /\ Base.children[g.key].instance = g.instance
    BY <1>1, <1>2, <2>1 DEF Staged
  <2>3. \A g, h \in fragments' : g.root = h.root \/ g.instance = h.instance => g = h
    BY <1>1, <1>2, <2>1 DEF Staged
  <2>4. ASSUME NEW x \in DOMAIN order'.children
        PROVE  RowStays(Base, order', x) \/ FragmentOf(order', x) \in fragments'
    <3>1. CASE x = k
      BY <1>1, <1>6, <3>1 DEF FragmentOf
    <3>2. CASE x # k
      <4>1. x \in DOMAIN order.children
        BY <1>7, <3>2
      <4> QED
        BY <1>1, <1>2, <1>6, <4>1 DEF Staged, RowStays, FragmentOf, RowsKept
    <3> QED
      BY <3>1, <3>2
  <2> QED
    BY <1>2, <1>12, <2>2, <2>3, <2>4 DEF Staged, RowStays
<1> QED
  BY <1>3, <1>4, <1>5, <1>6, <1>12, <1>13 DEF OrderInv

LEMMA RemoveKeeps ==
    ASSUME OrderInv, Open, NEW k \in DOMAIN order.children, Remove(k)
    PROVE  /\ OrderInv' /\ Open' /\ Base' = Base
           /\ RowsKept(order', order, DOMAIN order.children \ {k})
           /\ \E s : \E p \in 1 .. Len(s) :
                Lists(order, s) /\ s[p] = k /\ Lists(order', Cut(s, p))
<1> DEFINE ks == Neighbours(order, k) \union {k}
<1>1. /\ order' = RemoveChild(order, k)
      /\ Touch(order, ks) /\ fragments' = fragments
      /\ UNCHANGED <<graphVars, proposed>>
  BY DEF Remove, Has
<1>2. /\ order \in Order /\ fragments \in SUBSET Fragment
      /\ maxNode' = maxNode /\ maxInstance' = maxInstance
      /\ Staged(Base)
  BY <1>1 DEF OrderInv, Typed, graphVars
<1>3. PICK s : Lists(order, s)
  BY DEF OrderInv, Linear
<1>4. /\ s \in Seq(Keys) /\ Once(s) /\ DOMAIN order.children = Met(s)
      /\ DOMAIN s = 1 .. Len(s)
  BY <1>3, LenProperties DEF Lists
<1>5. PICK p \in 1 .. Len(s) : s[p] = k
  BY <1>4 DEF Met
<1>6. /\ order' \in Order
      /\ Lists(order', Cut(s, p))
      /\ RowsKept(order', order, DOMAIN order.children \ {k})
      /\ \A x \in DOMAIN order.children \ ks : order'.children[x] = order.children[x]
  <2>1. /\ order' \in Order
        /\ Lists(order', Cut(s, p))
        /\ RowsKept(order', order, DOMAIN order.children \ {k})
        /\ \A x \in DOMAIN order.children \ (Neighbours(order, k) \union {k}) :
                 order'.children[x] = order.children[x]
    <3>1. StandsAt(order, s, p, k)
      BY <1>3, <1>5 DEF StandsAt
    <3> QED
      BY <1>1, <1>2, <3>1, RemoveLists
  <2> QED
    BY <2>1
<1>7. DOMAIN order'.children = DOMAIN order.children \ {k}
  BY <1>4, <1>5, <1>6, CutSound DEF Lists
<1>8. ks \in SUBSET Link
  <2>1. order.children[k] \in Child /\ k \in Keys
    BY <1>2 DEF Order
  <2> QED
    BY <2>1 DEF Neighbours, Child, Link
<1>9. journal' = Touched(journal, order, ks)
  BY <1>1 DEF Touch, Touched
<1>10. Editing(ks)
  <2>1. k \in ks
    OBVIOUS
  <2> HIDE DEF ks
  <2> QED
    BY <1>1, <1>6, <1>7, <1>8, <1>9, <2>1 DEF Editing
<1>11. Typed' /\ Linear' /\ Published(Base)' /\ Base' = Base /\ Open'
  <2> HIDE DEF ks
  <2> QED
    BY <1>1, <1>2, <1>10, EditKeeps
<1>12. Staged(Base)'
  <2>1. ASSUME NEW x \in DOMAIN order'.children
        PROVE  RowStays(Base, order', x) \/ FragmentOf(order', x) \in fragments'
    BY <1>1, <1>2, <1>6, <1>7 DEF Staged, RowStays, FragmentOf, RowsKept
  <2> QED
    BY <1>1, <1>2, <1>11, <2>1 DEF Staged, RowStays
<1> QED
  BY <1>3, <1>5, <1>6, <1>11, <1>12 DEF OrderInv

\* A move to where the child stands is journalled nowhere; any other takes the
\* child out and puts it before the anchor.
LEMMA MoveKeeps ==
    ASSUME OrderInv, Open, NEW k \in Keys, NEW before \in Link,
           AcceptsMove(k, before), Move(k, before)
    PROVE  /\ OrderInv' /\ Open' /\ Base' = Base
           /\ \/ order' = order
              \/ /\ RowsKept(order', order, DOMAIN order.children) /\ before # k
                 /\ \E s : \E p \in 1 .. Len(s) : \E q \in 1 .. (Len(Cut(s, p)) + 1) :
                      /\ Lists(order, s) /\ s[p] = k
                      /\ At(Cut(s, p), q) = before
                      /\ Lists(order', Put(Cut(s, p), q, k))
<1> DEFINE ks == Neighbours(order, k) \union
                 {Previous(Unlink(order, k), before), before, k}
<1>1. /\ order' = MoveChild(order, k, before) /\ fragments' = fragments
      /\ IF Stays(order, k, before) THEN UNCHANGED journal ELSE Touch(order, ks)
      /\ UNCHANGED <<graphVars, proposed>>
      /\ k \in DOMAIN order.children
      /\ Stays(order, k, before) \/ before = None \/ before \in DOMAIN order.children
  BY DEF Move, AcceptsMove, Has
<1>2. /\ order \in Order /\ fragments \in SUBSET Fragment
      /\ maxNode' = maxNode /\ maxInstance' = maxInstance
      /\ Staged(Base)
  BY <1>1 DEF OrderInv, Typed, graphVars
<1>3. CASE Stays(order, k, before)
  <2>1. order' = order /\ journal' = journal
    BY <1>1, <1>3 DEF MoveChild
  <2>2. Open' /\ Base' = Base
    BY <1>1, <2>1 DEF Open, Base
  <2>3. Typed'
    BY <1>1, <2>1 DEF OrderInv, Typed, graphVars
  <2>4. Linear'
    BY <1>1, <2>1, <2>2 DEF OrderInv, Linear
  <2>5. Published(Base)'
    BY <1>1, <2>1, <2>2 DEF OrderInv, Published, graphVars
  <2>6. Staged(Base)'
    BY <1>1, <1>2, <2>1, <2>2 DEF Staged, RowStays, FragmentOf
  <2> QED
    BY <2>1, <2>2, <2>3, <2>4, <2>5, <2>6 DEF OrderInv
<1>4. CASE ~ Stays(order, k, before)
  <2>1. PICK s : Lists(order, s)
    BY DEF OrderInv, Linear
  <2>2. /\ s \in Seq(Keys) /\ Once(s) /\ DOMAIN order.children = Met(s)
        /\ DOMAIN s = 1 .. Len(s)
    BY <2>1, LenProperties DEF Lists
  <2>3. PICK p \in 1 .. Len(s) : s[p] = k
    BY <1>1, <2>2 DEF Met
  <2>4. StandsAt(order, s, p, k)
    BY <2>1, <2>3 DEF StandsAt
  <2>5. before = None \/ before \in DOMAIN order.children
    BY <1>1, <1>4
  <2>6. /\ order' \in Order
        /\ \E q \in 1 .. (Len(Cut(s, p)) + 1) :
                 At(Cut(s, p), q) = before /\ Lists(order', Put(Cut(s, p), q, k))
        /\ RowsKept(order', order, DOMAIN order.children)
        /\ \A x \in DOMAIN order.children \ (Neighbours(order, k) \union
                             {Previous(Unlink(order, k), before), before, k}) :
                 order'.children[x] = order.children[x]
    BY <1>1, <1>2, <1>4, <2>4, <2>5, MoveLists
  <2>7. PICK q \in 1 .. (Len(Cut(s, p)) + 1) :
             At(Cut(s, p), q) = before /\ Lists(order', Put(Cut(s, p), q, k))
    BY <2>6
  <2>8. DOMAIN order'.children = DOMAIN order.children
    <3>1. /\ Cut(s, p) \in Seq(Keys) /\ Once(Cut(s, p)) /\ Met(Cut(s, p)) = Met(s) \ {k}
      BY <2>2, <2>3, CutSound
    <3>2. Met(Put(Cut(s, p), q, k)) = Met(Cut(s, p)) \union {k}
      BY <2>7, <3>1, PutSound
    <3> QED
      BY <1>1, <2>2, <2>7, <3>1, <3>2 DEF Lists
  <2>9. Previous(Unlink(order, k), before) \in Link
    <3>1. Unlink(order, k) \in Order /\ DOMAIN Unlink(order, k).children = DOMAIN order.children
      BY <1>2, <2>1, <2>3, Unlinked
    <3> DEFINE m == Unlink(order, k)
    <3> HIDE DEF m
    <3>2. m \in Order /\ DOMAIN m.children = DOMAIN order.children
      BY <3>1 DEF m
    <3>3. Previous(m, before) \in Link
      <4>1. CASE before = None
        BY <3>2, <4>1 DEF Order, Previous
      <4>2. CASE before # None
        <5>1. m.children[before] \in Child
          BY <2>5, <3>2, <4>2 DEF Order
        <5> QED
          BY <4>2, <5>1 DEF Previous, Child
      <4> QED
        BY <4>1, <4>2
    <3> QED
      BY <3>3 DEF m
  <2>10. ks \in SUBSET Link
    <3>1. order.children[k] \in Child
      BY <1>1, <1>2 DEF Order
    <3> QED
      BY <2>9, <3>1 DEF Neighbours, Child, Link
  <2>11. journal' = Touched(journal, order, ks)
    BY <1>1, <1>4 DEF Touch, Touched
  <2>12. Editing(ks)
    <3>1. \A x \in DOMAIN order.children \ ks : order'.children[x] = order.children[x]
      BY <2>6
    <3> HIDE DEF ks
    <3> QED
      BY <1>1, <2>6, <2>7, <2>8, <2>10, <2>11, <3>1 DEF Editing
  <2>13. Typed' /\ Linear' /\ Published(Base)' /\ Base' = Base /\ Open'
    <3> HIDE DEF ks
    <3> QED
      BY <1>1, <1>2, <2>12, EditKeeps
  <2>14. Staged(Base)'
    <3>1. ASSUME NEW x \in DOMAIN order'.children
          PROVE  RowStays(Base, order', x) \/ FragmentOf(order', x) \in fragments'
      BY <1>1, <1>2, <2>6, <2>8 DEF Staged, RowStays, FragmentOf, RowsKept
    <3> QED
      BY <1>1, <1>2, <2>13, <3>1 DEF Staged, RowStays
  <2>15. before # k
    BY <1>4 DEF Stays
  <2>16. \E z : \E y \in 1 .. Len(z) : \E w \in 1 .. (Len(Cut(z, y)) + 1) :
                      /\ Lists(order, z) /\ z[y] = k
                      /\ At(Cut(z, y), w) = before
                      /\ Lists(order', Put(Cut(z, y), w, k))
    BY <2>1, <2>3, <2>7
  <2> QED
    BY <2>6, <2>13, <2>14, <2>15, <2>16 DEF OrderInv
<1> QED
  BY <1>3, <1>4

\* A row is set from a fragment with its instance and a new root.
LEMMA SetKeeps ==
    ASSUME OrderInv, Open, NEW k \in Keys,
           NEW root \in 1 .. MaxNode, NEW instance \in 1 .. MaxNode,
           AcceptsSet(k, root, instance), Set(k, root, instance)
    PROVE  /\ OrderInv' /\ Open' /\ Base' = Base
           /\ k \in DOMAIN order.children /\ order' = ReplaceChild(order, k, root)
<1> DEFINE f == [key |-> k, root |-> root, instance |-> instance]
<1>1. /\ order' = ReplaceChild(order, k, root)
      /\ Touch(order, {k}) /\ fragments' = fragments \union {f}
      /\ UNCHANGED <<graphVars, proposed>>
      /\ k \in DOMAIN order.children /\ instance = order.children[k].instance
      /\ FreshIds(root, instance, instance)
  BY DEF Set, AcceptsSet, Has, Stage
<1>2. /\ order \in Order /\ fragments \in SUBSET Fragment
      /\ maxNode' = maxNode /\ maxInstance' = maxInstance
      /\ Staged(Base)
  BY <1>1 DEF OrderInv, Typed, graphVars
<1>3. PICK s : Lists(order, s)
  BY DEF OrderInv, Linear
<1>4. /\ order' \in Order /\ Lists(order', s)
      /\ order'.children[k].root = root /\ order'.children[k].instance = order.children[k].instance
      /\ \A x \in DOMAIN order.children \ {k} : order'.children[x] = order.children[x]
  BY <1>1, <1>2, <1>3, ReplaceLists
<1>5. DOMAIN order'.children = DOMAIN order.children
  BY <1>3, <1>4 DEF Lists
<1>6. journal' = Touched(journal, order, {k})
  BY <1>1 DEF Touch, Touched
<1>7. Editing({k})
  BY <1>1, <1>4, <1>5, <1>6 DEF Editing, Link
<1>8. f \in Fragment /\ fragments' \in SUBSET Fragment
  BY <1>1, <1>2 DEF Fragment
<1>9. Typed' /\ Linear' /\ Published(Base)' /\ Base' = Base /\ Open'
  BY <1>7, <1>8, EditKeeps
<1>10. root > maxNode /\ \A g \in fragments : g.root # root /\ g.instance # instance
  BY <1>1 DEF FreshIds
<1>11. RowStays(Base, order, k)
  <2>1. FragmentOf(order, k) \notin fragments
    BY <1>1, <1>10 DEF FragmentOf
  <2> QED
    BY <1>1, <1>2, <2>1 DEF Staged
<1>12. Staged(Base)'
  <2>1. \A g \in fragments' :
          /\ g.root > maxNode
          /\ \/ g.instance > maxInstance
             \/ g.key \in DOMAIN Base.children /\ Base.children[g.key].instance = g.instance
    BY <1>1, <1>2, <1>10, <1>11 DEF Staged, RowStays
  <2>2. \A g, h \in fragments' : g.root = h.root \/ g.instance = h.instance => g = h
    BY <1>1, <1>2, <1>10 DEF Staged
  <2>3. ASSUME NEW x \in DOMAIN order'.children
        PROVE  RowStays(Base, order', x) \/ FragmentOf(order', x) \in fragments'
    <3>1. CASE x = k
      BY <1>1, <1>4, <3>1 DEF FragmentOf
    <3>2. CASE x # k
      BY <1>1, <1>2, <1>4, <1>5, <3>2 DEF Staged, RowStays, FragmentOf
    <3> QED
      BY <3>1, <3>2
  <2> QED
    BY <1>2, <1>9, <2>1, <2>2, <2>3 DEF Staged, RowStays
<1> QED
  BY <1>1, <1>9, <1>12 DEF OrderInv

-----------------------------------------------------------------------------
(* Committing.                                                             *)

\* max: a bounded set has a largest number.
LEMMA LargestOf ==
    ASSUME NEW n \in 0 .. MaxNode, NEW S \in SUBSET (1 .. MaxNode)
    PROVE  /\ Largest(n, S) \in 0 .. MaxNode /\ n <= Largest(n, S)
           /\ \A x \in S : x <= Largest(n, S)
<1> DEFINE T == {MaxNode - x : x \in S \union {n}}
<1>1. MaxNode \in Nat
  BY BoundAssumption
<1>2. T \in SUBSET Nat /\ T # {}
  BY <1>1
<1>3. PICK m \in T : \A k \in T : m <= k
  <2> HIDE DEF T
  <2> QED
    BY <1>2, LeastNumber
<1>4. PICK y \in S \union {n} : m = MaxNode - y
  BY <1>3
<1>5. \A x \in S \union {n} : x <= y
  <2> SUFFICES ASSUME NEW x \in S \union {n} PROVE x <= y
    OBVIOUS
  <2>1. m <= MaxNode - x
    BY <1>3
  <2>2. x \in Nat /\ y \in Nat
    BY <1>1
  <2> QED
    BY <1>1, <1>4, <2>1, <2>2
<1>6. Largest(n, S) = CHOOSE z \in S \union {n} : \A x \in S \union {n} : x <= z
  BY DEF Largest
<1>7. Largest(n, S) \in S \union {n} /\ \A x \in S \union {n} : x <= Largest(n, S)
  BY <1>5, <1>6
<1> DEFINE z == Largest(n, S)
<1> HIDE DEF z
<1>8. z \in S \union {n} /\ \A x \in S \union {n} : x <= z
  BY <1>7 DEF z
<1>9. \A x \in S \union {n} : x \in 0 .. MaxNode
  <2>1. 1 .. MaxNode \subseteq 0 .. MaxNode
    BY <1>1
  <2> QED
    BY <2>1
<1>10. z \in 0 .. MaxNode
  BY <1>8, <1>9
<1> QED
  BY <1>8, <1>10 DEF z

\* The rows of b that the working order does not have as they were.
Gone(b) == {k \in DOMAIN b.children :
                k \in DOMAIN order.children => order.children[k].root # b.children[k].root}
\* The rows that a fragment brought.
Brought == {k \in DOMAIN order.children : FragmentOf(order, k) \in fragments}

LEMMA FragmentFields ==
    \A k : /\ FragmentOf(order, k).key = k
           /\ FragmentOf(order, k).root = order.children[k].root
           /\ FragmentOf(order, k).instance = order.children[k].instance
BY DEF FragmentOf

LEMMA RemovedAre ==
    ASSUME OrderInv, Open
    PROVE  RemovedRoots = RootsOf(Base, Gone(Base))
<1> DEFINE b == Base
           J == DOMAIN journal.originals
           X == {x \in J : /\ journal.originals[x] # None
                           /\ Has(order, x) => order.children[x].root # journal.originals[x].root}
<1>1. order \in Order /\ journal \in Journal /\ b = Restored(order, journal)
  BY DEF OrderInv, Typed, Base
<1>2. /\ \A k : k \in DOMAIN b.children <=>
           IF k \in J THEN journal.originals[k] # None ELSE k \in DOMAIN order.children
      /\ \A k \in DOMAIN b.children :
           b.children[k] = IF k \in J THEN journal.originals[k] ELSE order.children[k]
  <2> HIDE DEF b
  <2> QED
    BY <1>1, RestoredFields
<1>3. RemovedRoots = {journal.originals[k].root : k \in X}
  BY DEF RemovedRoots
<1> HIDE DEF b
<1>4. X = Gone(b)
  BY <1>2 DEF Gone, Has
<1>5. \A k \in X : journal.originals[k] = b.children[k]
  BY <1>2
<1>6. {journal.originals[k].root : k \in X} = {b.children[k].root : k \in X}
  <2> HIDE DEF X
  <2> QED
    BY <1>5
<1> QED
  BY <1>3, <1>4, <1>6 DEF RootsOf, b

\* Before a commit: a row is as it was or a fragment brought it, and what is
\* kept are the fragments of the rows that one brought.
LEMMA StagedRows ==
    ASSUME OrderInv, Open
    PROVE  /\ \A k \in DOMAIN order.children :
                /\ order.children[k] \in Child
                /\ k \in Brought \/ (k \in DOMAIN Base.children \ Gone(Base)
                                     /\ RowStays(Base, order, k))
           /\ \A k \in Brought : order.children[k].root > maxNode
           /\ \A k \in DOMAIN Base.children :
                /\ Base.children[k] \in Child
                /\ Base.children[k].root <= maxNode /\ Base.children[k].instance <= maxInstance
                /\ k \notin Gone(Base) => k \in DOMAIN order.children \ Brought
                                          /\ RowStays(Base, order, k)
           /\ Kept = {FragmentOf(order, k) : k \in Brought}
           /\ maxNode \in Nat /\ maxInstance \in Nat
<1> DEFINE b == Base
<1>1. /\ order \in Order /\ b \in Order /\ fragments \in SUBSET Fragment
      /\ maxNode \in Nat /\ maxInstance \in Nat
      /\ Published(b) /\ Staged(b)
  BY BaseIsOrder, BoundAssumption DEF OrderInv, Typed
<1> HIDE DEF b
<1>2. /\ \A k \in DOMAIN order.children : order.children[k] \in Child
      /\ \A k \in DOMAIN b.children : b.children[k] \in Child
  BY <1>1 DEF Order
<1>3. \A k \in DOMAIN b.children : b.children[k].root <= maxNode /\ b.children[k].instance <= maxInstance
  BY <1>1 DEF Published
<1>4. \A k \in Brought : order.children[k].root > maxNode
  BY <1>1 DEF Staged, Brought, FragmentOf
<1>5. ASSUME NEW k \in DOMAIN order.children, k \notin Brought
      PROVE  k \in DOMAIN b.children \ Gone(b) /\ RowStays(b, order, k)
  BY <1>1, <1>5 DEF Staged, Brought, RowStays, Gone
<1>6. ASSUME NEW k \in DOMAIN b.children, k \notin Gone(b)
      PROVE  k \in DOMAIN order.children \ Brought /\ RowStays(b, order, k)
  <2>1. k \in DOMAIN order.children /\ order.children[k].root = b.children[k].root
    BY <1>6 DEF Gone
  <2>2. b.children[k].root \in Nat /\ b.children[k].root <= maxNode
    BY <1>2, <1>3 DEF Child
  <2>3. ~ (b.children[k].root > maxNode)
    BY <1>1, <2>2
  <2>4. k \notin Brought
    BY <1>4, <2>1, <2>3
  <2> QED
    BY <1>5, <2>1, <2>4
<1>7. ASSUME NEW k \in Brought PROVE FragmentOf(order, k) \in Kept
  BY <1>7 DEF Brought, Kept, FragmentOf, Has
<1>8. ASSUME NEW f \in Kept PROVE f.key \in Brought /\ f = FragmentOf(order, f.key)
  <2>1. /\ f \in fragments /\ f.key \in DOMAIN order.children
        /\ order.children[f.key].root = f.root /\ f.root > maxNode
    BY <1>1 DEF Kept, Has, Staged
  <2>2. f.key \in Brought
    <3>1. SUFFICES ASSUME f.key \notin Brought PROVE FALSE
      OBVIOUS
    <3>2. f.key \in DOMAIN b.children /\ order.children[f.key].root = b.children[f.key].root
      BY <1>5, <2>1, <3>1 DEF RowStays
    <3>3. b.children[f.key].root \in Nat /\ b.children[f.key].root <= maxNode
      BY <1>2, <1>3, <3>2 DEF Child
    <3> QED
      BY <1>1, <2>1, <3>2, <3>3
  <2>3. FragmentOf(order, f.key) \in fragments /\ FragmentOf(order, f.key).root = f.root
    BY <2>1, <2>2 DEF Brought, FragmentOf
  <2> QED
    BY <1>1, <2>1, <2>2, <2>3 DEF Staged
<1>9. Kept = {FragmentOf(order, k) : k \in Brought}
  BY <1>7, <1>8
<1> QED
  BY <1>1, <1>2, <1>3, <1>4, <1>5, <1>6, <1>9 DEF b

\* The nodes and the instances a commit leaves are those of the rows.
LEMMA CommitMounts ==
    ASSUME OrderInv, Open, Commit, Mountable
    PROVE  /\ mounted' = RootsOf(order, DOMAIN order.children)
           /\ instances' \in [InstancesOf(order) -> 1 .. MaxNode]
           /\ \A k \in DOMAIN order.children :
                instances'[order.children[k].instance] = order.children[k].root
<1> DEFINE b == Base
           D == DOMAIN order.children
           stay == DOMAIN b.children \ Gone(b)
           left == {i \in DOMAIN instances : instances[i] \notin RemovedRoots}
           new == {f.instance : f \in Kept}
<1>1. /\ mounted' = (mounted \ RemovedRoots) \union {f.root : f \in Kept}
      /\ instances' = [i \in left \union new |->
                           IF \E f \in Kept : f.instance = i
                           THEN (CHOOSE f \in Kept : f.instance = i).root
                           ELSE instances[i]]
  BY DEF Commit
<1>2. /\ \A k \in D : /\ order.children[k] \in Child
                      /\ k \in Brought \/ (k \in stay /\ RowStays(b, order, k))
      /\ \A k \in Brought : order.children[k].root > maxNode
      /\ \A k \in DOMAIN b.children :
           /\ b.children[k] \in Child
           /\ b.children[k].root <= maxNode /\ b.children[k].instance <= maxInstance
      /\ \A k \in stay : k \in D \ Brought /\ RowStays(b, order, k)
      /\ Kept = {FragmentOf(order, k) : k \in Brought}
      /\ maxNode \in Nat /\ maxInstance \in Nat
  BY StagedRows
<1>3. /\ Published(b) /\ Staged(b) /\ fragments \in SUBSET Fragment
      /\ instances \in UNION {[E -> 1 .. MaxNode] : E \in SUBSET (1 .. MaxNode)}
  BY DEF OrderInv, Typed
<1>4. RemovedRoots = {b.children[k].root : k \in Gone(b)}
  BY RemovedAre DEF RootsOf
<1> HIDE DEF b, stay, left, new
<1>5. /\ mounted = {b.children[k].root : k \in DOMAIN b.children}
      /\ DOMAIN instances = {b.children[k].instance : k \in DOMAIN b.children}
      /\ \A k \in DOMAIN b.children : instances[b.children[k].instance] = b.children[k].root
      /\ \A k, l \in DOMAIN b.children : b.children[k].root = b.children[l].root => k = l
  BY <1>3 DEF Published, RootsOf, InstancesOf
<1>6. stay \subseteq DOMAIN b.children /\ Gone(b) \subseteq DOMAIN b.children
      /\ (\A k \in DOMAIN b.children : k \in stay <=> k \notin Gone(b))
      /\ Brought \subseteq D
  BY DEF stay, Gone, Brought
<1>7. mounted \ RemovedRoots = {b.children[k].root : k \in stay}
  BY <1>4, <1>5, <1>6
<1>8. {b.children[k].root : k \in stay} = {order.children[k].root : k \in stay}
  BY <1>2 DEF RowStays
<1>9. {f.root : f \in Kept} = {order.children[k].root : k \in Brought}
  BY <1>2, FragmentFields
<1>10. D = stay \union Brought
  BY <1>2, <1>6
<1>11. mounted' = RootsOf(order, D)
  BY <1>1, <1>7, <1>8, <1>9, <1>10 DEF RootsOf
<1>12. left = {b.children[k].instance : k \in stay}
  BY <1>4, <1>5, <1>6 DEF left
<1>13. {b.children[k].instance : k \in stay} = {order.children[k].instance : k \in stay}
  BY <1>2 DEF RowStays
<1>14. new = {order.children[k].instance : k \in Brought}
  BY <1>2, FragmentFields DEF new
<1>15. left \union new = InstancesOf(order)
  BY <1>10, <1>12, <1>13, <1>14 DEF InstancesOf
<1>16. ASSUME NEW k \in Brought
       PROVE  instances'[order.children[k].instance] = order.children[k].root
  <2> DEFINE f == FragmentOf(order, k)
  <2>1. f \in Kept /\ f.instance = order.children[k].instance /\ f.root = order.children[k].root
    BY <1>2 DEF FragmentOf
  <2>2. \A g \in Kept : g.instance = f.instance => g = f
    BY <1>3, <2>1 DEF Staged, Kept
  <2> HIDE DEF f
  <2>3. (CHOOSE g \in Kept : g.instance = f.instance) = f
    BY <2>1, <2>2
  <2>4. f.instance \in left \union new
    BY <2>1 DEF new
  <2> QED
    BY <1>1, <2>1, <2>3, <2>4
<1>17. ASSUME NEW k \in stay
       PROVE  instances'[order.children[k].instance] = order.children[k].root
  <2> DEFINE i == order.children[k].instance
  <2>1. /\ i = b.children[k].instance /\ order.children[k].root = b.children[k].root
        /\ k \in DOMAIN b.children /\ k \notin Brought /\ k \in D
        /\ b.children[k].root \in Nat /\ b.children[k].root <= maxNode
        /\ i \in Nat /\ i <= maxInstance
    BY <1>2, <1>6 DEF RowStays, Child
  <2>2. ASSUME NEW f \in Kept, f.instance = i PROVE FALSE
    <3>1. f \in fragments /\ f.key \in Brought /\ f.root > maxNode
          /\ f.root = order.children[f.key].root
      <4>1. PICK x \in Brought : f = FragmentOf(order, x)
        BY <1>2
      <4> QED
        BY <1>2, <4>1 DEF FragmentOf, Brought
    <3>2. ~ (f.instance > maxInstance)
      BY <1>2, <2>1, <2>2
    <3>3. f.key \in DOMAIN b.children /\ b.children[f.key].instance = i
      BY <1>3, <2>2, <3>1, <3>2 DEF Staged
    <3>4. b.children[f.key].root = b.children[k].root
      BY <1>5, <2>1, <3>3
    <3>5. f.key = k
      BY <1>5, <2>1, <3>3, <3>4
    <3> QED
      BY <2>1, <3>1, <3>5
  <2>3. i \in left
    BY <1>12, <2>1
  <2> HIDE DEF i
  <2>4. instances'[i] = instances[i]
    BY <1>1, <2>2, <2>3
  <2> QED
    BY <1>5, <2>1, <2>4 DEF i
<1>18. \A k \in D : instances'[order.children[k].instance] = order.children[k].root
  BY <1>10, <1>16, <1>17
<1>19. instances' \in [InstancesOf(order) -> 1 .. MaxNode]
  <2>1. ASSUME NEW i \in InstancesOf(order) PROVE instances'[i] \in 1 .. MaxNode
    <3>1. PICK k \in D : i = order.children[k].instance
      BY DEF InstancesOf
    <3>2. order.children[k].root \in 1 .. MaxNode
      BY <1>2 DEF Child
    <3> QED
      BY <1>18, <3>1, <3>2
  <2>2. DOMAIN instances' = InstancesOf(order) /\ instances' = [i \in InstancesOf(order) |-> instances'[i]]
    BY <1>1, <1>15
  <2> QED
    BY <2>1, <2>2
<1> QED
  BY <1>11, <1>18, <1>19

\* The dialog is that of the one row that has one.
LEMMA CommitDialog ==
    ASSUME OrderInv, Open, Commit, Mountable
    PROVE  /\ dialog' \in (1 .. MaxNode) \union {None}
           /\ RootsOf(order, DOMAIN order.children \intersect Modal) = {dialog'} \ {None}
<1> DEFINE b == Base
           D == DOMAIN order.children
           stay == DOMAIN b.children \ Gone(b)
           M == {FragmentOf(order, k) : k \in Brought \intersect Modal}
<1>1. /\ dialog' = IF KeptModal # {} THEN (CHOOSE f \in KeptModal : TRUE).root
                   ELSE IF dialog \in RemovedRoots THEN None ELSE dialog
      /\ \A f, g \in KeptModal : f = g
      /\ KeptModal # {} => dialog \in RemovedRoots \union {None}
  BY DEF Commit, Mountable
<1>2. /\ \A k \in D : /\ order.children[k] \in Child
                      /\ k \in Brought \/ (k \in stay /\ RowStays(b, order, k))
      /\ \A k \in DOMAIN b.children : b.children[k] \in Child
      /\ \A k \in stay : k \in D \ Brought /\ RowStays(b, order, k)
      /\ Kept = {FragmentOf(order, k) : k \in Brought}
  BY StagedRows
<1>3. Published(b) /\ dialog \in (1 .. MaxNode) \union {None}
  BY DEF OrderInv, Typed
<1>4. RemovedRoots = {b.children[k].root : k \in Gone(b)}
  BY RemovedAre DEF RootsOf
<1> HIDE DEF b, stay
<1>5. /\ \A k, l \in DOMAIN b.children : b.children[k].root = b.children[l].root => k = l
      /\ {b.children[k].root : k \in DOMAIN b.children \intersect Modal} = {dialog} \ {None}
  BY <1>3 DEF Published, RootsOf
<1>6. /\ stay \subseteq DOMAIN b.children /\ Gone(b) \subseteq DOMAIN b.children
      /\ (\A k \in DOMAIN b.children : k \in stay <=> k \notin Gone(b))
      /\ Brought \subseteq D
  BY DEF stay, Gone, Brought
<1>7. KeptModal = M
  BY <1>2 DEF KeptModal, FragmentOf
<1>8. ASSUME NEW k \in stay \intersect Modal
      PROVE  order.children[k].root = dialog /\ dialog # None /\ dialog \notin RemovedRoots
  <2>1. order.children[k].root = b.children[k].root /\ k \in DOMAIN b.children
    BY <1>2, <1>6 DEF RowStays
  <2>2. b.children[k].root \in {dialog} \ {None}
    BY <1>5, <2>1
  <2>3. dialog \notin RemovedRoots
    BY <1>4, <1>5, <1>6, <2>1, <2>2
  <2> QED
    BY <2>1, <2>2, <2>3
<1>9. RootsOf(order, D \intersect Modal) =
        {order.children[k].root : k \in stay \intersect Modal} \union {f.root : f \in KeptModal}
  <2>1. D \intersect Modal = (stay \intersect Modal) \union (Brought \intersect Modal)
    BY <1>2, <1>6
  <2>2. {f.root : f \in M} = {order.children[k].root : k \in Brought \intersect Modal}
    BY FragmentFields
  <2> QED
    BY <1>7, <2>1, <2>2 DEF RootsOf
<1> HIDE DEF M
<1>10. CASE KeptModal # {}
  <2>1. stay \intersect Modal = {}
    BY <1>1, <1>8, <1>10
  <2>2. PICK f \in KeptModal : TRUE
    BY <1>10
  <2>3. KeptModal = {f} /\ dialog' = f.root
    BY <1>1, <1>10, <2>2
  <2>4. f.root \in 1 .. MaxNode
    BY <1>2, <1>6, <1>7, <2>2 DEF M, FragmentOf, Child
  <2>5. f.root # None
    BY <2>4, NoneAssumption
  <2> QED
    BY <1>9, <2>1, <2>3, <2>4, <2>5
<1>11. CASE KeptModal = {}
  <2>1. RootsOf(order, D \intersect Modal) = {order.children[k].root : k \in stay \intersect Modal}
    BY <1>9, <1>11
  <2>2. CASE dialog \in RemovedRoots
    BY <1>1, <1>8, <1>11, <2>1, <2>2
  <2>3. CASE dialog \notin RemovedRoots
    <3>1. dialog' = dialog
      BY <1>1, <1>11, <2>3
    <3>2. ASSUME dialog # None PROVE \E k \in stay \intersect Modal : order.children[k].root = dialog
      <4>1. PICK k \in DOMAIN b.children \intersect Modal : b.children[k].root = dialog
        BY <1>5, <3>2
      <4>2. k \in stay
        BY <1>4, <1>6, <2>3, <4>1
      <4> QED
        BY <1>2, <4>1, <4>2 DEF RowStays
    <3> QED
      BY <1>3, <1>8, <2>1, <3>1, <3>2
  <2> QED
    BY <2>2, <2>3
<1> QED
  BY <1>10, <1>11

LEMMA CommitKeeps ==
    ASSUME OrderInv, Open, Commit, Mountable
    PROVE  /\ OrderInv' /\ ~ Open' /\ Base' = order'
           /\ order'.children = order.children /\ order'.revision = proposed
           /\ (\E s : Lists(order, s) /\ Lists(order', s))
           /\ \A k \in DOMAIN order.children :
                LET instance == order.children[k].instance
                IN  \/ instance > maxInstance
                    \/ k \in DOMAIN Base.children /\ Base.children[k].instance = instance
<1> DEFINE b == Base
           D == DOMAIN order.children
<1>1. /\ order' = [order EXCEPT !.revision = proposed]
      /\ keyed' = TRUE /\ proposed' = None /\ journal' = NoJournal /\ fragments' = {}
      /\ maxNode' = Largest(maxNode, {f.root : f \in Kept})
      /\ maxInstance' = Largest(maxInstance, {f.instance : f \in Kept})
  BY DEF Commit
<1>2. /\ order \in Order /\ fragments \in SUBSET Fragment
      /\ maxNode \in 0 .. MaxNode /\ maxInstance \in 0 .. MaxNode
      /\ proposed \in 1 .. MaxRevision
      /\ Published(b) /\ Staged(b)
  BY DEF OrderInv, Typed, Open
<1>3. PICK s : Lists(order, s)
  BY DEF OrderInv, Linear
<1>4. /\ \A k \in D : /\ order.children[k] \in Child
                      /\ k \in Brought \/ (k \in DOMAIN b.children \ Gone(b)
                                           /\ RowStays(b, order, k))
      /\ \A k \in Brought : order.children[k].root > maxNode
      /\ \A k \in DOMAIN b.children :
           /\ b.children[k] \in Child
           /\ b.children[k].root <= maxNode /\ b.children[k].instance <= maxInstance
      /\ Kept = {FragmentOf(order, k) : k \in Brought}
      /\ Brought \subseteq D
  BY StagedRows DEF Brought
<1> HIDE DEF b
<1>5. proposed \in Revision
  BY <1>2 DEF Revision
<1>6. /\ order' \in Order /\ order'.head = order.head /\ order'.tail = order.tail
      /\ order'.children = order.children /\ order'.revision = proposed
  BY <1>1, <1>2, <1>5 DEF Order
<1>7. Lists(order', s)
  BY <1>3, <1>6 DEF Lists, Linking
<1>8. ~ Open' /\ Base' = order'
  BY <1>1 DEF Open, Base
<1>9. /\ mounted' = RootsOf(order, D)
      /\ instances' \in [InstancesOf(order) -> 1 .. MaxNode]
      /\ \A k \in D : instances'[order.children[k].instance] = order.children[k].root
  BY CommitMounts
<1>10. /\ dialog' \in (1 .. MaxNode) \union {None}
       /\ RootsOf(order, D \intersect Modal) = {dialog'} \ {None}
  BY CommitDialog
<1>11. RootsOf(order, D) \in SUBSET (1 .. MaxNode) /\ InstancesOf(order) \in SUBSET (1 .. MaxNode)
  BY <1>4 DEF RootsOf, InstancesOf, Child
<1>12. /\ {f.root : f \in Kept} = {order.children[k].root : k \in Brought}
       /\ {f.instance : f \in Kept} = {order.children[k].instance : k \in Brought}
  BY <1>4, FragmentFields
<1>13. /\ maxNode' \in 0 .. MaxNode /\ maxNode <= maxNode'
       /\ \A k \in Brought : order.children[k].root <= maxNode'
  <2>1. {f.root : f \in Kept} \in SUBSET (1 .. MaxNode)
    BY <1>4, <1>12 DEF Child
  <2> QED
    BY <1>1, <1>2, <1>12, <2>1, LargestOf
<1>14. /\ maxInstance' \in 0 .. MaxNode /\ maxInstance <= maxInstance'
       /\ \A k \in Brought : order.children[k].instance <= maxInstance'
  <2>1. {f.instance : f \in Kept} \in SUBSET (1 .. MaxNode)
    BY <1>4, <1>12 DEF Child
  <2> QED
    BY <1>1, <1>2, <1>12, <2>1, LargestOf
<1>15. ASSUME NEW k \in D
       PROVE  order.children[k].root <= maxNode' /\ order.children[k].instance <= maxInstance'
  <2>1. CASE k \in Brought
    BY <1>13, <1>14, <2>1
  <2>2. CASE k \notin Brought
    <3>1. /\ order.children[k].root <= maxNode /\ order.children[k].instance <= maxInstance
      BY <1>4, <2>2 DEF RowStays
    <3>2. /\ order.children[k].root \in Int /\ order.children[k].instance \in Int
          /\ maxNode \in Int /\ maxNode' \in Int /\ maxInstance \in Int /\ maxInstance' \in Int
      BY <1>2, <1>4, <1>13, <1>14 DEF Child
    <3> QED
      BY <1>13, <1>14, <3>1, <3>2
  <2> QED
    BY <2>1, <2>2
<1>16. ASSUME NEW k \in D, NEW l \in D, order.children[k].root = order.children[l].root
       PROVE  k = l
  <2>1. CASE k \in Brought /\ l \in Brought
    <3>1. FragmentOf(order, k) = FragmentOf(order, l)
      BY <1>2, <1>16, <2>1, FragmentFields DEF Staged, Brought
    <3> QED
      BY <3>1, FragmentFields
  <2>2. CASE k \notin Brought /\ l \notin Brought
    <3>1. /\ k \in DOMAIN b.children /\ l \in DOMAIN b.children
          /\ b.children[k].root = b.children[l].root
      BY <1>4, <1>16, <2>2 DEF RowStays
    <3> QED
      BY <1>2, <3>1 DEF Published
  <2>3. ASSUME NEW x \in D, NEW y \in D, x \in Brought, y \notin Brought
        PROVE  order.children[x].root # order.children[y].root
    <3>1. order.children[x].root > maxNode /\ order.children[y].root <= maxNode
      BY <1>4, <2>3 DEF RowStays
    <3>2. order.children[x].root \in Int /\ maxNode \in Int
      BY <1>2, <1>4 DEF Child
    <3> QED
      BY <3>1, <3>2
  <2> QED
    BY <1>16, <2>1, <2>2, <2>3
<1>17. Typed'
  <2>1. instances' \in UNION {[E -> 1 .. MaxNode] : E \in SUBSET (1 .. MaxNode)}
    BY <1>9, <1>11
  <2> QED
    BY <1>1, <1>6, <1>9, <1>10, <1>11, <1>13, <1>14, <2>1, NoJournalTyped DEF Typed
<1>18. Linear'
  BY <1>7, <1>8 DEF Linear
<1>19. Published(Base)'
  <2>1. DOMAIN instances' = InstancesOf(order)
    BY <1>9
  <2> DEFINE o == order'
  <2>2. /\ mounted' = RootsOf(o, DOMAIN o.children)
        /\ DOMAIN instances' = InstancesOf(o)
        /\ RootsOf(o, DOMAIN o.children \intersect Modal) = {dialog'} \ {None}
    <3>1. /\ DOMAIN o.children = D /\ InstancesOf(o) = InstancesOf(order)
          /\ \A E : RootsOf(o, E) = RootsOf(order, E)
      BY <1>6 DEF RootsOf, InstancesOf
    <3> QED
      BY <1>9, <1>10, <2>1, <3>1
  <2>3. /\ \A k \in DOMAIN o.children :
             /\ instances'[o.children[k].instance] = o.children[k].root
             /\ o.children[k].root <= maxNode' /\ o.children[k].instance <= maxInstance'
        /\ \A k, l \in DOMAIN o.children : o.children[k].root = o.children[l].root => k = l
    BY <1>6, <1>9, <1>15, <1>16
  <2> QED
    BY <1>8, <2>2, <2>3 DEF Published
<1>20. Staged(Base)'
  BY <1>1, <1>8 DEF Staged, RowStays
<1>21. ASSUME NEW k \in D
       PROVE  \/ order.children[k].instance > maxInstance
              \/ k \in DOMAIN b.children /\ b.children[k].instance = order.children[k].instance
  <2>1. CASE k \in Brought
    BY <1>2, <2>1, FragmentFields DEF Staged, Brought
  <2>2. CASE k \notin Brought
    BY <1>4, <2>2 DEF RowStays
  <2> QED
    BY <2>1, <2>2
<1> QED
  BY <1>3, <1>6, <1>7, <1>8, <1>17, <1>18, <1>19, <1>20, <1>21 DEF OrderInv, b

\* A row that renders itself again takes a new node and keeps its instance.
LEMMA ReplaceItemKeeps ==
    ASSUME OrderInv, NEW k \in Keys, NEW root \in 1 .. MaxNode, ReplaceItem(k, root)
    PROVE  /\ OrderInv' /\ ~ Open /\ ~ Open' /\ Base = order /\ Base' = order'
           /\ k \in DOMAIN order.children /\ order' = ReplaceChild(order, k, root)
           /\ maxInstance' = maxInstance
<1> DEFINE D == DOMAIN order.children
           old == order.children[k]
<1>1. /\ ~ Open /\ k \in D /\ root > maxNode
      /\ order' = ReplaceChild(order, k, root)
      /\ mounted' = (mounted \ {old.root}) \union {root}
      /\ instances' = [instances EXCEPT ![old.instance] = root]
      /\ dialog' = IF dialog = old.root THEN root ELSE dialog
      /\ maxNode' = root /\ keyed' = keyed /\ maxInstance' = maxInstance
      /\ journal' = journal /\ proposed' = proposed /\ fragments' = fragments
  BY DEF ReplaceItem, Has
<1>2. /\ order \in Order /\ Typed /\ Base = order
      /\ Published(order) /\ Staged(order) /\ maxNode \in 0 .. MaxNode
  BY <1>1 DEF OrderInv, Typed, Base
<1>3. PICK s : Lists(order, s)
  BY DEF OrderInv, Linear
<1>4. /\ order' \in Order /\ Lists(order', s)
      /\ order'.children[k].root = root /\ order'.children[k].instance = old.instance
      /\ \A x \in D \ {k} : order'.children[x] = order.children[x]
  BY <1>1, <1>2, <1>3, ReplaceLists
<1>5. DOMAIN order'.children = D
  BY <1>3, <1>4 DEF Lists
<1>6. ~ Open' /\ Base' = order'
  BY <1>1 DEF Open, Base
<1>7. \A x \in D : order.children[x] \in Child
  BY <1>2 DEF Order
<1>8. /\ mounted = {order.children[x].root : x \in D}
      /\ DOMAIN instances = {order.children[x].instance : x \in D}
      /\ \A x \in D : /\ instances[order.children[x].instance] = order.children[x].root
                      /\ order.children[x].root <= maxNode
                      /\ order.children[x].instance <= maxInstance
      /\ \A x, y \in D : order.children[x].root = order.children[y].root => x = y
      /\ {order.children[x].root : x \in D \intersect Modal} = {dialog} \ {None}
  BY <1>2 DEF Published, RootsOf, InstancesOf
<1>9. \A x \in D : order.children[x].root # root /\ order.children[x].root \in 1 .. MaxNode
  BY <1>1, <1>2, <1>7, <1>8 DEF Child
<1>10. /\ \A x \in D : order'.children[x].root = IF x = k THEN root ELSE order.children[x].root
       /\ \A x \in D : order'.children[x].instance = order.children[x].instance
  BY <1>4
<1> HIDE DEF old
<1>11. mounted' = RootsOf(order', D)
  <2>1. mounted' = {order.children[x].root : x \in D \ {k}} \union {root}
    BY <1>1, <1>8 DEF old
  <2>2. {order.children[x].root : x \in D \ {k}} = {order'.children[x].root : x \in D \ {k}}
    BY <1>10
  <2>3. RootsOf(order', D) = {order'.children[x].root : x \in D \ {k}} \union {order'.children[k].root}
    BY <1>1 DEF RootsOf
  <2> QED
    BY <1>4, <2>1, <2>2, <2>3
<1>12. DOMAIN instances' = InstancesOf(order')
  <2>1. DOMAIN instances' = DOMAIN instances
    BY <1>1
  <2> QED
    BY <1>5, <1>8, <1>10, <2>1 DEF InstancesOf
<1>13. \A x \in D : instances'[order'.children[x].instance] = order'.children[x].root
  <2> SUFFICES ASSUME NEW x \in D
               PROVE  instances'[order'.children[x].instance] = order'.children[x].root
    OBVIOUS
  <2>1. order.children[x].instance \in DOMAIN instances /\ old.instance \in DOMAIN instances
    BY <1>1, <1>8 DEF old
  <2>2. CASE x = k
    BY <1>1, <1>4, <1>10, <2>1, <2>2
  <2>3. CASE x # k
    <3>1. order.children[x].instance # old.instance
      BY <1>1, <1>8, <2>3 DEF old
    <3> QED
      BY <1>1, <1>8, <1>10, <2>1, <2>3, <3>1
  <2> QED
    BY <2>2, <2>3
<1>14. /\ \A x \in D : order'.children[x].root <= maxNode' /\ order'.children[x].instance <= maxInstance'
       /\ \A x, y \in D : order'.children[x].root = order'.children[y].root => x = y
  <2>1. \A x \in D : order.children[x].root <= root
    <3> SUFFICES ASSUME NEW x \in D PROVE order.children[x].root <= root
      OBVIOUS
    <3>1. order.children[x].root \in Int /\ order.children[x].root <= maxNode /\ maxNode \in Int
      BY <1>2, <1>7, <1>8 DEF Child
    <3> QED
      BY <1>1, <3>1
  <2> QED
    BY <1>1, <1>8, <1>9, <1>10, <2>1
<1>15. RootsOf(order', D \intersect Modal) = {dialog'} \ {None}
  <2>1. root # None
    BY NoneAssumption
  <2>2. CASE dialog = old.root
    <3>1. k \in Modal
      <4>1. old.root # None
        BY <1>1, <1>9, NoneAssumption DEF old
      <4>2. PICK x \in D \intersect Modal : order.children[x].root = dialog
        <5>1. dialog \in {order.children[x].root : x \in D \intersect Modal}
          BY <1>8, <2>2, <4>1
        <5> QED
          BY <5>1
      <4> QED
        BY <1>1, <1>8, <2>2, <4>2 DEF old
    <3>2. D \intersect Modal = {k}
      <4>1. ASSUME NEW x \in D \intersect Modal PROVE x = k
        <5>1. order.children[x].root = dialog
          BY <1>8
        <5> QED
          BY <1>1, <1>8, <2>2, <5>1 DEF old
      <4> QED
        BY <1>1, <3>1, <4>1
    <3> QED
      BY <1>1, <1>10, <2>1, <2>2, <3>2 DEF RootsOf
  <2>3. CASE dialog # old.root
    <3>1. k \notin Modal
      BY <1>1, <1>8, <2>3 DEF old
    <3>2. {order'.children[x].root : x \in D \intersect Modal} = {order.children[x].root : x \in D \intersect Modal}
      BY <1>10, <3>1
    <3> QED
      BY <1>1, <1>8, <2>3, <3>2 DEF RootsOf
  <2> QED
    BY <2>2, <2>3
<1>16. Typed'
  <2>1. mounted' \in SUBSET (1 .. MaxNode)
    BY <1>1, <1>2 DEF Typed
  <2>2. instances' \in UNION {[E -> 1 .. MaxNode] : E \in SUBSET (1 .. MaxNode)}
    <3>1. instances' \in [DOMAIN instances -> 1 .. MaxNode] /\ DOMAIN instances \in SUBSET (1 .. MaxNode)
      BY <1>1, <1>2 DEF Typed
    <3> QED
      BY <3>1
  <2>3. root \in 0 .. MaxNode
    OBVIOUS
  <2> QED
    BY <1>1, <1>2, <1>4, <2>1, <2>2, <2>3 DEF Typed
<1>17. Linear'
  BY <1>4, <1>6 DEF Linear
<1>18. Published(Base)'
  BY <1>5, <1>6, <1>11, <1>12, <1>13, <1>14, <1>15 DEF Published
<1>19. Staged(Base)'
  BY <1>1, <1>2, <1>6 DEF Staged, RowStays
<1> QED
  BY <1>1, <1>2, <1>6, <1>16, <1>17, <1>18, <1>19 DEF OrderInv

-----------------------------------------------------------------------------
(* The theorems.                                                           *)

LEMMA StutterKeeps ==
    ASSUME OrderInv, UNCHANGED vars
    PROVE  OrderInv' /\ Base' = Base /\ order' = order /\ proposed' = proposed
           /\ maxInstance' = maxInstance
<1>1. /\ order' = order /\ journal' = journal /\ proposed' = proposed /\ fragments' = fragments
      /\ keyed' = keyed /\ mounted' = mounted /\ instances' = instances /\ dialog' = dialog
      /\ maxNode' = maxNode /\ maxInstance' = maxInstance
  BY DEF vars, graphVars, txnVars
<1>2. Base' = Base /\ (Open' <=> Open)
  BY <1>1 DEF Base, Open
<1>3. Typed'
  BY <1>1 DEF OrderInv, Typed
<1>4. Linear'
  BY <1>1, <1>2 DEF OrderInv, Linear
<1>5. Published(Base)'
  BY <1>1, <1>2 DEF OrderInv, Published
<1>6. Staged(Base)'
  BY <1>1, <1>2 DEF OrderInv, Staged, RowStays, FragmentOf
<1> QED
  BY <1>1, <1>2, <1>3, <1>4, <1>5, <1>6 DEF OrderInv

\* The ways a step of the graph can go, with the sets its inputs are from.
Edits(k) ==
    \/ Remove(k) /\ k \in DOMAIN order.children
    \/ \E before \in Link : Move(k, before) /\ AcceptsMove(k, before)
    \/ \E root \in 1 .. MaxNode, instance \in 1 .. MaxNode :
        \/ Set(k, root, instance) /\ AcceptsSet(k, root, instance)
        \/ \E before \in Link : Insert(k, before, root, instance)
                                /\ AcceptsInsert(k, before, root, instance)

LEMMA StepCases ==
    ASSUME OrderInv, [Next]_vars
    PROVE  \/ \E base, new \in 0 .. MaxRevision : Begin(base, new)
           \/ Open /\ Reject
           \/ Open /\ \E k \in Keys : Edits(k)
           \/ Open /\ Commit /\ Mountable
           \/ \E k \in Keys, root \in 1 .. MaxNode : ReplaceItem(k, root)
           \/ UNCHANGED vars
<1>1. ASSUME NEW k \in Keys, Remove(k)
      PROVE  Open /\ (Reject \/ Edits(k))
  BY <1>1 DEF Remove, Edits, Has
<1>2. ASSUME NEW k \in Keys, NEW before \in Link, Move(k, before)
      PROVE  Open /\ (Reject \/ Edits(k))
  <2>1. CASE AcceptsMove(k, before)
    BY <1>2, <2>1 DEF Edits, Move
  <2>2. CASE ~ AcceptsMove(k, before)
    BY <1>2, <2>2 DEF Move
  <2> QED
    BY <2>1, <2>2
<1>3. ASSUME NEW k \in Keys, NEW before \in Link, NEW root \in 1 .. MaxNode,
             NEW instance \in 1 .. MaxNode, Insert(k, before, root, instance)
      PROVE  Open /\ (Reject \/ Edits(k))
  <2>1. CASE AcceptsInsert(k, before, root, instance)
    BY <1>3, <2>1 DEF Edits, Insert
  <2>2. CASE ~ AcceptsInsert(k, before, root, instance)
    BY <1>3, <2>2 DEF Insert
  <2> QED
    BY <2>1, <2>2
<1>4. ASSUME NEW k \in Keys, NEW root \in 1 .. MaxNode,
             NEW instance \in 1 .. MaxNode, Set(k, root, instance)
      PROVE  Open /\ (Reject \/ Edits(k))
  <2>1. CASE AcceptsSet(k, root, instance)
    BY <1>4, <2>1 DEF Edits, Set
  <2>2. CASE ~ AcceptsSet(k, root, instance)
    BY <1>4, <2>2 DEF Set
  <2> QED
    BY <2>1, <2>2
<1>5. Roots \subseteq 1 .. MaxNode /\ InsertInstances \subseteq 1 .. MaxNode
  BY DEF Roots, InsertInstances
<1>6. \A k \in DOMAIN order.children : order.children[k].instance \in 1 .. MaxNode
  <2>1. \A k \in DOMAIN order.children : order.children[k] \in Child
    BY DEF OrderInv, Typed, Order
  <2> QED
    BY <2>1 DEF Child
<1>7. CASE Commit
  BY <1>7 DEF Commit
<1>8. ASSUME NEW k \in Keys, Has(order, k), NEW root \in Roots, Set(k, root, order.children[k].instance)
      PROVE  Open /\ (Reject \/ Edits(k))
  BY <1>4, <1>5, <1>6, <1>8 DEF Has
<1> QED
  BY <1>1, <1>2, <1>3, <1>4, <1>5, <1>7, <1>8 DEF Next

LEMMA StepKeeps ==
    ASSUME OrderInv, [Next]_vars
    PROVE  OrderInv'
<1>1. ASSUME NEW base \in 0 .. MaxRevision, NEW new \in 0 .. MaxRevision, Begin(base, new)
      PROVE  OrderInv'
  BY <1>1, BeginKeeps
<1>2. CASE Open /\ Reject
  BY <1>2, RejectKeeps
<1>3. ASSUME Open, NEW k \in Keys, Edits(k) PROVE OrderInv'
  BY <1>3, RemoveKeeps, MoveKeeps, SetKeeps, InsertKeeps DEF Edits
<1>4. CASE Open /\ Commit /\ Mountable
  BY <1>4, CommitKeeps
<1>5. ASSUME NEW k \in Keys, NEW root \in 1 .. MaxNode, ReplaceItem(k, root) PROVE OrderInv'
  BY <1>5, ReplaceItemKeeps
<1>6. CASE UNCHANGED vars
  BY <1>6, StutterKeeps
<1> QED
  BY <1>1, <1>2, <1>3, <1>4, <1>5, <1>6, StepCases

\* Between any two steps: the links are linear, those a rollback would restore
\* too; what is published agrees with the nodes; what is staged is new.
THEOREM OrderInductive == Spec => []OrderInv
<1>1. OrderInv /\ [Next]_vars => OrderInv'
  BY StepKeeps
<1> QED
  BY <1>1, InitInv, PTL DEF Spec

\* Linear links, seen with the iterators.
LEMMA OneListOf == OrderInv => OneList
<1> SUFFICES ASSUME OrderInv PROVE OneList
  OBVIOUS
<1>1. PICK s : Lists(order, s)
  BY DEF OrderInv, Linear
<1> DEFINE n == Len(s)
<1>2. /\ s \in Seq(Keys) /\ n \in Nat /\ DOMAIN s = 1 .. n /\ Once(s) /\ Linking(order, s)
      /\ DOMAIN order.children = Met(s) /\ \A i \in 1 .. n : s[i] \in Keys /\ s[i] # None
  BY <1>1, LenProperties, ElementOfSeq, NoneAssumption DEF Lists
<1>3. Cardinality(DOMAIN order.children) = n
  BY <1>1, ListedCount
<1>4. Iter(order) = s /\ \A i \in 1 .. n : IterBack(order)[i] = s[n + 1 - i]
  BY <1>1, IterLists, IterBackLists
<1>5. /\ {Iter(order)[i] : i \in 1 .. n} = DOMAIN order.children
      /\ \A i \in 1 .. n : IterBack(order)[i] = Iter(order)[n + 1 - i]
  BY <1>2, <1>4 DEF Met
<1>6. LinksAgree
  <2>1. ASSUME NEW k \in DOMAIN order.children
        PROVE  /\ IF order.children[k].next = None THEN order.tail = k
                  ELSE /\ Has(order, order.children[k].next)
                       /\ order.children[order.children[k].next].previous = k
               /\ IF order.children[k].previous = None THEN order.head = k
                  ELSE /\ Has(order, order.children[k].previous)
                       /\ order.children[order.children[k].previous].next = k
    <3>1. PICK i \in 1 .. n : k = s[i]
      BY <1>2 DEF Met
    <3>2. order.children[k].next = At(s, i + 1) /\ order.children[k].previous = At(s, i - 1)
      BY <1>2, <3>1 DEF Linking
    <3>3. i \in 1 .. n /\ n \in Nat /\ DOMAIN order.children = Met(s) /\ k # None
          /\ k \in DOMAIN order.children
      BY <1>2, <3>1
    <3>4. order.children[k].next = None => order.tail = k
      <4>1. SUFFICES ASSUME order.children[k].next = None PROVE i = n
        BY <1>2, <3>1, <3>3 DEF Linking, At
      <4>2. i + 1 \in 1 .. n => At(s, i + 1) # None
        BY <1>2 DEF At
      <4>3. i + 1 \notin 1 .. n
        BY <3>2, <4>1, <4>2
      <4> HIDE DEF n
      <4> QED
        BY <3>3, <4>3
    <3>5. order.children[k].next # None =>
              /\ Has(order, order.children[k].next)
              /\ order.children[order.children[k].next].previous = k
      <4>1. SUFFICES ASSUME order.children[k].next # None
                     PROVE  /\ Has(order, order.children[k].next)
                            /\ order.children[order.children[k].next].previous = k
        OBVIOUS
      <4>2. i + 1 \in 1 .. n /\ order.children[k].next = s[i + 1]
        BY <3>2, <4>1 DEF At
      <4>3. s[i + 1] \in DOMAIN order.children
        BY <3>3, <4>2 DEF Met
      <4>4. order.children[s[i + 1]].previous = At(s, (i + 1) - 1)
        BY <1>2, <4>2 DEF Linking
      <4>5. (i + 1) - 1 = i
        BY <3>3
      <4>6. At(s, i) = k
        BY <3>1, <3>3 DEF At
      <4> QED
        BY <4>2, <4>3, <4>4, <4>5, <4>6 DEF Has
    <3>6. order.children[k].previous = None => order.head = k
      <4>1. SUFFICES ASSUME order.children[k].previous = None PROVE i = 1
        BY <1>2, <3>1, <3>3 DEF Linking, At
      <4>2. i - 1 \in 1 .. n => At(s, i - 1) # None
        BY <1>2 DEF At
      <4>3. i - 1 \notin 1 .. n
        BY <3>2, <4>1, <4>2
      <4> HIDE DEF n
      <4> QED
        BY <3>3, <4>3
    <3>7. order.children[k].previous # None =>
              /\ Has(order, order.children[k].previous)
              /\ order.children[order.children[k].previous].next = k
      <4>1. SUFFICES ASSUME order.children[k].previous # None
                     PROVE  /\ Has(order, order.children[k].previous)
                            /\ order.children[order.children[k].previous].next = k
        OBVIOUS
      <4>2. i - 1 \in 1 .. n /\ order.children[k].previous = s[i - 1]
        BY <3>2, <4>1 DEF At
      <4>3. s[i - 1] \in DOMAIN order.children
        BY <3>3, <4>2 DEF Met
      <4>4. order.children[s[i - 1]].next = At(s, (i - 1) + 1)
        BY <1>2, <4>2 DEF Linking
      <4>5. (i - 1) + 1 = i
        BY <3>3
      <4>6. At(s, i) = k
        BY <3>1, <3>3 DEF At
      <4> QED
        BY <4>2, <4>3, <4>4, <4>5, <4>6 DEF Has
    <3> QED
      BY <3>4, <3>5, <3>6, <3>7
  <2>2. /\ order.head = None <=> DOMAIN order.children = {}
        /\ order.tail = None <=> DOMAIN order.children = {}
    <3>1. CASE n = 0
      BY <1>2, <3>1 DEF Linking, At, Met
    <3>2. CASE n # 0
      <4>1. 1 \in 1 .. n /\ n \in 1 .. n
        BY <1>2, <3>2
      <4>2. order.head = s[1] /\ order.tail = s[n] /\ s[1] \in DOMAIN order.children
        BY <1>2, <4>1 DEF Linking, At, Met
      <4> QED
        BY <1>2, <4>1, <4>2
    <3> QED
      BY <3>1, <3>2
  <2> QED
    BY <2>1, <2>2 DEF LinksAgree
<1>7. TypeOK
  <2>1. Typed
    BY DEF OrderInv
  <2>2. /\ order.head \in Link /\ order.tail \in Link /\ order.revision \in 0 .. MaxRevision
        /\ DOMAIN order.children \subseteq Keys
        /\ \A k \in DOMAIN order.children : order.children[k] \in Child
    BY <2>1 DEF Typed, Order, Revision
  <2>3. /\ DOMAIN journal.originals \subseteq Keys
        /\ \A k \in DOMAIN journal.originals : journal.originals[k] \in Child \union {None}
    BY <2>1 DEF Typed, Journal
  <2>4. DOMAIN instances \subseteq 1 .. MaxNode
    BY <2>1 DEF Typed
  <2> QED
    BY <2>1, <2>2, <2>3, <2>4 DEF Typed, TypeOK
<1> QED
  BY <1>3, <1>5, <1>6, <1>7 DEF OneList

\* KeyedChildIter runs along one list, in both directions, after any operation
\* of any transaction and after any rollback.
THEOREM OneListHolds == Spec => []OneList
BY OrderInductive, OneListOf, PTL

\* Whatever a transaction did twice or undid, the rows it publishes are what is
\* mounted, under their instances, and one at most holds the dialog.
THEOREM GraphAgreesHolds == Spec => []GraphAgrees
<1>1. OrderInv => GraphAgrees
  <2> SUFFICES ASSUME OrderInv, ~ Open PROVE GraphAgrees
    BY DEF GraphAgrees
  <2>1. Published(order)
    BY DEF OrderInv, Base
  <2> QED
    BY <2>1 DEF Published, GraphAgrees, RootsOf, InstancesOf
<1> QED
  BY <1>1, OrderInductive, PTL

\* An instance that a step publishes is the one its key had or one the graph has
\* never seen.
THEOREM NoResurrectionHolds == Spec => NoResurrection
<1> DEFINE A == proposed' = None => \A k \in DOMAIN order'.children :
                  LET instance == order'.children[k].instance
                  IN  \/ instance > maxInstance
                      \/ Has(Base, k) /\ Base.children[k].instance = instance
<1>1. ASSUME OrderInv, [Next]_vars PROVE [A]_vars
  <2>1. SUFFICES ASSUME proposed' = None, NEW k \in DOMAIN order'.children, ~ UNCHANGED vars
        PROVE  \/ order'.children[k].instance > maxInstance
               \/ k \in DOMAIN Base.children
                  /\ Base.children[k].instance = order'.children[k].instance
    BY DEF Has
  <2>2. ~ Open'
    BY <2>1 DEF Open
  <2>3. ASSUME NEW base \in 0 .. MaxRevision, NEW new \in 0 .. MaxRevision, Begin(base, new)
        PROVE  FALSE
    BY <1>1, <2>2, <2>3, BeginKeeps
  <2>4. ASSUME Open, NEW x \in Keys, Edits(x) PROVE FALSE
    BY <1>1, <2>2, <2>4, RemoveKeeps, MoveKeeps, SetKeeps, InsertKeeps DEF Edits
  <2>5. CASE Open /\ Reject
    BY <1>1, <2>1, <2>5, RejectKeeps
  <2>6. CASE Open /\ Commit /\ Mountable
    BY <1>1, <2>1, <2>6, CommitKeeps
  <2>7. ASSUME NEW x \in Keys, NEW root \in 1 .. MaxNode, ReplaceItem(x, root)
        PROVE  k \in DOMAIN Base.children
               /\ Base.children[k].instance = order'.children[k].instance
    <3>1. /\ Base = order /\ x \in DOMAIN order.children /\ order' = ReplaceChild(order, x, root)
      BY <1>1, <2>7, ReplaceItemKeeps
    <3>2. PICK s : Lists(order, s)
      BY <1>1 DEF OrderInv, Linear
    <3>3. order \in Order
      BY <1>1 DEF OrderInv, Typed
    <3>4. /\ Lists(order', s)
          /\ order'.children[x].instance = order.children[x].instance
          /\ \A y \in DOMAIN order.children \ {x} : order'.children[y] = order.children[y]
      BY <3>1, <3>2, <3>3, ReplaceLists
    <3> QED
      BY <2>1, <3>1, <3>2, <3>4 DEF Lists
  <2> QED
    BY <1>1, <2>1, <2>3, <2>4, <2>5, <2>6, <2>7, StepCases
<1> QED
  BY <1>1, OrderInductive, PTL DEF Spec, NoResurrection

-----------------------------------------------------------------------------
(* The refinement: the rows an order lists, as KeyedList edits them.       *)

RowType == [key : Keys, root : 1 .. MaxNode, instance : 1 .. MaxNode]
RowAt(o, k) == [key |-> k, root |-> o.children[k].root, instance |-> o.children[k].instance]
ListedRows(o, s) == [i \in 1 .. Len(s) |-> RowAt(o, s[i])]

\* A row taken out with SequencesExt leaves the sequence without its place.
LEMMA CutRemoves ==
    ASSUME NEW S, NEW s \in Seq(S), NEW p \in 1 .. Len(s)
    PROVE  List!RemoveAt(s, p) = Cut(s, p)
<1> DEFINE n == Len(s)
           a == SubSeq(s, 1, p - 1)
           b == SubSeq(s, p + 1, n)
<1>1. n \in Nat /\ p \in Int /\ 1 <= p /\ p <= n /\ \A i \in 1 .. n : s[i] \in S
  BY LenProperties, ElementOfSeq
<1>2. a \in Seq(S) /\ Len(a) = p - 1 /\ \A i \in 1 .. (p - 1) : a[i] = s[i]
  <2>1. /\ p - 1 \in Int /\ 1 \in Int /\ (p - 1) - 1 + 1 = p - 1
        /\ (1 <= p - 1 => (p - 1) - 1 + 1 = p - 1) /\ (~ (1 <= p - 1) => p - 1 = 0)
        /\ \A i \in 1 .. (p - 1) : i \in 1 .. n /\ 1 + i - 1 = i
    BY <1>1
  <2> HIDE DEF n
  <2> QED
    BY <1>1, <2>1, SubSeqProperties
<1>3. b \in Seq(S) /\ Len(b) = n - p /\ \A i \in 1 .. (n - p) : b[i] = s[p + i]
  <2>1. /\ p + 1 \in Int /\ n \in Int /\ n - (p + 1) + 1 = n - p
        /\ (~ (p + 1 <= n) => n - p = 0)
        /\ \A i \in (p + 1) .. n : i \in 1 .. n
        /\ \A i \in 1 .. (n - p) : (p + 1) + i - 1 = p + i
    BY <1>1
  <2> HIDE DEF n
  <2> QED
    BY <1>1, <2>1, SubSeqProperties
<1> HIDE DEF a, b
<1> DEFINE c == a \o b
<1>4. /\ c \in Seq(S) /\ Len(c) = Len(a) + Len(b)
      /\ \A i \in 1 .. Len(a) + Len(b) : c[i] = IF i <= Len(a) THEN a[i] ELSE b[i - Len(a)]
  BY <1>2, <1>3, ConcatProperties
<1> HIDE DEF c
<1>5. Len(a) + Len(b) = n - 1 /\ n - 1 \in Nat
  <2> HIDE DEF n
  <2> QED
    BY <1>1, <1>2, <1>3
<1>6. ASSUME NEW i \in 1 .. (n - 1)
      PROVE  c[i] = IF i < p THEN s[i] ELSE s[i + 1]
  <2> HIDE DEF n
  <2>1. CASE i < p
    <3>1. i <= p - 1 /\ i \in 1 .. (p - 1)
      BY <1>1, <2>1
    <3> QED
      BY <1>2, <1>4, <1>5, <2>1, <3>1
  <2>2. CASE ~ (i < p)
    <3>1. ~ (i <= p - 1) /\ i - (p - 1) \in 1 .. (n - p) /\ p + (i - (p - 1)) = i + 1
      BY <1>1, <2>2
    <3>2. c[i] = b[i - (p - 1)]
      BY <1>2, <1>4, <1>5, <3>1
    <3> QED
      BY <1>3, <2>2, <3>1, <3>2
  <2> QED
    BY <2>1, <2>2
<1>7. c = [i \in 1 .. (n - 1) |-> c[i]]
  BY <1>4, <1>5, LenProperties
<1>8. c = Cut(s, p)
  BY <1>6, <1>7 DEF Cut
<1> QED
  BY <1>8 DEF c, a, b, List!RemoveAt

\* A row put in with SequencesExt stands at the place it was put.
LEMMA PutInserts ==
    ASSUME NEW S, NEW s \in Seq(S), NEW q \in 1 .. Len(s), NEW e \in S
    PROVE  List!InsertAt(s, q, e) = Put(s, q, e)
<1> DEFINE n == Len(s)
           a == SubSeq(s, 1, q - 1)
           m == <<e>>
           b == SubSeq(s, q, n)
<1>1. n \in Nat /\ q \in Int /\ 1 <= q /\ q <= n /\ \A i \in 1 .. n : s[i] \in S
  BY LenProperties, ElementOfSeq
<1>2. a \in Seq(S) /\ Len(a) = q - 1 /\ \A i \in 1 .. (q - 1) : a[i] = s[i]
  <2>1. /\ q - 1 \in Int /\ 1 \in Int /\ (q - 1) - 1 + 1 = q - 1
        /\ (~ (1 <= q - 1) => q - 1 = 0)
        /\ \A i \in 1 .. (q - 1) : i \in 1 .. n /\ 1 + i - 1 = i
    BY <1>1
  <2> HIDE DEF n
  <2> QED
    BY <1>1, <2>1, SubSeqProperties
<1>3. b \in Seq(S) /\ Len(b) = n - q + 1 /\ \A i \in 1 .. (n - q + 1) : b[i] = s[q + i - 1]
  <2>1. /\ n \in Int /\ \A i \in q .. n : i \in 1 .. n
    BY <1>1
  <2> HIDE DEF n
  <2> QED
    BY <1>1, <2>1, SubSeqProperties
<1>4. m \in Seq(S) /\ Len(m) = 1 /\ m[1] = e
  OBVIOUS
<1> HIDE DEF a, b, m
<1> DEFINE d == a \o m
           c == d \o b
<1>5. /\ d \in Seq(S) /\ Len(d) = Len(a) + Len(m)
      /\ \A i \in 1 .. Len(a) + Len(m) : d[i] = IF i <= Len(a) THEN a[i] ELSE m[i - Len(a)]
  BY <1>2, <1>4, ConcatProperties
<1> HIDE DEF d
<1>6. /\ c \in Seq(S) /\ Len(c) = Len(d) + Len(b)
      /\ \A i \in 1 .. Len(d) + Len(b) : c[i] = IF i <= Len(d) THEN d[i] ELSE b[i - Len(d)]
  <2>1. d \in Seq(S) /\ b \in Seq(S)
    BY <1>3, <1>5
  <2> QED
    BY <2>1, ConcatProperties
<1> HIDE DEF c
<1>7. Len(a) = q - 1 /\ Len(d) = q /\ Len(d) + Len(b) = n + 1 /\ n + 1 \in Nat
  <2> HIDE DEF n
  <2> QED
    BY <1>1, <1>2, <1>3, <1>4, <1>5
<1>8. ASSUME NEW i \in 1 .. (n + 1)
      PROVE  c[i] = IF i < q THEN s[i] ELSE IF i = q THEN e ELSE s[i - 1]
  <2> HIDE DEF n
  <2>1. CASE i < q
    <3>1. i <= q /\ i <= q - 1 /\ i \in 1 .. (q - 1) /\ i \in 1 .. Len(a) + Len(m)
      BY <1>1, <1>2, <1>4, <2>1
    <3>2. c[i] = d[i] /\ d[i] = a[i]
      BY <1>5, <1>6, <1>7, <3>1
    <3> QED
      BY <1>2, <2>1, <3>1, <3>2
  <2>2. CASE i = q
    <3>1. i <= q /\ ~ (i <= q - 1) /\ i \in 1 .. Len(a) + Len(m) /\ i - (q - 1) = 1
          /\ ~ (i < q)
      BY <1>1, <1>2, <1>4, <2>2
    <3>2. c[i] = d[i] /\ d[i] = m[i - (q - 1)]
      BY <1>5, <1>6, <1>7, <3>1
    <3> QED
      BY <1>4, <2>2, <3>1, <3>2
  <2>3. CASE i > q
    <3>1. ~ (i <= q) /\ i - q \in 1 .. (n - q + 1) /\ q + (i - q) - 1 = i - 1 /\ ~ (i < q) /\ i # q
      BY <1>1, <2>3
    <3>2. c[i] = b[i - q]
      BY <1>6, <1>7, <3>1
    <3> QED
      BY <1>3, <3>1, <3>2
  <2>4. i < q \/ i = q \/ i > q
    BY <1>1
  <2> QED
    BY <2>1, <2>2, <2>3, <2>4
<1>9. c = [i \in 1 .. (n + 1) |-> c[i]]
  BY <1>6, <1>7, LenProperties
<1>10. c = Put(s, q, e)
  BY <1>8, <1>9 DEF Put
<1> QED
  BY <1>10 DEF c, d, a, b, m, List!InsertAt

LEMMA PutAppends ==
    ASSUME NEW S, NEW s \in Seq(S), NEW e \in S
    PROVE  Append(s, e) = Put(s, Len(s) + 1, e)
<1> DEFINE c == Append(s, e)
           n == Len(s)
<1>1. n \in Nat /\ c \in Seq(S) /\ Len(c) = n + 1 /\ c[n + 1] = e
      /\ \A i \in 1 .. n : c[i] = s[i]
  BY LenProperties
<1> HIDE DEF c
<1>2. c = [i \in 1 .. (n + 1) |-> c[i]]
  BY <1>1, LenProperties
<1>3. ASSUME NEW i \in 1 .. (n + 1)
      PROVE  c[i] = IF i < n + 1 THEN s[i] ELSE IF i = n + 1 THEN e ELSE s[i - 1]
  <2> HIDE DEF n
  <2>1. i < n + 1 => i \in 1 .. n
    BY <1>1
  <2>2. i < n + 1 \/ i = n + 1
    BY <1>1
  <2>3. ~ (n + 1 < n + 1)
    BY <1>1
  <2> QED
    BY <1>1, <2>1, <2>2, <2>3
<1>4. c = Put(s, n + 1, e)
  BY <1>2, <1>3 DEF Put
<1> QED
  BY <1>4 DEF c

\* The rows an order lists are those of the keys its links represent.
LEMMA RowsListed ==
    ASSUME NEW o \in Order, NEW s, Lists(o, s)
    PROVE  /\ RowsOf(o) = ListedRows(o, s)
           /\ ListedRows(o, s) \in Seq(RowType) /\ Len(ListedRows(o, s)) = Len(s)
           /\ DOMAIN ListedRows(o, s) = 1 .. Len(s)
           /\ \A i \in 1 .. Len(s) : ListedRows(o, s)[i] = RowAt(o, s[i]) /\ ListedRows(o, s)[i].key = s[i]
<1> DEFINE n == Len(s)
<1>1. /\ n \in Nat /\ DOMAIN s = 1 .. n /\ DOMAIN o.children = Met(s)
      /\ s \in [1 .. n -> Keys]
      /\ \A i \in 1 .. n : s[i] \in DOMAIN o.children /\ s[i] \in Keys
  <2>1. s \in Seq(Keys) /\ DOMAIN o.children = Met(s)
    BY DEF Lists
  <2> QED
    BY <2>1, LenProperties, ElementOfSeq DEF Met
<1>2. Iter(o) = s
  BY IterLists
<1>3. RowsOf(o) = ListedRows(o, s)
  BY <1>1, <1>2 DEF RowsOf, ListedRows, RowAt, Has
<1>4. \A i \in 1 .. n : o.children[s[i]] \in Child
  BY <1>1 DEF Order
<1>5. \A i \in 1 .. n : RowAt(o, s[i]) \in RowType
  BY <1>1, <1>4 DEF RowAt, RowType, Child
<1>6. /\ ListedRows(o, s) \in Seq(RowType) /\ Len(ListedRows(o, s)) = n /\ DOMAIN ListedRows(o, s) = 1 .. n
      /\ \A i \in 1 .. n : ListedRows(o, s)[i] = RowAt(o, s[i])
  <2> DEFINE r == ListedRows(o, s)
  <2>1. r \in [1 .. n -> RowType] /\ \A i \in 1 .. n : r[i] = RowAt(o, s[i])
    BY <1>5 DEF ListedRows
  <2> HIDE DEF r, n
  <2>2. r \in Seq(RowType) /\ Len(r) = n
    BY <1>1, <2>1
  <2> QED
    BY <2>1, <2>2 DEF r
<1> QED
  BY <1>3, <1>6 DEF RowAt

\* The row of a key stands where the key does.
LEMMA RowIndex ==
    ASSUME NEW o \in Order, NEW s, Lists(o, s), NEW p \in 1 .. Len(s)
    PROVE  List!IndexOf(ListedRows(o, s), s[p]) = p
<1> DEFINE r == ListedRows(o, s)
<1>1. DOMAIN r = 1 .. Len(s) /\ \A i \in 1 .. Len(s) : r[i].key = s[i]
  BY RowsListed
<1>2. \A i, j \in 1 .. Len(s) : s[i] = s[j] => i = j
  BY LenProperties DEF Lists, Once
<1> HIDE DEF r
<1>3. \A i \in DOMAIN r : r[i].key = s[p] <=> i = p
  BY <1>1, <1>2
<1>4. List!IndexOf(r, s[p]) = p
  BY <1>1, <1>3 DEF List!IndexOf
<1> QED
  BY <1>4 DEF r

LEMMA RowKeys ==
    ASSUME NEW o \in Order, NEW s, Lists(o, s)
    PROVE  List!KeysOf(ListedRows(o, s)) = DOMAIN o.children /\ List!KeysOf(ListedRows(o, s)) = Met(s)
<1> DEFINE r == ListedRows(o, s)
<1>1. DOMAIN r = 1 .. Len(s) /\ \A i \in 1 .. Len(s) : r[i].key = s[i]
  BY RowsListed
<1>2. DOMAIN s = 1 .. Len(s) /\ DOMAIN o.children = Met(s)
  BY LenProperties DEF Lists
<1> HIDE DEF r
<1>3. List!KeysOf(r) = Met(s)
  BY <1>1, <1>2 DEF List!KeysOf, Met
<1> QED
  BY <1>2, <1>3 DEF r

\* A child taken out takes its row out.
LEMMA RowsCut ==
    ASSUME NEW o \in Order, NEW s, Lists(o, s), NEW p \in 1 .. Len(s),
           NEW u, \A k \in Met(Cut(s, p)) : RowAt(u, k) = RowAt(o, k)
    PROVE  ListedRows(u, Cut(s, p)) = List!Without(ListedRows(o, s), s[p])
<1> DEFINE r == ListedRows(o, s)
           c == Cut(s, p)
           n == Len(s)
<1>1. /\ s \in Seq(Keys) /\ Once(s) /\ n \in Nat
  BY LenProperties DEF Lists
<1>2. c \in Seq(Keys) /\ Len(c) = n - 1 /\ DOMAIN c = 1 .. (n - 1)
      /\ \A i \in 1 .. (n - 1) : c[i] = IF i < p THEN s[i] ELSE s[i + 1]
  <2>1. c \in Seq(Keys) /\ Len(c) = n - 1
    BY <1>1, CutSound
  <2> QED
    BY <2>1 DEF Cut
<1>3. r \in Seq(RowType) /\ Len(r) = n /\ \A i \in 1 .. n : r[i] = RowAt(o, s[i])
  BY RowsListed
<1>4. List!IndexOf(r, s[p]) = p
  BY RowIndex
<1>5. List!RemoveAt(r, p) = Cut(r, p)
  <2> HIDE DEF r
  <2>1. p \in 1 .. Len(r)
    BY <1>3
  <2> QED
    BY <1>3, <2>1, CutRemoves
<1>6. List!Without(r, s[p]) = Cut(r, p)
  BY <1>4, <1>5 DEF List!Without
<1>7. ASSUME NEW i \in 1 .. (n - 1)
      PROVE  RowAt(u, c[i]) = IF i < p THEN r[i] ELSE r[i + 1]
  <2>1. RowAt(u, c[i]) = RowAt(o, c[i])
    <3>1. c[i] \in Met(c)
      BY <1>2 DEF Met
    <3> QED
      BY <3>1
  <2>2. i \in 1 .. n /\ i + 1 \in 1 .. n
    <3> HIDE DEF n
    <3> QED
      BY <1>1
  <2> HIDE DEF r, c, n
  <2> QED
    BY <1>2, <1>3, <2>1, <2>2
<1>8. ListedRows(u, c) = [i \in 1 .. (n - 1) |-> RowAt(u, c[i])]
  BY <1>2 DEF ListedRows
<1>9. Cut(r, p) = [i \in 1 .. (n - 1) |-> IF i < p THEN r[i] ELSE r[i + 1]]
  BY <1>3 DEF Cut
<1> HIDE DEF r, c
<1>10. ListedRows(u, c) = Cut(r, p)
  BY <1>7, <1>8, <1>9
<1> QED
  BY <1>6, <1>10 DEF r, c

\* A child put before another, or last, puts its row there.
LEMMA RowsPut ==
    ASSUME NEW o \in Order, NEW s, NEW t, t = ListedRows(o, s), Once(s), s \in Seq(Keys),
           Met(s) \subseteq DOMAIN o.children,
           NEW q \in 1 .. (Len(s) + 1), NEW k \in Keys \ Met(s), NEW e \in RowType,
           NEW u, RowAt(u, k) = e, \A x \in Met(s) : RowAt(u, x) = RowAt(o, x)
    PROVE  ListedRows(u, Put(s, q, k)) = List!Placed(t, e, At(s, q))
<1> DEFINE n == Len(s)
           c == Put(s, q, k)
<1>1. n \in Nat /\ DOMAIN s = 1 .. n /\ \A i \in 1 .. n : s[i] \in Keys
  BY LenProperties, ElementOfSeq
<1>2. /\ Len(c) = n + 1
      /\ \A i \in 1 .. (n + 1) : c[i] = IF i < q THEN s[i] ELSE IF i = q THEN k ELSE s[i - 1]
  <2>1. Len(c) = n + 1
    BY PutSound
  <2> QED
    BY <2>1 DEF Put
<1>3. /\ t \in Seq(RowType) /\ Len(t) = n /\ DOMAIN t = 1 .. n
      /\ \A i \in 1 .. n : t[i] = RowAt(o, s[i]) /\ t[i].key = s[i]
  <2>1. \A i \in 1 .. n : o.children[s[i]] \in Child
    BY <1>1 DEF Order, Met
  <2>2. \A i \in 1 .. n : RowAt(o, s[i]) \in RowType
    BY <1>1, <2>1 DEF RowAt, RowType, Child
  <2>3. t \in [1 .. n -> RowType] /\ \A i \in 1 .. n : t[i] = RowAt(o, s[i])
    BY <2>2 DEF ListedRows
  <2> HIDE DEF n
  <2>4. t \in Seq(RowType) /\ Len(t) = n
    BY <1>1, <2>3
  <2> QED
    BY <2>3, <2>4 DEF RowAt
<1>4. List!Placed(t, e, At(s, q)) = Put(t, q, e)
  <2>1. CASE q = n + 1
    <3>1. q \notin 1 .. n
      BY <1>1, <2>1
    <3>2. At(s, q) = None
      BY <3>1 DEF At
    <3>3. Append(t, e) = Put(t, n + 1, e)
      BY <1>3, PutAppends
    <3> QED
      BY <2>1, <3>2, <3>3 DEF List!Placed
  <2>2. CASE q # n + 1
    <3>1. q \in 1 .. n
      BY <1>1, <2>2
    <3>2. At(s, q) = s[q] /\ s[q] # None
      BY <1>1, <3>1, NoneAssumption DEF At
    <3>3. \A i \in 1 .. n : s[i] = s[q] => i = q
      BY <1>1, <3>1 DEF Once
    <3>4. List!IndexOf(t, s[q]) = q
      BY <1>3, <3>1, <3>3 DEF List!IndexOf
    <3>5. List!InsertAt(t, q, e) = Put(t, q, e)
      <4>1. q \in 1 .. Len(t)
        BY <1>3, <3>1
      <4> QED
        BY <1>3, <4>1, PutInserts
    <3> QED
      BY <3>2, <3>4, <3>5 DEF List!Placed
  <2> QED
    BY <2>1, <2>2
<1>5. ASSUME NEW i \in 1 .. (n + 1)
      PROVE  RowAt(u, c[i]) = IF i < q THEN t[i] ELSE IF i = q THEN e ELSE t[i - 1]
  <2>1. /\ i < q => i \in 1 .. n
        /\ ~ (i < q) /\ i # q => i - 1 \in 1 .. n
    <3> HIDE DEF n
    <3> QED
      BY <1>1
  <2>2. \A j \in 1 .. n : RowAt(u, s[j]) = t[j]
    BY <1>1, <1>3 DEF Met
  <2> HIDE DEF c, n
  <2> QED
    BY <1>2, <2>1, <2>2
<1>6. ListedRows(u, c) = [i \in 1 .. (n + 1) |-> RowAt(u, c[i])]
  BY <1>2 DEF ListedRows
<1>7. Put(t, q, e) = [i \in 1 .. (n + 1) |-> IF i < q THEN t[i] ELSE IF i = q THEN e ELSE t[i - 1]]
  BY <1>3 DEF Put
<1> HIDE DEF c
<1>8. ListedRows(u, c) = Put(t, q, e)
  BY <1>5, <1>6, <1>7
<1> QED
  BY <1>4, <1>8 DEF c

-----------------------------------------------------------------------------
(* The refinement, step by step.                                          *)

\* A transaction that goes on publishes nothing.
Going == Open /\ Open' /\ Base' = Base

LEMMA GoingOn ==
    ASSUME Going
    PROVE  /\ RowsOf(Base)' = RowsOf(Base) /\ Base'.revision = Base.revision
           /\ (Open' <=> Open)
BY DEF Going

LEMMA InsertImplements ==
    ASSUME OrderInv, Open, NEW k \in Keys, NEW before \in Link,
           NEW root \in 1 .. MaxNode, NEW instance \in 1 .. MaxNode,
           AcceptsInsert(k, before, root, instance), Insert(k, before, root, instance)
    PROVE  List!ListNext
<1>1. /\ OrderInv' /\ Going
      /\ RowsKept(order', order, DOMAIN order.children)
      /\ order'.children[k].root = root /\ order'.children[k].instance = instance
      /\ \E s : \E q \in 1 .. (Len(s) + 1) :
           /\ Lists(order, s) /\ k \notin Met(s) /\ At(s, q) = before
           /\ Lists(order', Put(s, q, k))
  BY InsertKeeps DEF Going
<1>2. PICK s : \E q \in 1 .. (Len(s) + 1) :
           /\ Lists(order, s) /\ k \notin Met(s) /\ At(s, q) = before
           /\ Lists(order', Put(s, q, k))
  BY <1>1
<1>3. PICK q \in 1 .. (Len(s) + 1) :
           /\ Lists(order, s) /\ k \notin Met(s) /\ At(s, q) = before
           /\ Lists(order', Put(s, q, k))
  BY <1>2
<1>4. order \in Order /\ order' \in Order
  BY <1>1 DEF OrderInv, Typed
<1>5. s \in Seq(Keys) /\ Once(s) /\ DOMAIN order.children = Met(s) /\ Len(s) \in Nat
  BY <1>3, LenProperties DEF Lists
<1> DEFINE u == order'
           t == ListedRows(order, s)
           e == RowAt(u, k)
           c == Put(s, q, k)
<1>6. RowsOf(order) = t /\ RowsOf(u) = ListedRows(u, c)
  BY <1>3, <1>4, RowsListed
<1>7. e \in RowType /\ e.key = k /\ \A x \in Met(s) : RowAt(u, x) = RowAt(order, x)
  BY <1>1, <1>5 DEF RowAt, RowType, RowsKept
<1>8. ListedRows(u, c) = List!Placed(t, e, before)
  <2>1. Met(s) \subseteq DOMAIN order.children /\ k \in Keys \ Met(s) /\ RowAt(u, k) = e
    BY <1>3, <1>5
  <2>2. ListedRows(u, c) = List!Placed(t, e, At(s, q))
    <3> HIDE DEF u, e
    <3> QED
      BY <1>3, <1>4, <1>5, <1>7, <2>1, RowsPut
  <2> QED
    BY <1>3, <2>2
<1>9. List!KeysOf(t) = DOMAIN order.children
  BY <1>3, <1>4, RowKeys
<1>10. before \in List!Anchors(t)
  BY <1>9 DEF List!Anchors, AcceptsInsert, Has
<1>11. e \in {ListedRows(u, c)[i] : i \in DOMAIN ListedRows(u, c)}
  <2>1. c[q] = k /\ q \in 1 .. Len(c)
    <3>1. Len(c) = Len(s) + 1
      BY <1>5, <1>3, PutSound
    <3> QED
      BY <1>5, <3>1 DEF Put
  <2>2. DOMAIN ListedRows(u, c) = 1 .. Len(c) /\ ListedRows(u, c)[q] = RowAt(u, c[q])
    BY <2>1 DEF ListedRows
  <2> QED
    BY <2>1, <2>2
<1>12. List!Inserted(e, before)
  <2>1. e.key \notin List!KeysOf(t)
    BY <1>3, <1>5, <1>7, <1>9
  <2>2. RowsOf(order)' = List!Placed(RowsOf(order), e, before)
    BY <1>6, <1>8
  <2> QED
    BY <1>1, <1>6, <1>10, <2>1, <2>2, GoingOn DEF List!Inserted
<1>13. e \in {RowsOf(order)'[i] : i \in DOMAIN RowsOf(order)'}
  BY <1>6, <1>11
<1> HIDE DEF e
<1> QED
  BY <1>7, <1>12, <1>13 DEF List!ListNext, Link

LEMMA RemoveImplements ==
    ASSUME OrderInv, Open, NEW k \in DOMAIN order.children, Remove(k)
    PROVE  List!ListNext
<1>1. /\ OrderInv' /\ Going
      /\ RowsKept(order', order, DOMAIN order.children \ {k})
      /\ \E s : \E p \in 1 .. Len(s) :
           Lists(order, s) /\ s[p] = k /\ Lists(order', Cut(s, p))
  BY RemoveKeeps DEF Going
<1>2. PICK s : \E p \in 1 .. Len(s) :
           Lists(order, s) /\ s[p] = k /\ Lists(order', Cut(s, p))
  BY <1>1
<1>3. PICK p \in 1 .. Len(s) : Lists(order, s) /\ s[p] = k /\ Lists(order', Cut(s, p))
  BY <1>2
<1>4. order \in Order /\ order' \in Order
  BY <1>1 DEF OrderInv, Typed
<1>5. s \in Seq(Keys) /\ Once(s) /\ DOMAIN order.children = Met(s)
      /\ Met(Cut(s, p)) = Met(s) \ {k}
  BY <1>3, CutSound DEF Lists
<1> DEFINE u == order'
           t == ListedRows(order, s)
           c == Cut(s, p)
<1>6. RowsOf(order) = t /\ RowsOf(u) = ListedRows(u, c)
  BY <1>3, <1>4, RowsListed
<1>7. \A x \in Met(c) : RowAt(u, x) = RowAt(order, x)
  BY <1>1, <1>5 DEF RowAt, RowsKept
<1>8. ListedRows(u, c) = List!Without(t, k)
  BY <1>3, <1>4, <1>7, RowsCut
<1>9. k \in List!KeysOf(t)
  BY <1>3, <1>4, RowKeys
<1>10. List!Removed(k)
  <2>1. RowsOf(order)' = List!Without(RowsOf(order), k)
    BY <1>6, <1>8
  <2> QED
    BY <1>1, <1>6, <1>9, <2>1, GoingOn DEF List!Removed
<1>11. k \in Keys
  BY <1>4 DEF Order
<1> QED
  BY <1>10, <1>11 DEF List!ListNext

LEMMA MoveImplements ==
    ASSUME OrderInv, Open, NEW k \in Keys, NEW before \in Link,
           AcceptsMove(k, before), Move(k, before)
    PROVE  List!ListNext \/ UNCHANGED List!listVars
<1>1. /\ OrderInv' /\ Going
      /\ \/ order' = order
         \/ /\ RowsKept(order', order, DOMAIN order.children) /\ before # k
            /\ \E s : \E p \in 1 .. Len(s) : \E q \in 1 .. (Len(Cut(s, p)) + 1) :
                 /\ Lists(order, s) /\ s[p] = k
                 /\ At(Cut(s, p), q) = before
                 /\ Lists(order', Put(Cut(s, p), q, k))
  BY MoveKeeps DEF Going
<1>2. CASE order' = order
  BY <1>1, <1>2, GoingOn DEF List!listVars
<1>3. CASE order' # order
  <2>1. /\ RowsKept(order', order, DOMAIN order.children) /\ before # k
        /\ \E s : \E p \in 1 .. Len(s) : \E q \in 1 .. (Len(Cut(s, p)) + 1) :
             /\ Lists(order, s) /\ s[p] = k
             /\ At(Cut(s, p), q) = before
             /\ Lists(order', Put(Cut(s, p), q, k))
    BY <1>1, <1>3
  <2>2. PICK s : \E p \in 1 .. Len(s) : \E q \in 1 .. (Len(Cut(s, p)) + 1) :
             /\ Lists(order, s) /\ s[p] = k
             /\ At(Cut(s, p), q) = before
             /\ Lists(order', Put(Cut(s, p), q, k))
    BY <2>1
  <2>3. PICK p \in 1 .. Len(s) : \E q \in 1 .. (Len(Cut(s, p)) + 1) :
             /\ Lists(order, s) /\ s[p] = k
             /\ At(Cut(s, p), q) = before
             /\ Lists(order', Put(Cut(s, p), q, k))
    BY <2>2
  <2> DEFINE c == Cut(s, p)
  <2>4. PICK q \in 1 .. (Len(c) + 1) :
             /\ Lists(order, s) /\ s[p] = k /\ At(c, q) = before
             /\ Lists(order', Put(c, q, k))
    BY <2>3
  <2>5. order \in Order /\ order' \in Order
    BY <1>1 DEF OrderInv, Typed
  <2>6. /\ s \in Seq(Keys) /\ Once(s) /\ DOMAIN order.children = Met(s)
        /\ c \in Seq(Keys) /\ Once(c) /\ Met(c) = Met(s) \ {k}
    BY <2>4, CutSound DEF Lists
  <2> DEFINE u == order'
             t == ListedRows(order, s)
             e == RowAt(order, k)
             d == Put(c, q, k)
  <2>7. /\ RowsOf(order) = t /\ RowsOf(u) = ListedRows(u, d)
        /\ t[p] = RowAt(order, s[p]) /\ t \in Seq(RowType) /\ Len(t) = Len(s)
    BY <2>4, <2>5, RowsListed
  <2>8. k \in Met(s)
    BY <2>4, <2>6, LenProperties DEF Met
  <2>9. RowAt(u, k) = e /\ \A x \in Met(c) : RowAt(u, x) = RowAt(order, x)
    BY <2>1, <2>6, <2>8 DEF RowAt, RowsKept
  <2>10. e \in RowType
    <3>1. t[p] \in RowType
      BY <2>7, ElementOfSeq
    <3> QED
      BY <2>4, <2>7, <3>1
  <2>11. ListedRows(order, c) = List!Without(t, k)
    BY <2>4, <2>5, RowsCut
  <2>12. ListedRows(u, d) = List!Placed(List!Without(t, k), e, before)
    <3> DEFINE w == ListedRows(order, c)
    <3>1. ListedRows(u, d) = List!Placed(w, e, At(c, q))
      <4> HIDE DEF c, u, e
      <4>1. Met(c) \subseteq DOMAIN order.children /\ k \in Keys \ Met(c)
        BY <2>6
      <4> QED
        BY <2>4, <2>5, <2>6, <2>9, <2>10, <4>1, RowsPut
    <3> QED
      BY <2>4, <2>11, <3>1
  <2>13. List!IndexOf(t, k) = p /\ t[p] = e
    BY <2>4, <2>5, <2>7, RowIndex
  <2>14. List!KeysOf(t) = DOMAIN order.children
    BY <2>4, <2>5, RowKeys
  <2>15. before \in List!Anchors(t) \ {k}
    <3>1. before = None \/ before \in Met(c)
      <4>1. q \in 1 .. Len(c) => c[q] \in Met(c)
        BY <2>6, LenProperties DEF Met
      <4> QED
        BY <2>4, <4>1 DEF At
    <3> QED
      BY <2>1, <2>6, <2>14, <3>1 DEF List!Anchors
  <2>16. List!Moved(k, before)
    <3>1. RowsOf(order)' = List!Placed(List!Without(RowsOf(order), k),
                                       RowsOf(order)[List!IndexOf(RowsOf(order), k)], before)
      BY <2>7, <2>12, <2>13
    <3>2. k \in List!KeysOf(RowsOf(order)) /\ before \in List!Anchors(RowsOf(order)) \ {k}
      BY <2>6, <2>7, <2>8, <2>14, <2>15
    <3> QED
      BY <1>1, <3>1, <3>2, GoingOn DEF List!Moved, Going
  <2> QED
    BY <2>16 DEF List!ListNext, Link
<1> QED
  BY <1>2, <1>3

\* A child given another root gives its row that root.
LEMMA RowsRerendered ==
    ASSUME NEW o \in Order, NEW s, Lists(o, s), NEW k \in DOMAIN o.children,
           NEW root \in 1 .. MaxNode, NEW u, u = ReplaceChild(o, k, root)
    PROVE  /\ k \in List!KeysOf(RowsOf(o)) /\ k \in Keys
           /\ RowsOf(u) = [RowsOf(o) EXCEPT ![List!IndexOf(RowsOf(o), k)].root = root]
           /\ \E r \in {RowsOf(u)[i] : i \in DOMAIN RowsOf(u)} : r.root = root
<1>1. /\ u \in Order /\ Lists(u, s)
      /\ u.children[k].root = root /\ u.children[k].instance = o.children[k].instance
      /\ \A x \in DOMAIN o.children \ {k} : u.children[x] = o.children[x]
  BY ReplaceLists
<1> DEFINE t == ListedRows(o, s)
           v == ListedRows(u, s)
           n == Len(s)
<1>2. /\ s \in Seq(Keys) /\ Once(s) /\ DOMAIN o.children = Met(s) /\ DOMAIN s = 1 .. n
      /\ \A i \in 1 .. n : s[i] \in DOMAIN o.children
      /\ k \in Keys
  <2>1. s \in Seq(Keys) /\ Once(s) /\ DOMAIN o.children = Met(s) /\ k \in Keys
    BY DEF Lists, Order
  <2> QED
    BY <2>1, LenProperties DEF Met
<1>3. PICK p \in 1 .. n : s[p] = k
  BY <1>2 DEF Met
<1>4. /\ RowsOf(o) = t /\ RowsOf(u) = v /\ DOMAIN t = 1 .. n /\ DOMAIN v = 1 .. n
      /\ \A i \in 1 .. n : t[i] = RowAt(o, s[i]) /\ v[i] = RowAt(u, s[i])
  BY <1>1, RowsListed
<1>5. List!IndexOf(t, k) = p /\ k \in List!KeysOf(t)
  BY <1>3, RowIndex, RowKeys
<1>6. v = [i \in 1 .. n |-> v[i]] /\ t = [i \in 1 .. n |-> t[i]]
  BY <1>4 DEF ListedRows
<1>7. v[p] = [t[p] EXCEPT !.root = root]
  BY <1>1, <1>3, <1>4 DEF RowAt
<1>8. \A i \in 1 .. n : i # p => v[i] = t[i]
  <2>1. ASSUME NEW i \in 1 .. n, i # p PROVE v[i] = t[i]
    <3>1. s[i] # k /\ s[i] \in DOMAIN o.children
      BY <1>2, <1>3, <2>1 DEF Once
    <3>2. u.children[s[i]] = o.children[s[i]]
      BY <1>1, <3>1
    <3> QED
      BY <1>4, <3>2 DEF RowAt
  <2> QED
    BY <2>1
<1>9. v[p].root = root
  BY <1>1, <1>3, <1>4 DEF RowAt
<1> HIDE DEF t, v
<1>10. v = [t EXCEPT ![p].root = root]
  BY <1>4, <1>6, <1>7, <1>8
<1> QED
  BY <1>2, <1>4, <1>5, <1>9, <1>10

LEMMA SetImplements ==
    ASSUME OrderInv, Open, NEW k \in Keys,
           NEW root \in 1 .. MaxNode, NEW instance \in 1 .. MaxNode,
           AcceptsSet(k, root, instance), Set(k, root, instance)
    PROVE  List!ListNext
<1>1. /\ Going /\ k \in DOMAIN order.children /\ order' = ReplaceChild(order, k, root)
      /\ order \in Order
  BY SetKeeps DEF Going, OrderInv, Typed
<1>2. PICK s : Lists(order, s)
  BY DEF OrderInv, Linear
<1>3. /\ k \in List!KeysOf(RowsOf(order))
      /\ RowsOf(order)' = [RowsOf(order) EXCEPT ![List!IndexOf(RowsOf(order), k)].root = root]
      /\ \E r \in {RowsOf(order)'[i] : i \in DOMAIN RowsOf(order)'} : r.root = root
  BY <1>1, <1>2, RowsRerendered
<1>4. List!Rerendered(k, root)
  BY <1>1, <1>3, GoingOn DEF List!Rerendered, Going
<1> QED
  BY <1>3, <1>4 DEF List!ListNext

LEMMA ReplaceItemImplements ==
    ASSUME OrderInv, NEW k \in Keys, NEW root \in 1 .. MaxNode, ReplaceItem(k, root)
    PROVE  List!ListNext
<1>1. /\ ~ Open /\ ~ Open' /\ Base = order /\ Base' = order'
      /\ k \in DOMAIN order.children /\ order' = ReplaceChild(order, k, root)
      /\ order \in Order
  BY ReplaceItemKeeps DEF OrderInv, Typed
<1>2. PICK s : Lists(order, s)
  BY DEF OrderInv, Linear
<1>3. /\ k \in List!KeysOf(RowsOf(order))
      /\ RowsOf(order)' = [RowsOf(order) EXCEPT ![List!IndexOf(RowsOf(order), k)].root = root]
      /\ \E r \in {RowsOf(order)'[i] : i \in DOMAIN RowsOf(order)'} : r.root = root
  BY <1>1, <1>2, RowsRerendered
<1>4. order'.revision = order.revision
  BY <1>1, <1>2, ReplaceLists
<1>5. RowsOf(Base)' = RowsOf(order)' /\ Base'.revision = Base.revision
  BY <1>1, <1>4
<1>6. List!Rerendered(k, root)
  <2>1. Open' = Open
    BY <1>1 DEF Open
  <2>2. RowsOf(Base') = RowsOf(order')
    BY <1>1
  <2> QED
    BY <1>1, <1>3, <1>5, <2>1, <2>2 DEF List!Rerendered
<1> QED
  BY <1>3, <1>6 DEF List!ListNext

\* What a commit publishes is what the edits made, under a later revision.
LEMMA CommitImplements ==
    ASSUME OrderInv, Open, Commit, Mountable
    PROVE  List!ListNext
<1>1. /\ OrderInv' /\ ~ Open' /\ Base' = order'
      /\ order'.children = order.children /\ order'.revision = proposed
      /\ \E s : Lists(order, s) /\ Lists(order', s)
  BY CommitKeeps
<1>2. PICK s : Lists(order, s) /\ Lists(order', s)
  BY <1>1
<1>3. /\ order \in Order /\ order' \in Order /\ journal \in Journal
      /\ proposed \in 1 .. MaxRevision /\ proposed > journal.revision
  BY <1>1 DEF OrderInv, Typed, Linear, Open
<1>4. RowsOf(order') = RowsOf(order)
  <2>1. ListedRows(order', s) = ListedRows(order, s)
    BY <1>1 DEF ListedRows, RowAt
  <2> QED
    BY <1>2, <1>3, <2>1, RowsListed
<1>5. Base.revision = journal.revision
  BY <1>3, RestoredFields DEF Base
<1>6. Base'.revision \in Nat /\ Base'.revision > Base.revision
  BY <1>1, <1>3, <1>5
<1>7. RowsOf(Base)' = RowsOf(order) /\ RowsOf(order)' = RowsOf(order)
  BY <1>1, <1>4
<1>8. List!Published
  BY <1>1, <1>6, <1>7 DEF List!Published
<1> QED
  BY <1>8 DEF List!ListNext

LEMMA BeginImplements ==
    ASSUME OrderInv, NEW base \in 0 .. MaxRevision, NEW new \in 0 .. MaxRevision,
           Begin(base, new)
    PROVE  List!ListNext
<1>1. ~ Open /\ Base = order /\ order' = order
  BY DEF Begin, Base
<1>2. Open' /\ Base' = order
  BY BeginKeeps
<1>3. List!Opened
  BY <1>1, <1>2 DEF List!Opened
<1> QED
  BY <1>3 DEF List!ListNext

LEMMA RejectImplements ==
    ASSUME OrderInv, Open, Reject
    PROVE  List!ListNext
<1>1. ~ Open' /\ order' = Base /\ Base' = Base
  BY RejectKeeps
<1>2. List!Withdrawn
  BY <1>1 DEF List!Withdrawn
<1> QED
  BY <1>2 DEF List!ListNext

LEMMA InitImplements == Init => List!ListInit
<1> SUFFICES ASSUME Init PROVE List!ListInit
  OBVIOUS
<1>1. OrderInv /\ ~ Open
  BY InitInv DEF Init, Open
<1>2. Base = order /\ order \in Order
  BY <1>1 DEF Base, OrderInv, Typed
<1>3. PICK s : Lists(order, s)
  BY <1>1 DEF OrderInv, Linear
<1>4. /\ RowsOf(order) = ListedRows(order, s) /\ DOMAIN ListedRows(order, s) = 1 .. Len(s)
      /\ \A i \in 1 .. Len(s) : ListedRows(order, s)[i].key = s[i]
  BY <1>2, <1>3, RowsListed
<1>5. \A i, j \in 1 .. Len(s) : s[i] = s[j] => i = j
  BY <1>3, LenProperties DEF Lists, Once
<1>6. order.revision \in Nat
  BY <1>2 DEF Order, Revision
<1>7. \A i, j \in DOMAIN RowsOf(order) : RowsOf(order)[i].key = RowsOf(order)[j].key => i = j
  BY <1>4, <1>5
<1> QED
  BY <1>1, <1>2, <1>6, <1>7 DEF List!ListInit

\* apply_keyed_inner, with the column it edits, is an atomically edited list: an
\* edit anywhere in a transaction changes the working copy as the list's edit
\* does, a refused one withdraws the transaction, and a commit publishes it.
THEOREM ImplementsListHolds == Spec => ImplementsList
<1>1. ASSUME OrderInv, [Next]_vars
      PROVE  [List!ListNext]_(List!listVars)
  <2>1. ASSUME NEW base \in 0 .. MaxRevision, NEW new \in 0 .. MaxRevision, Begin(base, new)
        PROVE  List!ListNext
    BY <1>1, <2>1, BeginImplements
  <2>2. CASE Open /\ Reject
    BY <1>1, <2>2, RejectImplements
  <2>3. ASSUME Open, NEW k \in Keys, Edits(k)
        PROVE  List!ListNext \/ UNCHANGED List!listVars
    BY <1>1, <2>3, RemoveImplements, MoveImplements, SetImplements, InsertImplements DEF Edits
  <2>4. CASE Open /\ Commit /\ Mountable
    BY <1>1, <2>4, CommitImplements
  <2>5. ASSUME NEW k \in Keys, NEW root \in 1 .. MaxNode, ReplaceItem(k, root)
        PROVE  List!ListNext
    BY <1>1, <2>5, ReplaceItemImplements
  <2>6. CASE UNCHANGED vars
    <3>1. Base' = Base /\ order' = order /\ proposed' = proposed
      BY <1>1, <2>6, StutterKeeps
    <3>2. UNCHANGED List!listVars
      BY <3>1 DEF List!listVars, Open
    <3> QED
      BY <3>2
  <2> QED
    BY <1>1, <2>1, <2>2, <2>3, <2>4, <2>5, <2>6, StepCases
<1> QED
  BY <1>1, InitImplements, OrderInductive, PTL DEF Spec, ImplementsList, List!ListSpec

-----------------------------------------------------------------------------
(* The column from end to end: a key that survives keeps its instance.     *)

\* What a turn has resolved is in the registry under the same instance, or is
\* new, and between turns nothing is being resolved.
SeenInv ==
    /\ pc \in {"idle", "policy"} => seen = <<>>
    /\ \A k \in DOMAIN seen \intersect DOMAIN live : seen[k] = live[k]

\* A column that is lowered in full gives the keys it has the instances they had.
LEMMA RebuiltKeeps ==
    ASSUME NEW rows, NEW k \in DOMAIN live, k \in DOMAIN Positions(Rebuilt(rows))
    PROVE  Positions(Rebuilt(rows))[k] = live[k]
<1> DEFINE new == Rebuilt(rows)
           i == List!IndexOf(new, k)
<1>1. DOMAIN new = DOMAIN rows /\ \A j \in DOMAIN rows : new[j].key = rows[j].key
  BY DEF Rebuilt
<1>2. k \in List!KeysOf(new)
  BY DEF Positions, Rows
<1>3. i \in DOMAIN new /\ new[i].key = k
  <2>1. \E j \in DOMAIN new : new[j].key = k
    BY <1>2 DEF List!KeysOf
  <2> QED
    BY <2>1 DEF List!IndexOf
<1>4. Positions(new)[k] = new[i].instance
  BY <1>2 DEF Positions, Rows, InstanceOf
<1>5. \A j \in DOMAIN rows : rows[j].key \in DOMAIN live => new[j].instance = live[rows[j].key]
  BY DEF Rebuilt
<1> QED
  BY <1>1, <1>3, <1>4, <1>5

\* Nothing is resolved before the first turn.
LEMMA SeenInvInit == ColInit => SeenInv
BY DEF ColInit, SeenInv

\* A step that is lowered resolves its key to the instance the registry has, and
\* leaves the registry alone.
LEMMA LowerSees ==
    ASSUME SeenInv, Lower
    PROVE  SeenInv' /\ live' = live
<1>1. CASE Panic
  BY <1>1 DEF Panic, registryVars, SeenInv
<1>2. CASE ~ Panic
  <2> DEFINE e == Head(steps)
             instance == Resolved(e.key)
  <2>1. live' = live /\ pc = "lower" /\ pc' = pc
    BY <1>2 DEF Lower
  <2>2. CASE Renders(e)
    <3>1. seen' = [k \in DOMAIN seen \union {e.key} |-> IF k = e.key THEN instance ELSE seen[k]]
      BY <1>2, <2>2 DEF Lower
    <3>2. e.key \in DOMAIN live => instance = live[e.key]
      BY DEF Resolved
    <3> HIDE DEF e, instance
    <3>3. \A k \in DOMAIN seen' \intersect DOMAIN live : seen'[k] = live[k]
      BY <3>1, <3>2 DEF SeenInv
    <3> QED
      BY <2>1, <3>3 DEF SeenInv
  <2>3. CASE ~ Renders(e)
    <3>1. seen' = seen
      BY <1>2, <2>3 DEF Lower
    <3> QED
      BY <2>1, <3>1 DEF SeenInv
  <2> QED
    BY <2>2, <2>3
<1> QED
  BY <1>1, <1>2

\* A commit gives the registry what the turn resolved, and takes out of it only.
LEMMA CommitSees ==
    ASSUME SeenInv, HostCommit
    PROVE  SeenInv' /\ \A k \in DOMAIN live \intersect DOMAIN live' : live'[k] = live[k]
<1>1. \/ live' = RegistryCommit(DOMAIN instances') /\ seen' = <<>> /\ pc' = "idle"
      \/ live' = live /\ seen' = seen /\ pc' = "panicked"
  BY DEF HostCommit, registryVars
<1>2. CASE live' = live /\ seen' = seen /\ pc' = "panicked"
  BY <1>2 DEF SeenInv
<1>3. CASE live' = RegistryCommit(DOMAIN instances') /\ seen' = <<>> /\ pc' = "idle"
  <2> DEFINE after == DOMAIN instances'
             pending == {k \in DOMAIN seen : seen[k] \in after}
  <2>1. live' = [k \in {x \in DOMAIN live : live[x] \in after} \union pending |->
                    IF k \in pending THEN seen[k] ELSE live[k]]
    BY <1>3 DEF RegistryCommit
  <2>2. \A k \in DOMAIN live \intersect DOMAIN live' : live'[k] = live[k]
    <3> HIDE DEF after
    <3> QED
      BY <2>1 DEF SeenInv
  <2>3. DOMAIN seen' = {}
    BY <1>3
  <2> QED
    BY <1>3, <2>2, <2>3 DEF SeenInv
<1> QED
  BY <1>1, <1>2, <1>3

\* A rebuild of an ancestor lowers the column in full, and resolves nothing before.
LEMMA RebuildSees ==
    ASSUME SeenInv, AncestorRebuild
    PROVE  SeenInv' /\ \A k \in DOMAIN live \intersect DOMAIN live' : live'[k] = live[k]
<1>1. live' = Positions(Rebuilt(draft.rows)) /\ seen' = seen /\ pc = "policy" /\ pc' = "idle"
  BY DEF AncestorRebuild
<1>2. seen = <<>> /\ DOMAIN seen = {}
  BY <1>1 DEF SeenInv
<1>3. \A k \in DOMAIN live \intersect DOMAIN live' : live'[k] = live[k]
  BY <1>1, RebuiltKeeps
<1> QED
  BY <1>1, <1>2, <1>3 DEF SeenInv

\* So every step of a turn, also of one that goes back to an earlier sequence,
\* leaves the keys it does not take out where they were.
LEMMA TurnSees ==
    ASSUME SeenInv, [ColNext \/ PutBack]_colVars
    PROVE  SeenInv' /\ \A k \in DOMAIN live \intersect DOMAIN live' : live'[k] = live[k]
<1>1. CASE Handle \/ Transact \/ Answer
  BY <1>1 DEF Handle, Transact, Answer, registryVars, SeenInv
<1>2. CASE Lower
  BY <1>2, LowerSees
<1>3. CASE HandOver
  BY <1>3 DEF HandOver, Panic, registryVars, SeenInv
<1>4. CASE HostEdit
  BY <1>4 DEF HostEdit, registryVars, SeenInv
<1>5. CASE HostCommit
  BY <1>5, CommitSees
<1>6. CASE ItemUpdate
  BY <1>6 DEF ItemUpdate, registryVars, SeenInv
<1>7. CASE AncestorRebuild
  BY <1>7, RebuildSees
<1>8. CASE UNCHANGED colVars
  BY <1>8 DEF colVars, registryVars, SeenInv
<1>9. CASE PutBack
  BY <1>9 DEF PutBack, registryVars, SeenInv
<1> QED
  BY <1>1, <1>2, <1>3, <1>4, <1>5, <1>6, <1>7, <1>8, <1>9 DEF ColNext

\* Whatever path a turn takes through update_keyed! (a journal, a
\* reconciliation, a full lowering), a key that ComponentRegistry has before and
\* after it keeps its instance.
THEOREM SurvivorsKeptHolds == ColSpec => SurvivorsKept
<1>1. ColInit => SeenInv
  BY SeenInvInit
<1>2. SeenInv /\ [ColNext]_colVars => SeenInv'
  BY TurnSees
<1>3. SeenInv /\ [ColNext]_colVars =>
        [\A k \in DOMAIN live \intersect DOMAIN live' : live'[k] = live[k]]_colVars
  BY TurnSees
<1> QED
  BY <1>1, <1>2, <1>3, PTL DEF ColSpec, SurvivorsKept

\* Also when the application puts an earlier KeyedSeq back, to undo: what the
\* column then shows may be wrong, but a key that stays mounted keeps its
\* ComponentRegistry instance.
THEOREM UndoSurvivorsKept == UndoSpec => SurvivorsKept
<1>1. ColInit => SeenInv
  BY SeenInvInit
<1>2. SeenInv /\ [ColNext \/ PutBack]_colVars => SeenInv'
  BY TurnSees
<1>3. SeenInv /\ [ColNext \/ PutBack]_colVars =>
        [\A k \in DOMAIN live \intersect DOMAIN live' : live'[k] = live[k]]_colVars
  BY TurnSees
<1> QED
  BY <1>1, <1>2, <1>3, PTL DEF UndoSpec, SurvivorsKept
=============================================================================

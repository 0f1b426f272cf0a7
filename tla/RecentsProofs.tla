---------------------------- MODULE RecentsProofs ---------------------------
(***************************************************************************)
(* What holds of the recent list for every number of threads, places and   *)
(* entries, whatever the file system refuses and whenever the program is   *)
(* killed.  A key names one place as long as a run lasts, since it is      *)
(* given out once; so what a grant holds and what a call in flight carries *)
(* agree with the list, which may have changed since.  Of the saves that   *)
(* overlap none: what they leave behind.  Of a withdrawal: what it forgets.*)
(***************************************************************************)
EXTENDS Recents, GrantsProofs, SequenceTheorems, WellFoundedInduction

-----------------------------------------------------------------------------
(* Induction, over sets of numbers.                                        *)

\* A set of numbers has a least one.
LEMMA LeastNumber ==
    ASSUME NEW T \in SUBSET Nat, T # {}
    PROVE  \E m \in T : \A k \in T : m <= k
<1> DEFINE R == {ss \in Nat \X Nat : ss[1] < ss[2]}
<1>1. IsWellFoundedOn(R, Nat)
  BY NatLessThanWellFounded DEF OpToRel
<1>2. \E x \in T : \A y \in T : ~ (<<y, x>> \in R)
  <2> HIDE DEF R
  <2> QED
    BY <1>1, WFMin
<1>3. \A x, y \in Nat : ~ (<<y, x>> \in R) => x <= y
  OBVIOUS
<1> QED
  BY <1>2, <1>3

\* What holds of 0, and of the next number of each it holds of, holds of all.
LEMMA AllNumbers ==
    ASSUME NEW T \in SUBSET Nat, 0 \in T, \A n \in T : n + 1 \in T
    PROVE  T = Nat
<1>1. SUFFICES ASSUME Nat \ T # {} PROVE FALSE
  OBVIOUS
<1> PICK m \in Nat \ T : \A k \in Nat \ T : m <= k
  BY <1>1, LeastNumber
<1>2. m # 0 /\ m - 1 \in Nat
  OBVIOUS
<1>3. m - 1 \in T
  BY <1>2
<1>4. (m - 1) + 1 = m
  OBVIOUS
<1> QED
  BY <1>3, <1>4

-----------------------------------------------------------------------------
(* Lists of entries.                                                       *)

EntryRecord == [key : 1 .. MaxKey, place : Place, origin : Origin]

\* No two entries of a list have the same key, or the same place.
Distinct(list) ==
    \A i, j \in DOMAIN list :
        list[i].key = list[j].key \/ list[i].place = list[j].place => i = j

\* f takes, of the first entries of a list, those that are not gone.
TakenIs(list, gone, n, f) ==
    f = [i \in 0 .. n |-> IF i = 0 THEN <<>>
                          ELSE IF list[i] \in gone THEN f[i - 1] ELSE Append(f[i - 1], list[i])]

\* The recursion of Without defines a function.
LEMMA TakenExists ==
    ASSUME NEW list, NEW gone, NEW n \in Nat
    PROVE  \E f : TakenIs(list, gone, n, f)
<1> DEFINE T == {m \in Nat : \E f : TakenIs(list, gone, m, f)}
<1>1. 0 \in T
  <2>1. TakenIs(list, gone, 0, [i \in 0 .. 0 |-> <<>>])
    BY DEF TakenIs
  <2> QED
    BY <2>1
<1>2. ASSUME NEW m \in T PROVE m + 1 \in T
  <2> PICK f : TakenIs(list, gone, m, f)
    OBVIOUS
  <2> DEFINE last == IF list[m + 1] \in gone THEN f[m] ELSE Append(f[m], list[m + 1])
             g == [i \in 0 .. m + 1 |-> IF i = m + 1 THEN last ELSE f[i]]
  <2>1. m \in Nat /\ m + 1 # 0
    OBVIOUS
  <2>2. \A i \in 0 .. m : f[i] = IF i = 0 THEN <<>>
                                 ELSE IF list[i] \in gone THEN f[i - 1]
                                 ELSE Append(f[i - 1], list[i])
    BY DEF TakenIs
  <2>3. \A i \in 0 .. m + 1 : i # 0 => i - 1 \in 0 .. m /\ i - 1 # m + 1 /\ i - 1 \in 0 .. m + 1
    BY <2>1
  <2>4. \A i \in 0 .. m + 1 : i # m + 1 => i \in 0 .. m
    BY <2>1
  <2>5. (m + 1) - 1 = m
    BY <2>1
  <2>6. \A i \in 0 .. m + 1 : g[i] = IF i = 0 THEN <<>>
                                     ELSE IF list[i] \in gone THEN g[i - 1]
                                     ELSE Append(g[i - 1], list[i])
    BY <2>1, <2>2, <2>3, <2>4, <2>5
  <2>7. TakenIs(list, gone, m + 1, g)
    BY <2>6 DEF TakenIs
  <2> QED
    BY <2>1, <2>7
<1>3. T = Nat
  <2> HIDE DEF T
  <2>1. T \in SUBSET Nat
    BY DEF T
  <2> QED
    BY <1>1, <1>2, <2>1, AllNumbers
<1> QED
  BY <1>3

\* Without is what that function is at the end.
LEMMA WithoutIs ==
    ASSUME NEW list \in Seq(EntryRecord), NEW gone
    PROVE  \E f : TakenIs(list, gone, Len(list), f) /\ Without(list, gone) = f[Len(list)]
<1> DEFINE f == CHOOSE f : TakenIs(list, gone, Len(list), f)
<1>1. TakenIs(list, gone, Len(list), f)
  BY TakenExists, LenProperties
<1>2. Without(list, gone) = f[Len(list)]
  BY DEF Without, TakenIs
<1> QED
  BY <1>1, <1>2

\* One entry more at the end of a list, of another key and another place.
LEMMA AppendDistinct ==
    ASSUME NEW h \in Seq(EntryRecord), NEW x \in EntryRecord, Distinct(h),
           \A i \in 1 .. Len(h) : h[i].key # x.key /\ h[i].place # x.place
    PROVE  Append(h, x) \in Seq(EntryRecord) /\ Distinct(Append(h, x))
<1>1. /\ Append(h, x) \in Seq(EntryRecord) /\ Len(Append(h, x)) = Len(h) + 1 /\ Len(h) \in Nat
      /\ \A i \in 1 .. Len(h) : Append(h, x)[i] = h[i]
      /\ Append(h, x)[Len(h) + 1] = x
  BY AppendProperties, LenProperties
<1>2. DOMAIN h = 1 .. Len(h) /\ DOMAIN Append(h, x) = 1 .. Len(h) + 1
  BY <1>1, LenProperties
<1> DEFINE g == Append(h, x)
<1> HIDE DEF g
<1>3. \A i \in 1 .. Len(h) + 1 : i \in 1 .. Len(h) \/ i = Len(h) + 1
  BY <1>1
<1>4. \A i, j \in DOMAIN g : g[i].key = g[j].key \/ g[i].place = g[j].place => i = j
  BY <1>1, <1>2, <1>3 DEF g, Distinct
<1> QED
  BY <1>1, <1>4 DEF g, Distinct

\* What a function as Without's takes of a list, at each of its places.
TakenSound(list, gone, h, n) ==
    /\ h \in Seq(EntryRecord) /\ Len(h) <= n
    /\ \A i \in 1 .. Len(h) : \E j \in 1 .. n : h[i] = list[j] /\ list[j] \notin gone
    /\ Distinct(list) => Distinct(h)

\* One entry more of the list.
LEMMA TakenNext ==
    ASSUME NEW list \in Seq(EntryRecord), NEW gone, NEW n \in Nat, n + 1 \in 1 .. Len(list),
           NEW h, TakenSound(list, gone, h, n)
    PROVE  TakenSound(list, gone, IF list[n + 1] \in gone THEN h ELSE Append(h, list[n + 1]), n + 1)
<1> DEFINE x == list[n + 1]
<1>1. x \in EntryRecord /\ h \in Seq(EntryRecord) /\ Len(h) \in Nat /\ Len(h) <= n
  BY ElementOfSeq, LenProperties DEF TakenSound
<1>2. \A j \in 1 .. n : j \in 1 .. n + 1 /\ j # n + 1 /\ j \in 1 .. Len(list)
  BY LenProperties
<1>3. n + 1 \in 1 .. n + 1 /\ Len(h) <= n + 1 /\ Len(h) + 1 <= n + 1
  BY <1>1
<1>4. DOMAIN list = 1 .. Len(list)
  BY LenProperties
<1> HIDE DEF x
<1>5. CASE x \in gone
  BY <1>1, <1>2, <1>3, <1>5 DEF TakenSound, x
<1>6. CASE x \notin gone
  <2>1. /\ Append(h, x) \in Seq(EntryRecord) /\ Len(Append(h, x)) = Len(h) + 1
        /\ \A i \in 1 .. Len(h) : Append(h, x)[i] = h[i]
        /\ Append(h, x)[Len(h) + 1] = x
    BY <1>1, AppendProperties
  <2>2. \A i \in 1 .. Len(h) + 1 : i \in 1 .. Len(h) \/ i = Len(h) + 1
    BY <1>1
  <2>3. ASSUME NEW i \in 1 .. Len(Append(h, x))
        PROVE  \E j \in 1 .. n + 1 : Append(h, x)[i] = list[j] /\ list[j] \notin gone
    <3>1. CASE i \in 1 .. Len(h)
      BY <1>2, <2>1, <3>1 DEF TakenSound
    <3>2. CASE i = Len(h) + 1
      BY <1>3, <1>6, <2>1, <3>2 DEF x
    <3> QED
      BY <2>1, <2>2, <3>1, <3>2
  <2>4. ASSUME Distinct(list) PROVE Distinct(Append(h, x))
    <3>1. \A i \in 1 .. Len(h) : h[i].key # x.key /\ h[i].place # x.place
      <4> SUFFICES ASSUME NEW i \in 1 .. Len(h)
                   PROVE  h[i].key # x.key /\ h[i].place # x.place
        OBVIOUS
      <4> PICK j \in 1 .. n : h[i] = list[j]
        BY DEF TakenSound
      <4> QED
        BY <1>2, <1>4, <2>4 DEF Distinct, x
    <3> QED
      BY <1>1, <2>4, <3>1, AppendDistinct DEF TakenSound
  <2> QED
    BY <1>3, <1>6, <2>1, <2>3, <2>4 DEF TakenSound, x
<1> QED
  BY <1>5, <1>6

\* Without takes entries of the list that are not gone, none of them twice.
LEMMA WithoutSound ==
    ASSUME NEW list \in Seq(EntryRecord), NEW gone
    PROVE  TakenSound(list, gone, Without(list, gone), Len(list))
<1> PICK f : TakenIs(list, gone, Len(list), f) /\ Without(list, gone) = f[Len(list)]
  BY WithoutIs
<1> DEFINE T == {n \in Nat : n <= Len(list) => TakenSound(list, gone, f[n], n)}
<1>1. Len(list) \in Nat
  BY LenProperties
<1>2. /\ f[0] = <<>>
      /\ \A n \in Nat : n + 1 <= Len(list) =>
            /\ n <= Len(list) /\ n + 1 \in 1 .. Len(list)
            /\ f[n + 1] = IF list[n + 1] \in gone THEN f[n] ELSE Append(f[n], list[n + 1])
  <2>1. \A i \in 0 .. Len(list) : f[i] = IF i = 0 THEN <<>>
                                         ELSE IF list[i] \in gone THEN f[i - 1]
                                         ELSE Append(f[i - 1], list[i])
    BY DEF TakenIs
  <2>2. \A n \in Nat : n + 1 <= Len(list) =>
            /\ n <= Len(list) /\ n + 1 \in 1 .. Len(list)
            /\ n + 1 \in 0 .. Len(list) /\ (n + 1) - 1 = n /\ n + 1 # 0
    BY <1>1
  <2>3. 0 \in 0 .. Len(list)
    BY <1>1
  <2> QED
    BY <2>1, <2>2, <2>3
<1>3. 0 \in T
  <2>1. TakenSound(list, gone, <<>>, 0)
    BY EmptySeq DEF TakenSound, Distinct
  <2> QED
    BY <1>2, <2>1
<1>4. ASSUME NEW n \in T PROVE n + 1 \in T
  BY <1>2, TakenNext
<1>5. T = Nat
  <2> HIDE DEF T
  <2>1. T \in SUBSET Nat
    BY DEF T
  <2> QED
    BY <1>3, <1>4, <2>1, AllNumbers
<1> QED
  BY <1>1, <1>5

\* f reads the first entries of a list, as decode does.
SeenIs(list, n, f) ==
    f = [i \in 0 .. n |-> IF i = 0 THEN <<>>
                          ELSE IF Known(f[i - 1], list[i]) THEN f[i - 1]
                          ELSE Append(f[i - 1], list[i])]

\* The recursion of decode defines a function.
LEMMA SeenExists ==
    ASSUME NEW list, NEW n \in Nat
    PROVE  \E f : SeenIs(list, n, f)
<1> DEFINE T == {m \in Nat : \E f : SeenIs(list, m, f)}
<1>1. 0 \in T
  <2>1. SeenIs(list, 0, [i \in 0 .. 0 |-> <<>>])
    BY DEF SeenIs
  <2> QED
    BY <2>1
<1>2. ASSUME NEW m \in T PROVE m + 1 \in T
  <2> PICK f : SeenIs(list, m, f)
    OBVIOUS
  <2> DEFINE last == IF Known(f[m], list[m + 1]) THEN f[m] ELSE Append(f[m], list[m + 1])
             g == [i \in 0 .. m + 1 |-> IF i = m + 1 THEN last ELSE f[i]]
  <2>1. m \in Nat /\ m + 1 # 0
    OBVIOUS
  <2>2. \A i \in 0 .. m : f[i] = IF i = 0 THEN <<>>
                                 ELSE IF Known(f[i - 1], list[i]) THEN f[i - 1]
                                 ELSE Append(f[i - 1], list[i])
    BY DEF SeenIs
  <2>3. \A i \in 0 .. m + 1 : i # 0 => i - 1 \in 0 .. m /\ i - 1 # m + 1 /\ i - 1 \in 0 .. m + 1
    BY <2>1
  <2>4. \A i \in 0 .. m + 1 : i # m + 1 => i \in 0 .. m
    BY <2>1
  <2>5. (m + 1) - 1 = m
    BY <2>1
  <2>6. \A i \in 0 .. m + 1 : g[i] = IF i = 0 THEN <<>>
                                     ELSE IF Known(g[i - 1], list[i]) THEN g[i - 1]
                                     ELSE Append(g[i - 1], list[i])
    BY <2>1, <2>2, <2>3, <2>4, <2>5
  <2>7. SeenIs(list, m + 1, g)
    BY <2>6 DEF SeenIs
  <2> QED
    BY <2>1, <2>7
<1>3. T = Nat
  <2> HIDE DEF T
  <2>1. T \in SUBSET Nat
    BY DEF T
  <2> QED
    BY <1>1, <1>2, <2>1, AllNumbers
<1> QED
  BY <1>3

\* An entry that is not known has another key and another place than every entry.
LEMMA UnknownDistinct ==
    ASSUME NEW h \in Seq(EntryRecord), NEW x \in EntryRecord, ~ Known(h, x)
    PROVE  \A i \in 1 .. Len(h) : h[i].key # x.key /\ h[i].place # x.place
<1>1. DOMAIN h = 1 .. Len(h)
  BY LenProperties
<1> QED
  BY <1>1 DEF Known, KeysOf, PlacesOf, Elements

\* What is kept of a list that has no entry twice has none twice.
LEMMA BoundedSound ==
    ASSUME NEW list \in Seq(EntryRecord), Distinct(list)
    PROVE  /\ Bounded(list) \in Seq(EntryRecord) /\ Distinct(Bounded(list))
           /\ Len(Bounded(list)) <= MaxEntries /\ Len(Bounded(list)) <= Len(list)
           /\ \A i \in 1 .. Len(Bounded(list)) : Bounded(list)[i] = list[i]
<1> DEFINE n == IF Len(list) < MaxEntries THEN Len(list) ELSE MaxEntries
           b == SubSeq(list, 1, n)
<1>1. /\ n \in Nat /\ n <= Len(list) /\ n <= MaxEntries /\ Len(list) \in Nat
      /\ DOMAIN list = 1 .. Len(list)
  BY LenProperties, RecentsAssumption
<1> HIDE DEF n
<1>2. \A i \in 1 .. n : i \in 1 .. Len(list) /\ list[i] \in EntryRecord
  BY <1>1, ElementOfSeq
<1>3. /\ b \in Seq(EntryRecord) /\ Len(b) = n
      /\ \A i \in 1 .. n : b[i] = list[i]
  <2>1. /\ 1 \in Int /\ n \in Int
        /\ Len(b) = (IF 1 <= n THEN n - 1 + 1 ELSE 0) => Len(b) = n
        /\ \A i \in 1 .. n : i \in 1 .. n - 1 + 1 /\ 1 + i - 1 = i
    BY <1>1
  <2>2. /\ b \in Seq(EntryRecord) /\ Len(b) = (IF 1 <= n THEN n - 1 + 1 ELSE 0)
        /\ \A i \in 1 .. n - 1 + 1 : b[i] = list[1 + i - 1]
    BY <1>2, <2>1, SubSeqProperties
  <2> QED
    BY <2>1, <2>2
<1>4. DOMAIN b = 1 .. n
  BY <1>3, LenProperties
<1>5. Bounded(list) = b
  BY DEF Bounded, n
<1> HIDE DEF b
<1> QED
  BY <1>1, <1>2, <1>3, <1>4, <1>5 DEF Distinct

\* decode: whatever was stored, the list it reads is bounded and has no key and no
\* place twice.
LEMMA DecodedSound ==
    ASSUME NEW list \in Seq(EntryRecord)
    PROVE  /\ Decoded(list) \in Seq(EntryRecord) /\ Distinct(Decoded(list))
           /\ Len(Decoded(list)) <= MaxEntries
<1>1. Len(list) \in Nat
  BY LenProperties
<1> DEFINE f == CHOOSE f : SeenIs(list, Len(list), f)
<1>2. SeenIs(list, Len(list), f)
  BY <1>1, SeenExists
<1>3. Decoded(list) = Bounded(f[Len(list)])
  BY DEF Decoded, SeenIs
<1> HIDE DEF f
<1> DEFINE T == {n \in Nat : n <= Len(list) => f[n] \in Seq(EntryRecord) /\ Distinct(f[n])}
<1>4. /\ f[0] = <<>>
      /\ \A n \in Nat : n + 1 <= Len(list) =>
            /\ n <= Len(list) /\ n + 1 \in 1 .. Len(list)
            /\ f[n + 1] = IF Known(f[n], list[n + 1]) THEN f[n] ELSE Append(f[n], list[n + 1])
  <2>1. \A i \in 0 .. Len(list) : f[i] = IF i = 0 THEN <<>>
                                         ELSE IF Known(f[i - 1], list[i]) THEN f[i - 1]
                                         ELSE Append(f[i - 1], list[i])
    BY <1>2 DEF SeenIs
  <2>2. \A n \in Nat : n + 1 <= Len(list) =>
            /\ n <= Len(list) /\ n + 1 \in 1 .. Len(list)
            /\ n + 1 \in 0 .. Len(list) /\ (n + 1) - 1 = n /\ n + 1 # 0
    BY <1>1
  <2>3. 0 \in 0 .. Len(list)
    BY <1>1
  <2> QED
    BY <2>1, <2>2, <2>3
<1>5. 0 \in T
  <2>1. <<>> \in Seq(EntryRecord) /\ Distinct(<<>>)
    BY EmptySeq DEF Distinct
  <2> QED
    BY <1>4, <2>1
<1>6. ASSUME NEW n \in T PROVE n + 1 \in T
  <2> SUFFICES ASSUME n \in Nat, n + 1 <= Len(list)
               PROVE  f[n + 1] \in Seq(EntryRecord) /\ Distinct(f[n + 1])
    OBVIOUS
  <2>1. /\ f[n] \in Seq(EntryRecord) /\ Distinct(f[n]) /\ n + 1 \in 1 .. Len(list)
        /\ f[n + 1] = IF Known(f[n], list[n + 1]) THEN f[n] ELSE Append(f[n], list[n + 1])
    BY <1>4
  <2>2. list[n + 1] \in EntryRecord
    BY <2>1, ElementOfSeq
  <2>3. CASE Known(f[n], list[n + 1])
    BY <2>1, <2>3
  <2>4. CASE ~ Known(f[n], list[n + 1])
    BY <2>1, <2>2, <2>4, UnknownDistinct, AppendDistinct
  <2> QED
    BY <2>3, <2>4
<1>7. T = Nat
  <2> HIDE DEF T
  <2>1. T \in SUBSET Nat
    BY DEF T
  <2> QED
    BY <1>5, <1>6, <2>1, AllNumbers
<1>8. f[Len(list)] \in Seq(EntryRecord) /\ Distinct(f[Len(list)])
  BY <1>1, <1>7
<1> QED
  BY <1>3, <1>8, BoundedSound

-----------------------------------------------------------------------------
(* The inductive invariant.                                                *)

\* What `remember` has found so far of the entry it is to make.
Draft == [key : {0}, place : Place \union {Nowhere}, origin : Origin]

Pc == {"idle", "marked", "found", "checked", "granted", "create", "write", "rename",
       "revoked", "taken", "forget", "withdrawn"}
Call == [pc : Pc, id : GrantId \union {NoGrant}, entry : EntryRecord \union Draft \union {<<>>},
         list : Seq(EntryRecord), fd : Inode \union {0}, roots : SUBSET GrantId,
         keys : SUBSET (1 .. MaxKey)]

RecentsTypeOK ==
    /\ entries \in Seq(EntryRecord) /\ nextKey \in 1 .. MaxKey + 1
    /\ held \in [GrantId -> 0 .. MaxKey] /\ sources \in [GrantId -> Place \union {Nowhere}]
    /\ inode \in [stored : Inode \union {0}, staging : Inode \union {0}]
    /\ content \in [Inode -> Seq(EntryRecord)]
    /\ op \in [Thread -> Call]

\* The list is bounded, and its keys are of those given out.
EntriesSound ==
    /\ Len(entries) <= MaxEntries /\ Distinct(entries)
    /\ \A i \in DOMAIN entries : entries[i].key < nextKey

\* A key, while the list has an entry of it, is of that place.
Names(list, key, place) == \A i \in DOMAIN list : list[i].key = key => list[i].place = place
KeyNames(key, place) == Names(entries, key, place)

\* Only handles given out hold an entry or have a place, and what a grant
\* holds is the entry of its own place.
HeldSound ==
    \A id \in GrantId :
        /\ held[id] # 0 \/ sources[id] # Nowhere => id \in issued
        /\ held[id] < nextKey
        /\ sources[id] # Nowhere => KeyNames(held[id], sources[id])

\* What a call in flight carries agrees with the list as it has become since.
CallSound(c) ==
    /\ c.pc = "write" => c.fd \in Inode
    /\ c.pc \in {"marked", "found", "granted"} => c.id \in issued
    /\ c.pc \in {"marked", "found"} => c.entry \in Draft
    /\ c.pc \in {"found", "granted"} =>
          c.entry.place \in Place /\ sources[c.id] \in {Nowhere, c.entry.place}
    /\ c.pc \in {"checked", "granted"} =>
          /\ c.entry \in EntryRecord /\ c.entry.key < nextKey
          /\ KeyNames(c.entry.key, c.entry.place)

ListInv ==
    /\ RecentsTypeOK /\ EntriesSound /\ HeldSound
    /\ \A t \in Thread : CallSound(op[t])

RecentsInv == RegistryInv /\ ListInv

-----------------------------------------------------------------------------
(* Steps that leave the list as it is.                                     *)

\* The list of the store's part of a state, and what the handles hold of it.
StoreUnchanged == UNCHANGED <<entries, nextKey, held, sources>>

\* While nothing of the list changes, and numbers are given out, what a call
\* carries still agrees with it.
LEMMA CallsStay ==
    ASSUME StoreUnchanged, issued \subseteq issued'
    PROVE  \A c : CallSound(c) => CallSound(c)'
BY DEF StoreUnchanged, CallSound, KeyNames

\* A thread goes on to a call that agrees with the list, and a save goes on
\* with lists of entries.
LEMMA CallMoves ==
    ASSUME ListInv, StoreUnchanged, issued \subseteq issued',
           NEW t \in Thread, NEW c \in Call, CallSound(c), op' = [op EXCEPT ![t] = c],
           inode' \in [stored : Inode \union {0}, staging : Inode \union {0}],
           content' \in [Inode -> Seq(EntryRecord)]
    PROVE  ListInv'
<1>1. RecentsTypeOK'
  BY DEF ListInv, RecentsTypeOK, StoreUnchanged
<1>2. EntriesSound' /\ HeldSound'
  BY DEF ListInv, EntriesSound, HeldSound, KeyNames, Names, Distinct, StoreUnchanged
<1>3. \A u \in Thread : op'[u] \in {op[u], c}
  BY DEF ListInv, RecentsTypeOK
<1>4. \A u \in Thread : CallSound(op'[u])
  BY <1>3 DEF ListInv
<1>5. \A u \in Thread : CallSound(op[u])'
  <2> SUFFICES ASSUME NEW u \in Thread PROVE CallSound(op[u])'
    OBVIOUS
  <2> QED
    BY <1>4 DEF CallSound, KeyNames, Names, StoreUnchanged
<1> QED
  BY <1>1, <1>2, <1>5 DEF ListInv

\* Nothing is in flight, and a thread that does nothing carries nothing.
LEMMA IdleSound == Idle \in Call /\ CallSound(Idle)
<1>1. <<>> \in Seq(EntryRecord)
  BY EmptySeq
<1> QED
  BY <1>1 DEF Idle, Call, Pc, CallSound

\* What a save leaves its thread with.
LEMMA AfterSave ==
    ASSUME ListInv, NEW t \in Thread, SaveDone(t)
    PROVE  \E c \in Call : CallSound(c) /\ op' = [op EXCEPT ![t] = c]
<1>1. CASE op[t].roots = {}
  BY <1>1, IdleSound DEF SaveDone
<1>2. CASE op[t].roots # {}
  <2> DEFINE c == [op[t] EXCEPT !.pc = "forget", !.list = <<>>, !.fd = 0]
  <2>1. op' = [op EXCEPT ![t] = c]
    BY <1>2 DEF SaveDone
  <2>2. op[t] \in Call /\ <<>> \in Seq(EntryRecord)
    BY EmptySeq DEF ListInv, RecentsTypeOK
  <2>3. c \in Call /\ c.pc = "forget"
    BY <2>2 DEF Call, Pc
  <2> HIDE DEF c
  <2>4. CallSound(c)
    BY <2>3 DEF CallSound
  <2> QED
    BY <2>1, <2>3, <2>4
<1> QED
  BY <1>1, <1>2

\* save: the staging file is made, or emptied.
LEMMA SaveCreateKeeps ==
    ASSUME ListInv, NEW t \in Thread, SaveCreate(t)
    PROVE  ListInv'
<1> PICK i \in Inode : /\ inode' = [inode EXCEPT !["staging"] = i]
                       /\ content' = [content EXCEPT ![i] = <<>>]
                       /\ op' = [op EXCEPT ![t].pc = "write", ![t].fd = i]
  BY DEF SaveCreate
<1> DEFINE c == [op[t] EXCEPT !.pc = "write", !.fd = i]
<1>1. op[t] \in Call /\ op' = [op EXCEPT ![t] = c]
  BY DEF ListInv, RecentsTypeOK
<1>2. c \in Call /\ c.pc = "write" /\ c.fd = i
  BY <1>1 DEF Call, Pc
<1> HIDE DEF c
<1>3. CallSound(c)
  BY <1>2 DEF CallSound
<1>4. /\ inode' \in [stored : Inode \union {0}, staging : Inode \union {0}]
      /\ content' \in [Inode -> Seq(EntryRecord)]
  BY EmptySeq DEF ListInv, RecentsTypeOK
<1>5. StoreUnchanged /\ issued \subseteq issued'
  BY DEF SaveCreate, StoreUnchanged, listVars, grantVars
<1> QED
  BY <1>1, <1>2, <1>3, <1>4, <1>5, CallMoves

\* save: the list is written, over whatever the file holds.
LEMMA SaveWriteKeeps ==
    ASSUME ListInv, NEW t \in Thread, SaveWrite(t)
    PROVE  ListInv'
<1> DEFINE c == [op[t] EXCEPT !.pc = "rename"]
           list == op[t].list
           old == content[op[t].fd]
           rest == SubSeq(old, Len(list) + 1, Len(old))
<1>1. op[t] \in Call /\ op' = [op EXCEPT ![t] = c]
  BY DEF ListInv, RecentsTypeOK, SaveWrite, Goto
<1>2. c \in Call /\ c.pc = "rename"
  BY <1>1 DEF Call, Pc
<1>3. CallSound(c)
  <2> HIDE DEF c
  <2> QED
    BY <1>2 DEF CallSound
<1>4. op[t].fd \in Inode /\ list \in Seq(EntryRecord)
  BY <1>1 DEF ListInv, CallSound, SaveWrite, At, Call
<1>5. old \in Seq(EntryRecord)
  BY <1>4 DEF ListInv, RecentsTypeOK
<1>6. rest \in Seq(EntryRecord)
  <2> HIDE DEF list, old
  <2>1. Len(list) \in Nat /\ Len(old) \in Nat
    BY <1>4, <1>5, LenProperties
  <2>2. Len(list) + 1 \in Int /\ Len(old) \in Int
    BY <2>1
  <2>3. \A i \in Len(list) + 1 .. Len(old) : i \in 1 .. Len(old)
    BY <2>1
  <2>4. \A i \in Len(list) + 1 .. Len(old) : old[i] \in EntryRecord
    BY <1>5, <2>3, ElementOfSeq
  <2> QED
    BY <2>2, <2>4, SubSeqProperties
<1>7. list \o rest \in Seq(EntryRecord)
  BY <1>4, <1>6, ConcatProperties
<1>8. content' = [content EXCEPT ![op[t].fd] = list \o rest]
  BY DEF SaveWrite
<1>9. content' \in [Inode -> Seq(EntryRecord)]
  <2> HIDE DEF list, rest
  <2> QED
    BY <1>7, <1>8 DEF ListInv, RecentsTypeOK
<1>10. inode' \in [stored : Inode \union {0}, staging : Inode \union {0}]
  BY DEF SaveWrite, ListInv, RecentsTypeOK
<1>11. StoreUnchanged /\ issued \subseteq issued'
  BY DEF SaveWrite, StoreUnchanged, listVars, grantVars
<1> HIDE DEF c
<1> QED
  BY <1>1, <1>2, <1>3, <1>9, <1>10, <1>11, CallMoves

\* save: the staging file becomes the stored list, or is gone already.
LEMMA SaveRenameKeeps ==
    ASSUME ListInv, NEW t \in Thread, SaveRename(t)
    PROVE  ListInv'
<1> PICK c \in Call : CallSound(c) /\ op' = [op EXCEPT ![t] = c]
  BY AfterSave DEF SaveRename
<1>1. StoreUnchanged /\ issued \subseteq issued'
  BY DEF SaveRename, StoreUnchanged, listVars, grantVars
<1>2. /\ inode' \in [stored : Inode \union {0}, staging : Inode \union {0}]
      /\ content' \in [Inode -> Seq(EntryRecord)]
  <2>1. CASE inode["staging"] = 0
    BY <2>1 DEF SaveRename, saved, ListInv, RecentsTypeOK
  <2>2. CASE inode["staging"] # 0
    <3>1. <<>> \in Seq(EntryRecord) /\ inode["staging"] \in Inode \union {0}
      BY EmptySeq DEF ListInv, RecentsTypeOK
    <3>2. /\ inode' = [stored |-> inode["staging"], staging |-> 0]
          /\ content' = [i \in Inode |-> IF i = inode["stored"] THEN <<>> ELSE content[i]]
      BY <2>2 DEF SaveRename
    <3>3. inode' \in [stored : Inode \union {0}, staging : Inode \union {0}]
      BY <3>1, <3>2
    <3>4. content \in [Inode -> Seq(EntryRecord)]
      BY DEF ListInv, RecentsTypeOK
    <3>5. content' \in [Inode -> Seq(EntryRecord)]
      BY <3>1, <3>2, <3>4
    <3> QED
      BY <3>3, <3>5
  <2> QED
    BY <2>1, <2>2
<1> QED
  BY <1>1, <1>2, CallMoves

\* save: the file system refuses a step.
LEMMA SaveFailKeeps ==
    ASSUME ListInv, NEW t \in Thread, SaveFail(t)
    PROVE  ListInv'
<1> PICK c \in Call : CallSound(c) /\ op' = [op EXCEPT ![t] = c]
  BY AfterSave DEF SaveFail
<1>1. StoreUnchanged /\ issued \subseteq issued'
  BY DEF SaveFail, StoreUnchanged, listVars, grantVars
<1>2. /\ inode' \in [stored : Inode \union {0}, staging : Inode \union {0}]
      /\ content' \in [Inode -> Seq(EntryRecord)]
  BY DEF SaveFail, ListInv, RecentsTypeOK
<1> QED
  BY <1>1, <1>2, CallMoves

\* The same, when what is saved stays too.
LEMMA ThreadMoves ==
    ASSUME ListInv, UNCHANGED <<issued, listVars, saved>>,
           NEW t \in Thread, NEW c \in Call, CallSound(c), op' = [op EXCEPT ![t] = c]
    PROVE  ListInv'
<1>1. StoreUnchanged /\ issued \subseteq issued'
  BY DEF StoreUnchanged, listVars
<1>2. /\ inode' \in [stored : Inode \union {0}, staging : Inode \union {0}]
      /\ content' \in [Inode -> Seq(EntryRecord)]
  BY DEF saved, ListInv, RecentsTypeOK
<1> QED
  BY <1>1, <1>2, CallMoves

\* remember: the grant it marks is recorded, and so of a number given out.
LEMMA RememberMarkKeeps ==
    ASSUME RecentsInv, NEW t \in Thread, NEW id \in GrantId, RememberMark(t, id)
    PROVE  ListInv'
<1> DEFINE e == Entry(0, Nowhere, grants[id].origin)
           c == [Idle EXCEPT !.pc = "marked", !.id = id, !.entry = e]
<1>1. op' = [op EXCEPT ![t] = c] /\ UNCHANGED <<issued, listVars, saved>>
  BY DEF RememberMark
<1>2. Recorded(id)
  BY DEF RememberMark, Rememberable
<1>3. grants[id] \in Grant /\ id \in issued
  BY <1>2 DEF RecentsInv, RegistryInv, NumbersIssued, GrantsTypeOK, Recorded
<1>4. e \in Draft
  BY <1>3 DEF Grant, Entry, Draft
<1> HIDE DEF e
<1>5. c \in Call /\ c.pc = "marked" /\ c.id = id /\ c.entry = e
  BY <1>4, IdleSound DEF Call, Pc
<1> HIDE DEF c
<1>6. CallSound(c)
  BY <1>3, <1>4, <1>5 DEF CallSound
<1> QED
  BY <1>1, <1>5, <1>6, ThreadMoves DEF RecentsInv

\* remember: the place it finds is the grant's, as long as it has one.
LEMMA RememberFindKeeps ==
    ASSUME RecentsInv, NEW t \in Thread, RememberFind(t)
    PROVE  ListInv'
<1> DEFINE p == sources[op[t].id]
           e == [op[t].entry EXCEPT !.place = p]
           c == [op[t] EXCEPT !.pc = "found", !.entry = e]
<1>1. UNCHANGED <<issued, listVars, saved>>
  BY DEF RememberFind, grantVars
<1>2. CASE Returns(t)
  BY <1>1, <1>2, IdleSound, ThreadMoves DEF Returns, RecentsInv
<1>3. CASE ~ Returns(t)
  <2>1. p # Nowhere /\ op' = [op EXCEPT ![t].pc = "found", ![t].entry.place = p]
    BY <1>3 DEF RememberFind
  <2>2. op[t] \in Call /\ CallSound(op[t]) /\ op[t].pc = "marked"
    BY DEF RecentsInv, ListInv, RecentsTypeOK, RememberFind, At
  <2>3. op[t].id \in issued /\ op[t].entry \in Draft
    BY <2>2 DEF CallSound
  <2>4. op' = [op EXCEPT ![t] = c]
    BY <2>1, <2>2 DEF RecentsInv, ListInv, RecentsTypeOK
  <2>5. p \in Place \union {Nowhere}
    <3>1. op[t].id \in GrantId
      BY <2>3 DEF RecentsInv, RegistryInv, GrantsTypeOK
    <3> QED
      BY <3>1 DEF RecentsInv, ListInv, RecentsTypeOK
  <2>6. p \in Place
    BY <2>1, <2>5
  <2> HIDE DEF p
  <2>7. e \in Draft /\ e.place = p
    BY <2>3, <2>6 DEF Draft
  <2> HIDE DEF e
  <2>8. c \in Call /\ c.pc = "found" /\ c.entry = e /\ c.id = op[t].id
    BY <2>2, <2>7 DEF Call, Pc
  <2> HIDE DEF c
  <2>9. CallSound(c)
    BY <2>3, <2>6, <2>7, <2>8 DEF CallSound, p
  <2> QED
    BY <1>1, <2>4, <2>8, <2>9, ThreadMoves DEF RecentsInv
<1> QED
  BY <1>2, <1>3

\* check: the entry is one of the list.
LEMMA ReopenKeeps ==
    ASSUME ListInv, NEW t \in Thread, NEW i \in DOMAIN entries, Reopen(t, i)
    PROVE  ListInv'
<1> DEFINE e == entries[i]
           c == [Idle EXCEPT !.pc = "checked", !.entry = e]
<1>1. UNCHANGED <<issued, listVars, saved>> /\ op' = [op EXCEPT ![t] = c]
  BY DEF Reopen, grantVars
<1>2. e \in EntryRecord /\ e.key < nextKey /\ KeyNames(e.key, e.place)
  BY DEF ListInv, RecentsTypeOK, EntriesSound, KeyNames, Names, Distinct
<1> HIDE DEF e
<1>3. c \in Call /\ c.pc = "checked" /\ c.entry = e
  BY <1>2, IdleSound DEF Call, Pc
<1> HIDE DEF c
<1>4. CallSound(c)
  BY <1>2, <1>3 DEF CallSound
<1> QED
  BY <1>1, <1>3, <1>4, ThreadMoves

\* The steps of a withdrawal outside the list.
LEMMA WithdrawKeeps ==
    ASSUME RecentsInv, NEW t \in Thread, Withdraw(t) \/ WithdrawTake(t) \/ WithdrawFind(t)
    PROVE  ListInv'
<1>1. UNCHANGED <<issued, listVars, saved>>
  BY DEF Withdraw, WithdrawTake, WithdrawFind, grantVars
<1>2. op[t] \in Call /\ withdrawn \subseteq GrantId
  BY DEF RecentsInv, ListInv, RecentsTypeOK, RegistryInv, GrantsTypeOK
<1>3. CASE Withdraw(t)
  <2> DEFINE c == [Idle EXCEPT !.pc = "revoked"]
  <2>1. op' = [op EXCEPT ![t] = c]
    BY <1>3 DEF Withdraw
  <2>2. c \in Call /\ c.pc = "revoked"
    BY IdleSound DEF Call, Pc
  <2> HIDE DEF c
  <2>3. CallSound(c)
    BY <2>2 DEF CallSound
  <2> QED
    BY <1>1, <2>1, <2>2, <2>3, ThreadMoves DEF RecentsInv
<1>4. CASE WithdrawTake(t)
  <2> DEFINE c == [op[t] EXCEPT !.pc = "taken", !.roots = withdrawn]
  <2>1. op' = [op EXCEPT ![t] = Idle] \/ op' = [op EXCEPT ![t] = c]
    BY <1>4 DEF WithdrawTake
  <2>2. c \in Call /\ c.pc = "taken"
    BY <1>2 DEF Call, Pc
  <2> HIDE DEF c
  <2>3. CallSound(c)
    BY <2>2 DEF CallSound
  <2> QED
    BY <1>1, <2>1, <2>2, <2>3, IdleSound, ThreadMoves DEF RecentsInv
<1>5. CASE WithdrawFind(t)
  <2> DEFINE K == {held[id] : id \in op[t].roots} \ {0}
             c == [op[t] EXCEPT !.pc = "forget", !.keys = K]
  <2>1. op' = [op EXCEPT ![t] = c]
    BY <1>2, <1>5 DEF WithdrawFind, RecentsInv, ListInv, RecentsTypeOK
  <2>2. op[t].roots \subseteq GrantId
    BY <1>2 DEF Call
  <2>3. \A id \in GrantId : held[id] \in 0 .. MaxKey
    BY DEF RecentsInv, ListInv, RecentsTypeOK
  <2>4. K \subseteq 1 .. MaxKey
    BY <2>2, <2>3, RecentsAssumption
  <2> HIDE DEF K
  <2>5. c \in Call /\ c.pc = "forget"
    BY <1>2, <2>4 DEF Call, Pc
  <2> HIDE DEF c
  <2>6. CallSound(c)
    BY <2>5 DEF CallSound
  <2> QED
    BY <1>1, <2>1, <2>5, <2>6, ThreadMoves DEF RecentsInv
<1> QED
  BY <1>3, <1>4, <1>5

-----------------------------------------------------------------------------
(* Steps that change what the handles hold.                                *)

\* A place is noted against a handle never given out before: no entry is held
\* by it, and no call in flight is about it.
LEMMA SourceNoted ==
    ASSUME RecentsInv, NEW id \in GrantId, id \notin issued, issued' = issued \union {id},
           NEW p \in Place, sources' = [sources EXCEPT ![id] = p],
           UNCHANGED <<entries, nextKey, held>>
    PROVE  /\ sources' \in [GrantId -> Place \union {Nowhere}] /\ HeldSound'
           /\ \A c : CallSound(c) => CallSound(c)'
<1>1. /\ sources' \in [GrantId -> Place \union {Nowhere}]
      /\ \A i \in GrantId : sources'[i] = IF i = id THEN p ELSE sources[i]
  BY DEF RecentsInv, ListInv, RecentsTypeOK
<1>2. held[id] = 0
  BY DEF RecentsInv, ListInv, HeldSound
<1>3. \A i \in DOMAIN entries : entries[i].key \in 1 .. MaxKey
  <2>1. \A i \in DOMAIN entries : entries[i] \in EntryRecord
    BY DEF RecentsInv, ListInv, RecentsTypeOK
  <2> QED
    BY <2>1 DEF EntryRecord
<1>4. \A i \in DOMAIN entries : entries[i].key # 0
  BY <1>3, RecentsAssumption
<1>5. HeldSound'
  BY <1>1, <1>2, <1>4 DEF RecentsInv, ListInv, HeldSound, KeyNames, Names
<1>6. \A i \in issued : i # id /\ i \in GrantId
  BY DEF RecentsInv, RegistryInv, GrantsTypeOK
<1>7. \A c : CallSound(c) => CallSound(c)'
  BY <1>1, <1>6 DEF CallSound, KeyNames, Names
<1> QED
  BY <1>1, <1>5, <1>7

\* A person chooses a file.
LEMMA ChooseKeeps ==
    ASSUME RecentsInv, NEW id \in GrantId, NEW p \in Place, Choose(id, p)
    PROVE  ListInv'
<1>1. /\ id \notin issued /\ issued' = issued \union {id}
      /\ sources' = [sources EXCEPT ![id] = p]
      /\ UNCHANGED <<entries, nextKey, held, saved, op>>
  BY DEF Choose, Acquire, Fresh
<1>2. /\ sources' \in [GrantId -> Place \union {Nowhere}] /\ HeldSound'
      /\ \A c : CallSound(c) => CallSound(c)'
  BY <1>1, SourceNoted
<1>3. RecentsTypeOK'
  BY <1>1, <1>2 DEF RecentsInv, ListInv, RecentsTypeOK, saved
<1>4. EntriesSound'
  BY <1>1 DEF RecentsInv, ListInv, EntriesSound, Distinct
<1>5. \A u \in Thread : CallSound(op[u])'
  <2> SUFFICES ASSUME NEW u \in Thread PROVE CallSound(op[u])'
    OBVIOUS
  <2>1. CallSound(op[u])
    BY DEF RecentsInv, ListInv
  <2> QED
    BY <1>1, <1>2, <2>1 DEF CallSound, KeyNames, Names
<1> QED
  BY <1>2, <1>3, <1>4, <1>5 DEF ListInv

\* The place of an entry becomes a root grant, or it is no longer what it was.
LEMMA ReopenGrantKeeps ==
    ASSUME RecentsInv, NEW t \in Thread, NEW id \in GrantId, ReopenGrant(t, id)
    PROVE  ListInv'
<1> DEFINE e == op[t].entry
           c == [op[t] EXCEPT !.pc = "granted", !.id = id]
<1>1. UNCHANGED <<entries, nextKey, held, saved>> /\ op[t].pc = "checked"
  BY DEF ReopenGrant, At
<1>2. CASE Returns(t) /\ UNCHANGED <<registryVars, issued, sources>>
  BY <1>1, <1>2, IdleSound, ThreadMoves DEF Returns, RecentsInv, listVars
<1>3. CASE /\ Fresh(id) /\ issued' = issued \union {id}
           /\ sources' = [sources EXCEPT ![id] = e.place]
           /\ op' = [op EXCEPT ![t].pc = "granted", ![t].id = id]
  <2>1. op[t] \in Call /\ CallSound(op[t])
    BY DEF RecentsInv, ListInv, RecentsTypeOK
  <2>2. e \in EntryRecord /\ e.key < nextKey /\ KeyNames(e.key, e.place)
    BY <1>1, <2>1 DEF CallSound
  <2>3. e.place \in Place
    BY <2>2 DEF EntryRecord
  <2>4. id \notin issued
    BY <1>3 DEF Fresh
  <2>5. /\ sources' \in [GrantId -> Place \union {Nowhere}] /\ HeldSound'
        /\ \A d : CallSound(d) => CallSound(d)'
    BY <1>1, <1>3, <2>3, <2>4, SourceNoted
  <2>6. op' = [op EXCEPT ![t] = c]
    BY <1>3, <2>1 DEF RecentsInv, ListInv, RecentsTypeOK
  <2>7. c \in Call /\ c.pc = "granted" /\ c.id = id /\ c.entry = e
    BY <2>1 DEF Call, Pc
  <2> HIDE DEF c
  <2>8. /\ op' \in [Thread -> Call]
        /\ \A u \in Thread : op'[u] = IF u = t THEN c ELSE op[u]
    BY <2>6, <2>7 DEF RecentsInv, ListInv, RecentsTypeOK
  <2>9. RecentsTypeOK'
    BY <1>1, <2>5, <2>8 DEF RecentsInv, ListInv, RecentsTypeOK, saved
  <2>10. EntriesSound'
    BY <1>1 DEF RecentsInv, ListInv, EntriesSound, Distinct
  <2>11. sources'[id] = e.place
    BY <1>3 DEF RecentsInv, ListInv, RecentsTypeOK
  <2>12. \A u \in Thread : CallSound(op[u])'
    <3> SUFFICES ASSUME NEW u \in Thread PROVE CallSound(op[u])'
      OBVIOUS
    <3>1. CASE u = t
      <4>1. op'[u] = c /\ id \in issued'
        BY <1>3, <2>8, <3>1
      <4> QED
        BY <1>1, <2>2, <2>3, <2>7, <2>11, <4>1 DEF CallSound, KeyNames, Names
    <3>2. CASE u # t
      <4>1. CallSound(op[u]) /\ op'[u] = op[u]
        BY <2>8, <3>2 DEF RecentsInv, ListInv
      <4> QED
        BY <2>5, <4>1 DEF CallSound, KeyNames, Names
    <3> QED
      BY <3>1, <3>2
  <2> QED
    BY <2>5, <2>9, <2>10, <2>12 DEF ListInv
<1> QED
  BY <1>2, <1>3 DEF ReopenGrant

\* A handle is dropped: it holds nothing and has no place.
LEMMA DropKeeps ==
    ASSUME RecentsInv, NEW t \in Thread, NEW id \in GrantId, Drop(t, id)
    PROVE  ListInv'
<1>1. /\ sources' = [sources EXCEPT ![id] = Nowhere] /\ held' = [held EXCEPT ![id] = 0]
      /\ UNCHANGED <<entries, nextKey, saved, op, issued>>
  BY DEF Drop
<1>2. /\ sources' \in [GrantId -> Place \union {Nowhere}] /\ held' \in [GrantId -> 0 .. MaxKey]
      /\ \A i \in GrantId : /\ sources'[i] = IF i = id THEN Nowhere ELSE sources[i]
                            /\ held'[i] = IF i = id THEN 0 ELSE held[i]
  BY <1>1, RecentsAssumption DEF RecentsInv, ListInv, RecentsTypeOK
<1>3. 0 < nextKey
  BY RecentsAssumption DEF RecentsInv, ListInv, RecentsTypeOK
<1>4. RecentsTypeOK'
  BY <1>1, <1>2 DEF RecentsInv, ListInv, RecentsTypeOK, saved
<1>5. EntriesSound'
  BY <1>1 DEF RecentsInv, ListInv, EntriesSound, Distinct
<1>6. HeldSound'
  BY <1>1, <1>2, <1>3 DEF RecentsInv, ListInv, HeldSound, KeyNames, Names
<1>7. \A i \in issued : i \in GrantId
  BY DEF RecentsInv, RegistryInv, GrantsTypeOK
<1>8. \A u \in Thread : CallSound(op[u])'
  <2> SUFFICES ASSUME NEW u \in Thread PROVE CallSound(op[u])'
    OBVIOUS
  <2>1. CallSound(op[u])
    BY DEF RecentsInv, ListInv
  <2> QED
    BY <1>1, <1>2, <1>7, <2>1 DEF CallSound, KeyNames, Names
<1> QED
  BY <1>4, <1>5, <1>6, <1>8 DEF ListInv

\* The reopened grant holds the entry it came from, if the list still has it; its
\* handle may have been dropped since.
LEMMA ReopenedKeeps ==
    ASSUME RecentsInv, NEW t \in Thread, Reopened(t)
    PROVE  ListInv'
<1> DEFINE e == op[t].entry
           id == op[t].id
<1>1. /\ held' = [held EXCEPT ![id] = e.key] /\ op' = [op EXCEPT ![t] = Idle]
      /\ UNCHANGED <<entries, nextKey, sources, saved, issued>> /\ op[t].pc = "granted"
  BY DEF Reopened, Returns, At, grantVars
<1>2. op[t] \in Call /\ CallSound(op[t])
  BY DEF RecentsInv, ListInv, RecentsTypeOK
<1>3. /\ id \in issued /\ sources[id] \in {Nowhere, e.place}
      /\ e \in EntryRecord /\ e.key < nextKey /\ KeyNames(e.key, e.place)
  BY <1>1, <1>2 DEF CallSound
<1>4. id \in GrantId /\ e.key \in 1 .. MaxKey
  BY <1>3 DEF EntryRecord, RecentsInv, RegistryInv, GrantsTypeOK
<1>5. e.key \in 0 .. MaxKey
  BY <1>4, RecentsAssumption
<1> HIDE DEF e, id
<1>6. /\ held' \in [GrantId -> 0 .. MaxKey]
      /\ \A i \in GrantId : held'[i] = IF i = id THEN e.key ELSE held[i]
  BY <1>1, <1>4, <1>5 DEF RecentsInv, ListInv, RecentsTypeOK
<1>7. /\ op' \in [Thread -> Call]
      /\ \A u \in Thread : op'[u] = IF u = t THEN Idle ELSE op[u]
  BY <1>1, IdleSound DEF RecentsInv, ListInv, RecentsTypeOK
<1>8. RecentsTypeOK'
  BY <1>1, <1>6, <1>7 DEF RecentsInv, ListInv, RecentsTypeOK, saved
<1>9. EntriesSound'
  BY <1>1 DEF RecentsInv, ListInv, EntriesSound, Distinct
<1>10. HeldSound'
  BY <1>1, <1>3, <1>6 DEF RecentsInv, ListInv, HeldSound, KeyNames, Names
<1>11. \A u \in Thread : CallSound(op[u])'
  <2> SUFFICES ASSUME NEW u \in Thread PROVE CallSound(op[u])'
    OBVIOUS
  <2>1. op'[u] \in {op[u], Idle} /\ CallSound(op'[u])
    BY <1>7, IdleSound DEF RecentsInv, ListInv
  <2> QED
    BY <1>1, <2>1 DEF CallSound, KeyNames, Names
<1> QED
  BY <1>8, <1>9, <1>10, <1>11 DEF ListInv

-----------------------------------------------------------------------------
(* Steps that change the list.                                             *)

\* A list whose entries have the keys of old ones, with their places, or the next
\* key, agrees with whatever agreed with the old one.
LEMMA KeysKept ==
    ASSUME ListInv, NEW list \in Seq(EntryRecord), entries' = list,
           Len(list) <= MaxEntries, Distinct(list), nextKey' \in Nat, nextKey <= nextKey',
           \A i \in DOMAIN list :
              \/ \E j \in DOMAIN entries : /\ entries[j].key = list[i].key
                                           /\ entries[j].place = list[i].place
              \/ list[i].key = nextKey /\ nextKey < nextKey'
    PROVE  /\ EntriesSound'
           /\ \A k \in Nat : \A p : k < nextKey /\ KeyNames(k, p) => k < nextKey' /\ Names(entries', k, p)
<1>1. nextKey \in Nat /\ \A i \in DOMAIN entries : entries[i].key < nextKey
  BY RecentsAssumption DEF ListInv, RecentsTypeOK, EntriesSound
<1>2. \A i \in DOMAIN list : list[i].key \in Nat
  <2>1. \A i \in DOMAIN list : list[i] \in EntryRecord
    OBVIOUS
  <2>2. \A x \in EntryRecord : x.key \in Nat
    BY RecentsAssumption DEF EntryRecord
  <2> QED
    BY <2>1, <2>2
<1>3. \A i \in DOMAIN list : list[i].key < nextKey'
  <2> SUFFICES ASSUME NEW i \in DOMAIN list PROVE list[i].key < nextKey'
    OBVIOUS
  <2> DEFINE k == list[i].key
  <2>1. k \in Nat
    BY <1>2
  <2>2. k < nextKey \/ (k = nextKey /\ nextKey < nextKey')
    BY <1>1
  <2> HIDE DEF k
  <2>3. k < nextKey'
    BY <1>1, <2>1, <2>2
  <2> QED
    BY <2>3 DEF k
<1>4. EntriesSound'
  BY <1>3 DEF EntriesSound, Distinct
<1>5. ASSUME NEW k \in Nat, NEW p, k < nextKey, KeyNames(k, p)
      PROVE  k < nextKey' /\ Names(entries', k, p)
  <2>1. k # nextKey /\ k < nextKey'
    BY <1>1, <1>5
  <2>2. \A i \in DOMAIN list : list[i].key = k => list[i].place = p
    BY <1>5, <2>1 DEF KeyNames, Names
  <2> QED
    BY <2>1, <2>2 DEF Names
<1> QED
  BY <1>4, <1>5

\* The calls in flight, while no place is noted and no number given out.
LEMMA CallsKept ==
    ASSUME UNCHANGED <<sources, issued>>,
           \A k \in Nat : \A p : k < nextKey /\ KeyNames(k, p) => k < nextKey' /\ Names(entries', k, p)
    PROVE  \A c : CallSound(c) => CallSound(c)'
<1>1. \A x \in EntryRecord : x.key \in Nat
  BY RecentsAssumption DEF EntryRecord
<1> QED
  BY <1>1 DEF CallSound, KeyNames

\* The change of the list that `remember` and `forget` have in common: the thread
\* goes on to save it.
LEMMA ChangedKeeps ==
    ASSUME RecentsInv, NEW t \in Thread, NEW o \in Call, NEW list \in Seq(EntryRecord), NEW made,
           Changed(t, o, list, made), UNCHANGED <<sources, issued, saved>>,
           Len(list) <= MaxEntries, Distinct(list), nextKey' \in 1 .. MaxKey + 1, nextKey <= nextKey',
           \A i \in DOMAIN list :
              \/ \E j \in DOMAIN entries : /\ entries[j].key = list[i].key
                                           /\ entries[j].place = list[i].place
              \/ list[i].key = nextKey /\ nextKey < nextKey',
           held' \in [GrantId -> 0 .. MaxKey],
           \A id \in GrantId :
              \/ held'[id] \in {held[id], 0}
              \/ /\ id \in issued /\ held'[id] < nextKey'
                 /\ sources[id] # Nowhere => Names(list, held'[id], sources[id])
    PROVE  ListInv'
<1> DEFINE c == [o EXCEPT !.pc = "create", !.list = list]
<1>1. entries' = list /\ op' = [op EXCEPT ![t] = c]
  BY DEF Changed
<1>2. c \in Call /\ c.pc = "create"
  BY DEF Call, Pc
<1> HIDE DEF c
<1>3. /\ op' \in [Thread -> Call]
      /\ \A u \in Thread : op'[u] \in {op[u], c}
  BY <1>1, <1>2 DEF RecentsInv, ListInv, RecentsTypeOK
<1>4. RecentsTypeOK'
  BY <1>1, <1>3 DEF RecentsInv, ListInv, RecentsTypeOK, saved
<1>5. nextKey' \in Nat
  BY RecentsAssumption
<1>6. /\ EntriesSound'
      /\ \A k \in Nat : \A p : k < nextKey /\ KeyNames(k, p) => k < nextKey' /\ Names(entries', k, p)
  BY <1>1, <1>5, KeysKept DEF RecentsInv
<1>7. \A u \in Thread : CallSound(op[u])'
  <2> SUFFICES ASSUME NEW u \in Thread PROVE CallSound(op[u])'
    OBVIOUS
  <2>1. CallSound(op'[u])
    BY <1>2, <1>3 DEF RecentsInv, ListInv, CallSound
  <2>2. \A d : CallSound(d) => CallSound(d)'
    BY <1>6, CallsKept
  <2> QED
    BY <2>1, <2>2 DEF CallSound, KeyNames
<1>8. HeldSound'
  <2> SUFFICES ASSUME NEW id \in GrantId
               PROVE  /\ held'[id] # 0 \/ sources'[id] # Nowhere => id \in issued'
                      /\ held'[id] < nextKey'
                      /\ sources'[id] # Nowhere =>
                           Names(entries', held'[id], sources'[id])
    BY DEF HeldSound, KeyNames
  <2>1. /\ held[id] # 0 \/ sources[id] # Nowhere => id \in issued
        /\ held[id] < nextKey /\ held[id] \in Nat
        /\ sources[id] # Nowhere => KeyNames(held[id], sources[id])
    BY RecentsAssumption DEF RecentsInv, ListInv, RecentsTypeOK, HeldSound
  <2>2. CASE held'[id] = held[id]
    <3>1. held[id] < nextKey'
      BY <1>5, <2>1 DEF RecentsInv, ListInv, RecentsTypeOK
    <3>2. sources[id] # Nowhere => Names(list, held[id], sources[id])
      BY <1>1, <1>6, <2>1
    <3> QED
      BY <1>1, <2>1, <2>2, <3>1, <3>2
  <2>3. CASE held'[id] = 0
    <3>1. \A i \in DOMAIN list : list[i] \in EntryRecord
      OBVIOUS
    <3>2. \A x \in EntryRecord : x.key # 0
      BY RecentsAssumption DEF EntryRecord
    <3>3. 0 < nextKey'
      BY RecentsAssumption
    <3> QED
      BY <1>1, <2>1, <2>3, <3>1, <3>2, <3>3 DEF Names
  <2>4. CASE /\ id \in issued /\ held'[id] < nextKey'
             /\ sources[id] # Nowhere => Names(list, held'[id], sources[id])
    BY <1>1, <2>4
  <2> QED
    BY <2>2, <2>3, <2>4
<1> QED
  BY <1>4, <1>6, <1>7, <1>8 DEF ListInv

\* forget: the entry goes, with what is held by it; the others stay.
LEMMA ForgetKeeps ==
    ASSUME RecentsInv, NEW t \in Thread, NEW o \in Call, NEW key, Forget(t, o, key),
           UNCHANGED <<nextKey, sources, issued, saved>>
    PROVE  ListInv'
<1> DEFINE gone == {e \in Elements(entries) : e.key = key}
           list == WithoutKey(key)
<1>1. entries \in Seq(EntryRecord) /\ Len(entries) \in Nat /\ Len(entries) <= MaxEntries /\ Distinct(entries)
  BY LenProperties DEF RecentsInv, ListInv, RecentsTypeOK, EntriesSound
<1>2. list = Without(entries, gone)
  BY DEF WithoutKey
<1> HIDE DEF gone, list
<1>3. TakenSound(entries, gone, list, Len(entries))
  BY <1>1, <1>2, WithoutSound
<1>4. list \in Seq(EntryRecord) /\ Len(list) \in Nat /\ Len(list) <= Len(entries) /\ Distinct(list)
  BY <1>1, <1>3, LenProperties DEF TakenSound
<1>5. Len(list) <= MaxEntries
  BY <1>1, <1>4, RecentsAssumption
<1>6. \A i \in DOMAIN list : \E j \in DOMAIN entries : list[i] = entries[j]
  <2>1. DOMAIN list = 1 .. Len(list) /\ DOMAIN entries = 1 .. Len(entries)
    BY <1>1, <1>4, LenProperties
  <2> QED
    BY <1>3, <2>1 DEF TakenSound
<1>7. nextKey' \in 1 .. MaxKey + 1 /\ nextKey <= nextKey'
  BY RecentsAssumption DEF RecentsInv, ListInv, RecentsTypeOK
<1>8. Changed(t, o, list, {}) /\ held' = [id \in GrantId |-> IF held[id] = key THEN 0 ELSE held[id]]
  BY DEF Forget, list
<1>9. \A id \in GrantId : held[id] \in 0 .. MaxKey
  BY DEF RecentsInv, ListInv, RecentsTypeOK
<1>10. /\ held' \in [GrantId -> 0 .. MaxKey]
       /\ \A id \in GrantId : held'[id] \in {held[id], 0}
  BY <1>8, <1>9, RecentsAssumption
<1> QED
  BY <1>4, <1>5, <1>6, <1>7, <1>8, <1>10, ChangedKeeps

\* A person removes an entry.
LEMMA ForgetEntryKeeps ==
    ASSUME RecentsInv, NEW t \in Thread, NEW i \in DOMAIN entries, ForgetEntry(t, i)
    PROVE  ListInv'
BY ForgetKeeps, IdleSound DEF ForgetEntry, grantVars

\* A withdrawal forgets the entries of what it took, one by one.
LEMMA WithdrawForgetKeeps ==
    ASSUME RecentsInv, NEW t \in Thread, WithdrawForget(t)
    PROVE  ListInv'
<1>1. op[t] \in Call /\ UNCHANGED <<nextKey, sources, issued, saved>>
  BY DEF WithdrawForget, RecentsInv, ListInv, RecentsTypeOK, grantVars
<1>2. CASE Goto(t, "withdrawn") /\ UNCHANGED <<entries, held>>
  <2> DEFINE c == [op[t] EXCEPT !.pc = "withdrawn"]
  <2>1. op' = [op EXCEPT ![t] = c]
    BY <1>2 DEF Goto, RecentsInv, ListInv, RecentsTypeOK
  <2>2. c \in Call /\ c.pc = "withdrawn"
    BY <1>1 DEF Call, Pc
  <2> HIDE DEF c
  <2>3. CallSound(c)
    BY <2>2 DEF CallSound
  <2> QED
    BY <1>1, <1>2, <2>1, <2>2, <2>3, ThreadMoves DEF RecentsInv, listVars
<1>3. ASSUME NEW key \in op[t].keys, key \in KeysOf(entries),
             Forget(t, [op[t] EXCEPT !.keys = @ \ {key}], key)
      PROVE  ListInv'
  <2> DEFINE c == [op[t] EXCEPT !.keys = @ \ {key}]
  <2>1. c \in Call
    BY <1>1 DEF Call
  <2> HIDE DEF c
  <2>2. Forget(t, c, key)
    BY <1>3 DEF c
  <2> QED
    BY <1>1, <2>1, <2>2, ForgetKeeps
<1>4. ASSUME NEW key \in op[t].keys, op' = [op EXCEPT ![t].keys = @ \ {key}],
             UNCHANGED <<entries, held>>, op[t].pc = "forget"
      PROVE  ListInv'
  <2> DEFINE c == [op[t] EXCEPT !.keys = @ \ {key}]
  <2>1. op' = [op EXCEPT ![t] = c]
    BY <1>1, <1>4 DEF RecentsInv, ListInv, RecentsTypeOK
  <2>2. c \in Call /\ c.pc = "forget"
    BY <1>1, <1>4 DEF Call
  <2> HIDE DEF c
  <2>3. CallSound(c)
    BY <2>2 DEF CallSound
  <2> QED
    BY <1>1, <1>4, <2>1, <2>2, <2>3, ThreadMoves DEF RecentsInv, listVars
<1> QED
  BY <1>2, <1>3, <1>4 DEF WithdrawForget, At

\* One entry more at the front of a list, of another key and another place.
LEMMA PrependDistinct ==
    ASSUME NEW h \in Seq(EntryRecord), NEW x \in EntryRecord, Distinct(h),
           \A i \in DOMAIN h : h[i].key # x.key /\ h[i].place # x.place
    PROVE  /\ <<x>> \o h \in Seq(EntryRecord) /\ Distinct(<<x>> \o h)
           /\ \A i \in DOMAIN (<<x>> \o h) :
                 (<<x>> \o h)[i] = x \/ \E j \in DOMAIN h : (<<x>> \o h)[i] = h[j]
<1> DEFINE g == <<x>> \o h
<1>1. Len(h) \in Nat /\ DOMAIN h = 1 .. Len(h)
  BY LenProperties
<1>2. <<x>> \in Seq(EntryRecord) /\ Len(<<x>>) = 1 /\ <<x>>[1] = x
  OBVIOUS
<1>3. /\ g \in Seq(EntryRecord) /\ Len(g) = 1 + Len(h)
      /\ \A i \in 1 .. 1 + Len(h) : g[i] = IF i <= 1 THEN <<x>>[i] ELSE h[i - 1]
  BY <1>2, ConcatProperties
<1>4. DOMAIN g = 1 .. 1 + Len(h)
  BY <1>3, LenProperties
<1> HIDE DEF g
<1>5. \A i \in DOMAIN g : \/ i = 1 /\ g[i] = x
                          \/ i - 1 \in DOMAIN h /\ g[i] = h[i - 1]
  <2> SUFFICES ASSUME NEW i \in DOMAIN g
               PROVE  \/ i = 1 /\ g[i] = x
                      \/ i - 1 \in DOMAIN h /\ g[i] = h[i - 1]
    OBVIOUS
  <2>1. i \in 1 .. 1 + Len(h) /\ (i = 1 \/ (~ (i <= 1) /\ i - 1 \in 1 .. Len(h)))
    BY <1>1, <1>4
  <2>2. CASE i = 1
    BY <1>2, <1>3, <2>1, <2>2
  <2>3. CASE ~ (i <= 1) /\ i - 1 \in 1 .. Len(h)
    BY <1>1, <1>3, <2>1, <2>3
  <2> QED
    BY <2>1, <2>2, <2>3
<1>6. Distinct(g)
  <2> SUFFICES ASSUME NEW i \in DOMAIN g, NEW j \in DOMAIN g,
                      g[i].key = g[j].key \/ g[i].place = g[j].place
               PROVE  i = j
    BY DEF Distinct
  <2>1. i \in Nat /\ j \in Nat
    BY <1>4
  <2>2. CASE i - 1 \in DOMAIN h /\ g[i] = h[i - 1] /\ j - 1 \in DOMAIN h /\ g[j] = h[j - 1]
    <3>1. i - 1 = j - 1
      BY <2>2 DEF Distinct
    <3> QED
      BY <2>1, <3>1
  <2>3. CASE i = 1 /\ g[i] = x /\ j - 1 \in DOMAIN h /\ g[j] = h[j - 1]
    BY <2>3
  <2>4. CASE i - 1 \in DOMAIN h /\ g[i] = h[i - 1] /\ j = 1 /\ g[j] = x
    BY <2>4
  <2> QED
    BY <1>5, <2>2, <2>3, <2>4
<1>7. \A i \in DOMAIN g : g[i] = x \/ \E j \in DOMAIN h : g[i] = h[j]
  BY <1>5
<1> QED
  BY <1>3, <1>6, <1>7 DEF g

\* remember: an entry of the place moves to the front with its key, or a new one
\* gets the next key; the place it is of may have been dropped since.
LEMMA RememberInsertKeeps ==
    ASSUME RecentsInv, NEW t \in Thread, RememberInsert(t)
    PROVE  ListInv'
<1> DEFINE e == op[t].entry
           id == op[t].id
           same == {y \in Elements(entries) : y.place = e.place}
           key == IF same = {} THEN nextKey ELSE (CHOOSE y \in same : TRUE).key
           x == [e EXCEPT !.key = key]
           rest == Without(entries, same)
           list == Bounded(<<x>> \o rest)
<1>1. /\ op[t].pc = "found" /\ key <= MaxKey /\ Changed(t, Idle, list, {<<key, id>>})
      /\ nextKey' = (IF same = {} THEN nextKey + 1 ELSE nextKey)
      /\ held' = [held EXCEPT ![id] = key]
      /\ UNCHANGED <<sources, issued, saved>>
  BY DEF RememberInsert, At, grantVars
<1>2. op[t] \in Call /\ CallSound(op[t])
  BY DEF RecentsInv, ListInv, RecentsTypeOK
<1>3. /\ id \in issued /\ e \in Draft /\ e.place \in Place
      /\ sources[id] \in {Nowhere, e.place}
  BY <1>1, <1>2 DEF CallSound
<1>4. id \in GrantId
  BY <1>3 DEF RecentsInv, RegistryInv, GrantsTypeOK
<1>5. /\ entries \in Seq(EntryRecord) /\ Distinct(entries)
      /\ Len(entries) \in Nat /\ DOMAIN entries = 1 .. Len(entries)
      /\ \A i \in DOMAIN entries : entries[i] \in EntryRecord /\ entries[i].key < nextKey
  BY LenProperties DEF RecentsInv, ListInv, RecentsTypeOK, EntriesSound
<1>6. nextKey \in Nat /\ 1 <= nextKey /\ nextKey <= MaxKey + 1
  BY RecentsAssumption DEF RecentsInv, ListInv, RecentsTypeOK
<1> HIDE DEF e, id
<1>7. \/ same = {} /\ key = nextKey
      \/ same # {} /\ \E k \in DOMAIN entries : entries[k].place = e.place /\ entries[k].key = key
  BY DEF Elements
<1> HIDE DEF same, key
<1>8. key \in 1 .. MaxKey
  <2>1. CASE key = nextKey
    BY <1>1, <1>6, <2>1, RecentsAssumption
  <2>2. CASE \E k \in DOMAIN entries : entries[k].key = key
    BY <1>5, <2>2 DEF EntryRecord
  <2> QED
    BY <1>7, <2>1, <2>2
<1>9. x \in EntryRecord /\ x.key = key /\ x.place = e.place
  BY <1>3, <1>8 DEF Draft, EntryRecord
<1> HIDE DEF x
<1>10. TakenSound(entries, same, rest, Len(entries))
  BY <1>5, WithoutSound
<1> HIDE DEF rest
<1>11. rest \in Seq(EntryRecord) /\ Distinct(rest) /\ DOMAIN rest = 1 .. Len(rest)
  BY <1>5, <1>10, LenProperties DEF TakenSound
<1>12. \A i \in DOMAIN rest : \E j \in DOMAIN entries : rest[i] = entries[j] /\ entries[j] \notin same
  BY <1>5, <1>10, <1>11 DEF TakenSound
<1>13. \A i \in DOMAIN rest : rest[i].key # x.key /\ rest[i].place # x.place
  <2> SUFFICES ASSUME NEW j \in DOMAIN entries, entries[j] \notin same
               PROVE  entries[j].key # key /\ entries[j].place # e.place
    BY <1>9, <1>12
  <2>1. entries[j].place # e.place
    BY DEF same, Elements
  <2>2. entries[j].key # nextKey
    <3>1. entries[j].key \in Nat
      <4>1. entries[j] \in EntryRecord
        BY <1>5
      <4> QED
        BY <4>1, RecentsAssumption DEF EntryRecord
    <3> QED
      BY <1>5, <1>6, <3>1
  <2>3. \A k \in DOMAIN entries : entries[k].place = e.place => entries[j].key # entries[k].key
    BY <1>5, <2>1 DEF Distinct
  <2> QED
    BY <1>7, <2>1, <2>2, <2>3
<1> DEFINE front == <<x>> \o rest
<1>14. /\ front \in Seq(EntryRecord) /\ Distinct(front)
       /\ \A i \in DOMAIN front : front[i] = x \/ \E j \in DOMAIN rest : front[i] = rest[j]
  BY <1>9, <1>11, <1>13, PrependDistinct
<1> HIDE DEF front
<1>15. list = Bounded(front)
  BY DEF front
<1> HIDE DEF list
<1>16. /\ list \in Seq(EntryRecord) /\ Distinct(list) /\ Len(list) <= MaxEntries
       /\ Len(list) <= Len(front) /\ \A i \in 1 .. Len(list) : list[i] = front[i]
  BY <1>14, <1>15, BoundedSound
<1>17. \A i \in DOMAIN list : list[i] = x \/ \E j \in DOMAIN entries : list[i] = entries[j]
  <2>1. DOMAIN list = 1 .. Len(list) /\ DOMAIN front = 1 .. Len(front) /\ Len(list) \in Nat /\ Len(front) \in Nat
    BY <1>14, <1>16, LenProperties
  <2>2. \A i \in 1 .. Len(list) : i \in 1 .. Len(front)
    BY <1>16, <2>1
  <2> QED
    BY <1>12, <1>14, <1>16, <2>1, <2>2
<1>18. /\ nextKey' \in 1 .. MaxKey + 1 /\ nextKey <= nextKey' /\ key < nextKey'
       /\ key = nextKey => nextKey < nextKey'
  <2>1. CASE same = {}
    <3>1. key = nextKey /\ nextKey' = nextKey + 1
      BY <1>1, <1>7, <2>1
    <3>2. nextKey + 1 \in 1 .. MaxKey + 1 /\ nextKey < nextKey + 1 /\ nextKey <= nextKey + 1
      BY <1>6, <1>8, <3>1, RecentsAssumption
    <3> QED
      BY <3>1, <3>2
  <2>2. CASE same # {}
    <3>1. nextKey' = nextKey /\ key < nextKey
      BY <1>1, <1>5, <1>7, <2>2
    <3>2. key \in Nat /\ key # nextKey
      BY <1>6, <1>8, <3>1, RecentsAssumption
    <3> QED
      BY <1>6, <3>1, <3>2, RecentsAssumption
  <2> QED
    BY <2>1, <2>2
<1>19. \A i \in DOMAIN list :
          \/ \E j \in DOMAIN entries : /\ entries[j].key = list[i].key
                                       /\ entries[j].place = list[i].place
          \/ list[i].key = nextKey /\ nextKey < nextKey'
  BY <1>7, <1>9, <1>17, <1>18
<1>20. /\ held' \in [GrantId -> 0 .. MaxKey]
       /\ \A i \in GrantId : held'[i] = IF i = id THEN key ELSE held[i]
  <2>1. key \in 0 .. MaxKey /\ held \in [GrantId -> 0 .. MaxKey]
    BY <1>8, RecentsAssumption DEF RecentsInv, ListInv, RecentsTypeOK
  <2> QED
    BY <1>1, <1>4, <2>1
<1>21. sources[id] # Nowhere => Names(list, key, sources[id])
  <2>1. sources[id] # Nowhere => sources[id] = e.place
    BY <1>3
  <2>2. ASSUME NEW i \in DOMAIN list, list[i].key = key PROVE list[i].place = e.place
    <3>1. CASE list[i] = x
      BY <1>9, <3>1
    <3>2. CASE \E j \in DOMAIN entries : list[i] = entries[j]
      <4> PICK j \in DOMAIN entries : list[i] = entries[j]
        BY <3>2
      <4>1. entries[j].key = key
        BY <2>2
      <4>2. key # nextKey
        <5>1. entries[j].key < nextKey
          BY <1>5
        <5> QED
          BY <1>6, <4>1, <5>1
      <4>3. PICK k \in DOMAIN entries : entries[k].place = e.place /\ entries[k].key = key
        BY <1>7, <4>2
      <4>4. k = j
        BY <1>5, <4>1, <4>3 DEF Distinct
      <4> QED
        BY <4>3, <4>4
    <3> QED
      BY <1>17, <3>1, <3>2
  <2> QED
    BY <2>1, <2>2 DEF Names
<1>22. \A i \in GrantId :
          \/ held'[i] \in {held[i], 0}
          \/ /\ i \in issued /\ held'[i] < nextKey'
             /\ sources[i] # Nowhere => Names(list, held'[i], sources[i])
  BY <1>3, <1>18, <1>20, <1>21
<1>23. Changed(t, Idle, list, {<<key, id>>}) /\ UNCHANGED <<sources, issued, saved>>
  BY <1>1 DEF list, front
<1> QED
  BY <1>2, IdleSound, <1>16, <1>18, <1>19, <1>20, <1>22, <1>23, ChangedKeeps

\* A run numbers its entries after every key the stored list has, however many of
\* its lines were left out.
LEMMA NextKeyFresh ==
    ASSUME NEW list \in Seq(EntryRecord)
    PROVE  /\ NextKeyOf(list) \in 1 .. MaxKey + 1
           /\ \A i \in DOMAIN list : list[i].key < NextKeyOf(list)
<1> DEFINE T == {k \in 1 .. MaxKey + 1 : \A j \in KeysOf(list) : j < k}
<1>1. MaxKey \in Nat /\ KeysOf(list) \subseteq 1 .. MaxKey
  <2>1. \A i \in DOMAIN list : list[i] \in EntryRecord
    OBVIOUS
  <2>2. \A i \in DOMAIN list : list[i].key \in 1 .. MaxKey
    BY <2>1 DEF EntryRecord
  <2> QED
    BY <2>2, RecentsAssumption DEF KeysOf, Elements
<1>2. T \in SUBSET Nat /\ MaxKey + 1 \in T
  BY <1>1
<1>3. PICK k \in T : \A m \in T : k <= m
  <2> HIDE DEF T
  <2> QED
    BY <1>2, LeastNumber
<1>4. k \in 1 .. MaxKey + 1 /\ \A j \in KeysOf(list) : j < k
  OBVIOUS
<1>5. k = 1 \/ k - 1 \in KeysOf(list)
  <2> SUFFICES ASSUME k # 1 PROVE k - 1 \in KeysOf(list)
    OBVIOUS
  <2>1. k - 1 \in 1 .. MaxKey + 1 /\ ~ (k <= k - 1)
    BY <1>1, <1>4
  <2>2. k - 1 \notin T
    BY <1>3, <2>1
  <2>3. PICK j \in KeysOf(list) : ~ (j < k - 1)
    BY <2>1, <2>2
  <2>4. j \in Nat /\ j < k
    BY <1>1, <1>4
  <2>5. j = k - 1
    BY <1>1, <1>4, <2>3, <2>4
  <2> QED
    BY <2>5
<1>6. /\ NextKeyOf(list) \in 1 .. MaxKey + 1
      /\ \A j \in KeysOf(list) : j < NextKeyOf(list)
  BY <1>4, <1>5 DEF NextKeyOf
<1> QED
  BY <1>6 DEF KeysOf, Elements

\* The program is killed and started again: what it reads is a sound list, even
\* from a file half written.
LEMMA RestartKeeps ==
    ASSUME RecentsInv, Restart
    PROVE  ListInv'
<1>1. /\ entries' = Loaded /\ nextKey' = NextKeyOf(Loaded)
      /\ held' = [id \in GrantId |-> 0] /\ sources' = [id \in GrantId |-> Nowhere]
      /\ op' = [t \in Thread |-> Idle] /\ inode' = [inode EXCEPT !.staging = 0]
      /\ content' = content
  BY DEF Restart
<1>2. /\ content \in [Inode -> Seq(EntryRecord)]
      /\ inode \in [stored : Inode \union {0}, staging : Inode \union {0}]
  BY DEF RecentsInv, ListInv, RecentsTypeOK
<1>3. Loaded \in Seq(EntryRecord) /\ Distinct(Loaded) /\ Len(Loaded) <= MaxEntries
  <2>1. CASE inode["stored"] = 0
    <3>1. /\ <<>> \in Seq(EntryRecord) /\ Distinct(<<>>) /\ Len(<<>>) = 0
      BY EmptySeq DEF Distinct
    <3> QED
      BY <2>1, <3>1, RecentsAssumption DEF Loaded
  <2>2. CASE inode["stored"] # 0
    <3>1. inode["stored"] \in Inode
      BY <1>2, <2>2
    <3>2. content[inode["stored"]] \in Seq(EntryRecord)
      BY <1>2, <3>1
    <3> QED
      BY <2>2, <3>2, DecodedSound DEF Loaded
  <2> QED
    BY <2>1, <2>2
<1> DEFINE list == Loaded
<1> HIDE DEF list
<1>4. list \in Seq(EntryRecord) /\ Distinct(list) /\ Len(list) <= MaxEntries
      /\ entries' = list /\ nextKey' = NextKeyOf(list)
  BY <1>1, <1>3 DEF list
<1>5. nextKey' \in 1 .. MaxKey + 1 /\ \A i \in DOMAIN list : list[i].key < nextKey'
  BY <1>4, NextKeyFresh
<1>6. inode' \in [stored : Inode \union {0}, staging : Inode \union {0}]
  BY <1>1, <1>2
<1>7. /\ held' \in [GrantId -> 0 .. MaxKey] /\ sources' \in [GrantId -> Place \union {Nowhere}]
      /\ op' \in [Thread -> Call]
  BY <1>1, IdleSound, RecentsAssumption
<1>8. RecentsTypeOK'
  BY <1>1, <1>2, <1>4, <1>5, <1>6, <1>7 DEF RecentsTypeOK
<1>9. EntriesSound'
  BY <1>4, <1>5 DEF EntriesSound
<1>10. HeldSound'
  <2>1. 0 < nextKey'
    BY <1>5, RecentsAssumption
  <2> QED
    BY <1>1, <2>1 DEF HeldSound
<1>11. \A u \in Thread : CallSound(op[u])'
  BY <1>1 DEF CallSound, Idle
<1> QED
  BY <1>8, <1>9, <1>10, <1>11 DEF ListInv

-----------------------------------------------------------------------------
(* The registry under the list.                                            *)

\* A step that leaves grants, withdrawals of roots, numbers and copies alone leaves
\* the registry's invariant.
LEMMA RegistrySame ==
    ASSUME RegistryInv, UNCHANGED <<grants, revokedRoots, issued, copy>>, withdrawn' \subseteq GrantId
    PROVE  RegistryInv'
BY DEF RegistryInv, GrantsTypeOK, NumbersIssued, RevocationReaches, OriginKept, CopiesAgree,
       Recorded, IsRoot

\* The steps of a thread, by name.
LEMMA ThreadSteps ==
    ASSUME NEW t \in Thread, RecentsStep(t)
    PROVE  \/ SaveCreate(t) \/ SaveWrite(t) \/ SaveRename(t) \/ SaveFail(t)
           \/ RememberFind(t) \/ RememberInsert(t) \/ Reopened(t)
           \/ Withdraw(t) \/ WithdrawTake(t) \/ WithdrawFind(t) \/ WithdrawForget(t)
           \/ \E id \in GrantId : RememberMark(t, id)
           \/ \E id \in GrantId : ReopenGrant(t, id)
           \/ \E id \in GrantId : Drop(t, id)
           \/ \E i \in DOMAIN entries : Reopen(t, i)
           \/ \E i \in DOMAIN entries : ForgetEntry(t, i)
BY DEF RecentsStep

\* No step of a thread disturbs the registry.
LEMMA ThreadRegistry ==
    ASSUME RecentsInv, NEW t \in Thread, RecentsStep(t)
    PROVE  RegistryInv'
<1>1. RegistryInv /\ withdrawn \subseteq GrantId
  BY DEF RecentsInv, RegistryInv, GrantsTypeOK
<1>2. ASSUME UNCHANGED grantVars PROVE RegistryInv'
  BY <1>1, <1>2, RegistrySame DEF grantVars, registryVars
<1>3. CASE SaveCreate(t) \/ SaveWrite(t) \/ SaveRename(t) \/ SaveFail(t) \/ RememberFind(t)
  BY <1>2, <1>3 DEF SaveCreate, SaveWrite, SaveRename, SaveFail, RememberFind
<1>4. CASE RememberInsert(t) \/ Reopened(t) \/ WithdrawFind(t) \/ WithdrawForget(t)
  BY <1>2, <1>4 DEF RememberInsert, Reopened, WithdrawFind, WithdrawForget
<1>5. CASE \E i \in DOMAIN entries : Reopen(t, i) \/ ForgetEntry(t, i)
  BY <1>2, <1>5 DEF Reopen, ForgetEntry
<1>6. CASE Withdraw(t)
  BY <1>1, <1>6, RevokeKeeps, RevokeKindKeeps DEF Withdraw
<1>7. CASE WithdrawTake(t)
  <2>1. UNCHANGED <<grants, revokedRoots, issued, copy>> /\ withdrawn' \subseteq GrantId
    BY <1>7 DEF WithdrawTake
  <2> QED
    BY <1>1, <2>1, RegistrySame
<1>8. ASSUME NEW id \in GrantId, RememberMark(t, id) PROVE RegistryInv'
  BY <1>1, <1>8, RememberKeeps DEF RememberMark
<1>9. ASSUME NEW id \in GrantId, Drop(t, id) PROVE RegistryInv'
  BY <1>1, <1>9, ReleaseKeeps DEF Drop
<1>10. ASSUME NEW id \in GrantId, ReopenGrant(t, id) PROVE RegistryInv'
  <2>1. copy' = copy
    BY <1>10 DEF ReopenGrant
  <2>2. CASE UNCHANGED <<registryVars, issued>>
    BY <1>2, <2>1, <2>2 DEF grantVars
  <2>3. CASE /\ Fresh(id) /\ issued' = issued \union {id}
             /\ RecordRoot(id, Right, op[t].entry.origin, "remembered")
    <3>1. op[t].entry \in EntryRecord
      BY <1>10 DEF ReopenGrant, At, RecentsInv, ListInv, CallSound
    <3>2. op[t].entry.origin \in Origin
      BY <3>1 DEF EntryRecord
    <3>3. id \notin issued /\ issued' = issued \union {id}
      BY <2>3 DEF Fresh
    <3>4. "remembered" \in Lifetime
      BY DEF Lifetime
    <3> QED
      BY <1>1, <2>1, <2>3, <3>2, <3>3, <3>4, RootKeeps
  <2> QED
    BY <1>10, <2>2, <2>3 DEF ReopenGrant
<1> QED
  BY <1>3, <1>4, <1>5, <1>6, <1>7, <1>8, <1>9, <1>10, ThreadSteps

\* No step of a thread disturbs the list.
LEMMA ThreadList ==
    ASSUME RecentsInv, NEW t \in Thread, RecentsStep(t)
    PROVE  ListInv'
<1>1. ListInv
  BY DEF RecentsInv
<1>2. CASE SaveCreate(t) \/ SaveWrite(t) \/ SaveRename(t) \/ SaveFail(t)
  BY <1>1, <1>2, SaveCreateKeeps, SaveWriteKeeps, SaveRenameKeeps, SaveFailKeeps
<1>3. CASE RememberFind(t) \/ RememberInsert(t) \/ Reopened(t)
  BY <1>3, RememberFindKeeps, RememberInsertKeeps, ReopenedKeeps
<1>4. CASE Withdraw(t) \/ WithdrawTake(t) \/ WithdrawFind(t) \/ WithdrawForget(t)
  BY <1>4, WithdrawKeeps, WithdrawForgetKeeps
<1>5. ASSUME NEW id \in GrantId, RememberMark(t, id) \/ ReopenGrant(t, id) \/ Drop(t, id)
      PROVE  ListInv'
  BY <1>5, RememberMarkKeeps, ReopenGrantKeeps, DropKeeps
<1>6. ASSUME NEW i \in DOMAIN entries, Reopen(t, i) \/ ForgetEntry(t, i)
      PROVE  ListInv'
  BY <1>1, <1>6, ReopenKeeps, ForgetEntryKeeps
<1> QED
  BY <1>2, <1>3, <1>4, <1>5, <1>6, ThreadSteps

\* The program starts with an empty list and nothing stored.
LEMMA InitialList == RecentsInit => RecentsInv
<1> SUFFICES ASSUME RecentsInit PROVE RecentsInv
  OBVIOUS
<1>1. RegistryInv
  BY InitialRegistry DEF RecentsInit
<1>2. <<>> \in Seq(EntryRecord) /\ Len(<<>>) = 0 /\ DOMAIN <<>> = {}
  BY EmptySeq
<1>3. RecentsTypeOK
  BY <1>2, IdleSound, RecentsAssumption DEF RecentsInit, RecentsTypeOK
<1>4. EntriesSound
  BY <1>2, RecentsAssumption DEF RecentsInit, EntriesSound, Distinct
<1>5. HeldSound
  <2>1. \A id \in GrantId : held[id] = 0 /\ sources[id] = Nowhere
    BY DEF RecentsInit
  <2>2. 0 < nextKey
    BY DEF RecentsInit
  <2> QED
    BY <2>1, <2>2 DEF HeldSound
<1>6. \A t \in Thread : CallSound(op[t])
  BY IdleSound DEF RecentsInit
<1> QED
  BY <1>1, <1>3, <1>4, <1>5, <1>6 DEF RecentsInv, ListInv

-----------------------------------------------------------------------------

\* The list, what is held of it and what calls in flight carry agree, through every
\* interleaving of calls, every refused save and every kill and restart.
THEOREM RecentsInductive == RecentsSpec => []RecentsInv
<1>1. RecentsInit => RecentsInv
  BY InitialList
<1>2. RecentsInv /\ [RecentsNext]_recentsVars => RecentsInv'
  <2> SUFFICES ASSUME RecentsInv, [RecentsNext]_recentsVars PROVE RecentsInv'
    OBVIOUS
  <2>1. RegistryInv /\ ListInv
    BY DEF RecentsInv
  <2>2. ASSUME NEW id \in GrantId, NEW p \in Place, Choose(id, p) PROVE RecentsInv'
    <3>1. Acquire(id, "chosen") /\ "chosen" \in Origin
      BY <2>2 DEF Choose, Origin
    <3> QED
      BY <2>1, <2>2, <3>1, AcquireKeeps, ChooseKeeps DEF RecentsInv
  <2>3. CASE Restart
    <3>1. /\ grants' = [id \in GrantId |-> NoGrant] /\ issued' = {}
          /\ revokedRoots' = {} /\ withdrawn' = {} /\ copy' = [c \in Client |-> NoGrant]
      BY <2>3 DEF Restart
    <3>2. RegistryInv'
      BY <3>1 DEF RegistryInv, GrantsTypeOK, NumbersIssued, RevocationReaches, OriginKept,
                  CopiesAgree, Recorded
    <3> QED
      BY <2>3, <3>2, RestartKeeps DEF RecentsInv
  <2>4. ASSUME NEW t \in Thread, RecentsStep(t) PROVE RecentsInv'
    BY <2>4, ThreadRegistry, ThreadList DEF RecentsInv
  <2>5. CASE UNCHANGED recentsVars
    <3>1. UNCHANGED <<grantVars, listVars, saved, op>>
      BY <2>5 DEF recentsVars
    <3>2. RegistryInv'
      BY <2>1, <3>1, RegistrySame DEF grantVars, registryVars, RegistryInv, GrantsTypeOK
    <3>3. ListInv'
      BY <2>1, <3>1 DEF grantVars, listVars, saved, ListInv, RecentsTypeOK, EntriesSound, Distinct,
                        HeldSound, CallSound, KeyNames, Names
    <3> QED
      BY <3>2, <3>3 DEF RecentsInv
  <2> QED
    BY <2>2, <2>3, <2>4, <2>5 DEF RecentsNext
<1> QED
  BY <1>1, <1>2, PTL DEF RecentsSpec

\* remember, reopen and forget: the list is bounded and names every place once, under
\* a key of its own, and what a grant holds is the entry of its own place.
THEOREM ListSoundHolds == RecentsSpec => []ListSound
<1>1. RecentsInv => ListSound
  <2> SUFFICES ASSUME RecentsInv PROVE ListSound
    OBVIOUS
  <2>1. EntriesSound /\ HeldSound
    BY DEF RecentsInv, ListInv
  <2>2. \A i \in DOMAIN entries, id \in GrantId :
           held[id] = entries[i].key /\ sources[id] # Nowhere => sources[id] = entries[i].place
    BY <2>1 DEF HeldSound, KeyNames, Names
  <2> QED
    BY <2>1, <2>2 DEF ListSound, EntriesSound, Distinct
<1> QED
  BY <1>1, RecentsInductive, PTL

\* The registry under the list: a withdrawal reaches every grant of its root, also a
\* reopened one, and a restart brings no flag back.
THEOREM RecentsRevocationReaches == RecentsSpec => []RevocationReaches
<1>1. RecentsInv => RevocationReaches
  BY DEF RecentsInv, RegistryInv
<1> QED
  BY <1>1, RecentsInductive, PTL
-----------------------------------------------------------------------------
(* What is stored.  Saves of one process share a staging file, so what they  *)
(* leave behind when they overlap is anything; what follows is of the saves  *)
(* that overlap none, among any number of threads.                           *)

\* decode: of a list without a key or a place twice it leaves nothing out.
LEMMA DecodedSame ==
    ASSUME NEW list \in Seq(EntryRecord), Distinct(list), Len(list) <= MaxEntries
    PROVE  Decoded(list) = list
<1>1. Len(list) \in Nat /\ DOMAIN list = 1 .. Len(list)
  BY LenProperties
<1> DEFINE f == CHOOSE f : SeenIs(list, Len(list), f)
<1>2. SeenIs(list, Len(list), f)
  BY <1>1, SeenExists
<1>3. Decoded(list) = Bounded(f[Len(list)])
  BY DEF Decoded, SeenIs
<1> HIDE DEF f
<1>4. /\ f[0] = <<>>
      /\ \A n \in Nat : n + 1 <= Len(list) =>
            /\ n <= Len(list) /\ n + 1 \in 1 .. Len(list)
            /\ f[n + 1] = IF Known(f[n], list[n + 1]) THEN f[n] ELSE Append(f[n], list[n + 1])
  <2>1. \A i \in 0 .. Len(list) : f[i] = IF i = 0 THEN <<>>
                                         ELSE IF Known(f[i - 1], list[i]) THEN f[i - 1]
                                         ELSE Append(f[i - 1], list[i])
    BY <1>2 DEF SeenIs
  <2>2. \A n \in Nat : n + 1 <= Len(list) =>
            /\ n <= Len(list) /\ n + 1 \in 1 .. Len(list)
            /\ n + 1 \in 0 .. Len(list) /\ (n + 1) - 1 = n /\ n + 1 # 0
    BY <1>1
  <2>3. 0 \in 0 .. Len(list)
    BY <1>1
  <2> QED
    BY <2>1, <2>2, <2>3
<1> DEFINE First(h, n) == /\ h \in Seq(EntryRecord) /\ Len(h) = n
                          /\ \A i \in 1 .. n : h[i] = list[i]
           T == {n \in Nat : n <= Len(list) => First(f[n], n)}
<1>5. 0 \in T
  <2>1. <<>> \in Seq(EntryRecord) /\ Len(<<>>) = 0
    BY EmptySeq
  <2>2. First(f[0], 0)
    BY <1>4, <2>1
  <2> QED
    BY <2>2
<1>6. ASSUME NEW n \in T PROVE n + 1 \in T
  <2> SUFFICES ASSUME n \in Nat, n + 1 <= Len(list) PROVE First(f[n + 1], n + 1)
    OBVIOUS
  <2>1. /\ First(f[n], n) /\ n + 1 \in 1 .. Len(list)
        /\ f[n + 1] = IF Known(f[n], list[n + 1]) THEN f[n] ELSE Append(f[n], list[n + 1])
    BY <1>4
  <2> DEFINE h == f[n]
             x == list[n + 1]
  <2>2. h \in Seq(EntryRecord) /\ Len(h) = n /\ DOMAIN h = 1 .. n /\ x \in EntryRecord
    BY <2>1, LenProperties, ElementOfSeq
  <2>3. \A i \in 1 .. n : i \in DOMAIN list /\ n + 1 \in DOMAIN list /\ i # n + 1 /\ h[i] = list[i]
    BY <1>1, <2>1
  <2>4. ~ Known(h, x)
    <3>1. \A i \in DOMAIN h : h[i].key # x.key /\ h[i].place # x.place
      BY <2>2, <2>3 DEF Distinct
    <3> HIDE DEF h, x
    <3> QED
      BY <3>1 DEF Known, KeysOf, PlacesOf, Elements
  <2>5. f[n + 1] = Append(h, x)
    BY <2>1, <2>4
  <2> HIDE DEF h
  <2>6. /\ Append(h, x) \in Seq(EntryRecord) /\ Len(Append(h, x)) = n + 1
        /\ \A i \in 1 .. n : Append(h, x)[i] = h[i]
        /\ Append(h, x)[n + 1] = x
    BY <2>2, AppendProperties
  <2>7. \A i \in 1 .. n + 1 : i \in 1 .. n \/ i = n + 1
    OBVIOUS
  <2> QED
    BY <2>3, <2>5, <2>6, <2>7
<1>7. T = Nat
  <2> HIDE DEF T
  <2>1. T \in SUBSET Nat
    BY DEF T
  <2> QED
    BY <1>5, <1>6, <2>1, AllNumbers
<1> DEFINE h == f[Len(list)]
<1>8. First(h, Len(list))
  BY <1>1, <1>7
<1>9. h = list
  <2> HIDE DEF h
  <2> QED
    BY <1>1, <1>8, SeqEqual
<1>10. Bounded(list) = list
  <2>1. (IF Len(list) < MaxEntries THEN Len(list) ELSE MaxEntries) = Len(list)
    <3> DEFINE n == Len(list)
    <3>1. n \in Nat /\ n <= MaxEntries /\ MaxEntries \in Nat
      BY <1>1, RecentsAssumption
    <3> HIDE DEF n
    <3>2. (IF n < MaxEntries THEN n ELSE MaxEntries) = n
      BY <3>1
    <3> QED
      BY <3>2 DEF n
  <2>2. SubSeq(list, 1, Len(list)) = list
    <3> DEFINE b == SubSeq(list, 1, Len(list))
    <3>1. \A i \in 1 .. Len(list) : list[i] \in EntryRecord
      BY ElementOfSeq
    <3>2. /\ 1 \in Int /\ Len(list) \in Int
          /\ Len(b) = (IF 1 <= Len(list) THEN Len(list) - 1 + 1 ELSE 0) => Len(b) = Len(list)
          /\ \A i \in 1 .. Len(list) : i \in 1 .. Len(list) - 1 + 1 /\ 1 + i - 1 = i
      BY <1>1
    <3>3. /\ b \in Seq(EntryRecord) /\ Len(b) = (IF 1 <= Len(list) THEN Len(list) - 1 + 1 ELSE 0)
          /\ \A i \in 1 .. Len(list) - 1 + 1 : b[i] = list[1 + i - 1]
      BY <3>1, <3>2, SubSeqProperties
    <3>4. Len(b) = Len(list) /\ \A i \in 1 .. Len(list) : b[i] = list[i]
      BY <3>2, <3>3
    <3> HIDE DEF b
    <3> QED
      BY <3>3, <3>4, SeqEqual DEF b
  <2> QED
    BY <2>1, <2>2 DEF Bounded
<1> QED
  BY <1>3, <1>9, <1>10

\* What a save in progress has in its files.
FileSound(t) ==
    /\ Saving(t) => op[t].list = entries
    /\ op[t].pc \in {"write", "rename"} => op[t].fd \in Inode /\ inode["staging"] = op[t].fd
    /\ op[t].pc = "write" => content[op[t].fd] = <<>>
    /\ op[t].pc = "rename" => content[op[t].fd] = entries

StagingApart == inode["staging"] = 0 \/ inode["staging"] # inode["stored"]

\* The staging file is never the stored one; of saves that overlap the history
\* knows; and what is stored is the list or, while one is being saved that overlaps
\* none, the one before.
StoredInv ==
    /\ StagingApart
    /\ \A t, u \in Thread : Saving(t) /\ Saving(u) /\ t # u => crossed
    /\ crossed => lapsed
    /\ ~ crossed => \A t \in Thread : FileSound(t)
    /\ ~ lapsed => Loaded = entries \/ (Loaded = before /\ \E t \in Thread : Saving(t))

\* Of saves that overlap nothing is promised but that the staging file is apart.
LEMMA StoredCrossed ==
    ASSUME StagingApart', crossed', lapsed'
    PROVE  StoredInv'
BY DEF StoredInv

\* Of a save that overlaps none, only its own files are to be looked at.
LEMMA StoredAlone ==
    ASSUME NEW t \in Thread, \A u \in Thread \ {t} : ~ Saving(u)', FileSound(t)',
           StagingApart', crossed' => lapsed',
           ~ lapsed' => Loaded' = entries' \/ (Loaded' = before' /\ Saving(t)')
    PROVE  StoredInv'
<1>1. \A u \in Thread : u # t => FileSound(u)'
  BY DEF FileSound, Saving
<1>2. \A u, w \in Thread : Saving(u)' /\ Saving(w)' => u = w
  OBVIOUS
<1> QED
  BY <1>1, <1>2 DEF StoredInv

\* Beside a save that overlaps none there is no other.
LEMMA SaveAlone ==
    ASSUME RecentsInv, StoredInv, NEW t \in Thread, Saving(t), ~ crossed,
           NEW c, op' = [op EXCEPT ![t] = c]
    PROVE  \A u \in Thread \ {t} : ~ Saving(u) /\ ~ Saving(u)'
<1>1. \A u \in Thread \ {t} : ~ Saving(u) /\ op'[u] = op[u]
  BY DEF StoredInv, RecentsInv, ListInv, RecentsTypeOK
<1> QED
  BY <1>1 DEF Saving

\* A thread that is not in a save does something else.
LEMMA StoredApart ==
    ASSUME RecentsInv, StoredInv, UNCHANGED <<entries, saved, before, crossed, lapsed>>,
           NEW t \in Thread, NEW c, op' = [op EXCEPT ![t] = c],
           ~ Saving(t), c.pc \notin {"create", "write", "rename"}
    PROVE  StoredInv'
<1>1. op'[t] = c /\ \A u \in Thread : u # t => op'[u] = op[u]
  BY DEF RecentsInv, ListInv, RecentsTypeOK
<1>2. ~ Saving(t)' /\ \A u \in Thread : Saving(u)' <=> Saving(u)
  BY <1>1 DEF Saving
<1>3. Loaded' = Loaded /\ StagingApart'
  BY DEF Loaded, saved, StoredInv, StagingApart
<1>4. ASSUME ~ crossed PROVE \A u \in Thread : FileSound(u)'
  <2>1. FileSound(t)'
    BY <1>2 DEF FileSound, Saving
  <2>2. \A u \in Thread : u # t => FileSound(u)'
    BY <1>1, <1>4 DEF StoredInv, FileSound, Saving, saved
  <2> QED
    BY <2>1, <2>2
<1> QED
  BY <1>2, <1>3, <1>4 DEF StoredInv

\* A change of the list starts a save.
LEMMA StoredChanged ==
    ASSUME RecentsInv, StoredInv, NEW t \in Thread, ~ Saving(t),
           NEW o \in Call, NEW list \in Seq(EntryRecord), NEW made, Changed(t, o, list, made),
           UNCHANGED saved
    PROVE  StoredInv'
<1> DEFINE c == [o EXCEPT !.pc = "create", !.list = list]
<1>1. /\ entries' = list /\ before' = entries /\ op' = [op EXCEPT ![t] = c]
      /\ crossed' = (\E u \in Thread \ {t} : Saving(u)) /\ lapsed' = (lapsed \/ crossed')
  BY DEF Changed
<1>2. c.pc = "create" /\ c.list = list
  BY DEF Call
<1> HIDE DEF c
<1>3. op'[t] = c /\ \A u \in Thread : u # t => op'[u] = op[u]
  BY <1>1 DEF RecentsInv, ListInv, RecentsTypeOK
<1>4. Saving(t)' /\ FileSound(t)'
  BY <1>1, <1>2, <1>3 DEF Saving, FileSound
<1>5. Loaded' = Loaded /\ StagingApart'
  BY DEF Loaded, saved, StoredInv, StagingApart
<1>6. CASE crossed'
  BY <1>1, <1>5, <1>6, StoredCrossed
<1>7. CASE ~ crossed'
  <2>1. \A u \in Thread : ~ Saving(u)
    BY <1>1, <1>7
  <2>2. \A u \in Thread \ {t} : ~ Saving(u)'
    BY <1>3, <2>1 DEF Saving
  <2>3. ~ lapsed' => Loaded' = before'
    BY <1>1, <1>5, <2>1 DEF StoredInv
  <2> QED
    BY <1>4, <1>5, <1>7, <2>2, <2>3, StoredAlone
<1> QED
  BY <1>6, <1>7

\* What SaveDone leaves is no save.
LEMMA DoneIdle ==
    ASSUME RecentsInv, NEW t \in Thread, SaveDone(t)
    PROVE  ~ Saving(t)' /\ \E c : op' = [op EXCEPT ![t] = c]
<1>1. op \in [Thread -> Call] /\ op[t] \in Call
  BY DEF RecentsInv, ListInv, RecentsTypeOK
<1>2. CASE op[t].roots = {}
  <2>1. op'[t] = Idle /\ op' = [op EXCEPT ![t] = Idle]
    BY <1>1, <1>2 DEF SaveDone
  <2>2. Idle.pc = "idle"
    BY DEF Idle
  <2> QED
    BY <2>1, <2>2 DEF Saving
<1>3. CASE op[t].roots # {}
  <2> DEFINE c == [op[t] EXCEPT !.pc = "forget", !.list = <<>>, !.fd = 0]
  <2>1. op'[t] = c /\ op' = [op EXCEPT ![t] = c] /\ c.pc = "forget"
    BY <1>1, <1>3 DEF SaveDone, Call
  <2> HIDE DEF c
  <2> QED
    BY <2>1 DEF Saving
<1> QED
  BY <1>2, <1>3

\* The staging file is another than the stored one, and empty.
LEMMA StoredCreate ==
    ASSUME RecentsInv, StoredInv, NEW t \in Thread, SaveCreate(t)
    PROVE  StoredInv'
<1> PICK i \in Inode : /\ IF inode["staging"] # 0 THEN i = inode["staging"] ELSE Unused(i)
                       /\ inode' = [inode EXCEPT !["staging"] = i]
                       /\ content' = [content EXCEPT ![i] = <<>>]
                       /\ op' = [op EXCEPT ![t].pc = "write", ![t].fd = i]
  BY DEF SaveCreate
<1> DEFINE c == [op[t] EXCEPT !.pc = "write", !.fd = i]
<1>1. /\ op \in [Thread -> Call] /\ op[t] \in Call /\ op[t].pc = "create"
      /\ inode \in [stored : Inode \union {0}, staging : Inode \union {0}]
      /\ content \in [Inode -> Seq(EntryRecord)]
      /\ UNCHANGED <<entries, before, crossed, lapsed>>
  BY DEF RecentsInv, ListInv, RecentsTypeOK, SaveCreate, At, listVars, history
<1>2. op'[t] = c /\ op' = [op EXCEPT ![t] = c]
  BY <1>1
<1>3. c.pc = "write" /\ c.fd = i /\ c.list = op[t].list
  BY <1>1 DEF Call
<1> HIDE DEF c
<1>4. i # inode["stored"] /\ i # 0
  <2>1. i # inode["stored"]
    BY DEF StoredInv, StagingApart, Unused
  <2>2. i # 0
    BY <2>1 DEF Inode
  <2> QED
    BY <2>1, <2>2
<1>5. inode'["staging"] = i /\ inode'["stored"] = inode["stored"]
  BY <1>1
<1>6. content'[i] = <<>> /\ \A j \in Inode : j # i => content'[j] = content[j]
  BY <1>1
<1>7. Loaded' = Loaded /\ StagingApart'
  BY <1>1, <1>4, <1>5, <1>6 DEF Loaded, StagingApart
<1>8. CASE crossed
  BY <1>1, <1>7, <1>8, StoredCrossed DEF StoredInv
<1>9. CASE ~ crossed
  <2>1. Saving(t) /\ op[t].list = entries
    BY <1>1, <1>9 DEF StoredInv, FileSound, Saving
  <2>2. Saving(t)' /\ FileSound(t)'
    BY <1>1, <1>2, <1>3, <1>5, <1>6, <2>1 DEF Saving, FileSound
  <2>3. \A u \in Thread \ {t} : ~ Saving(u) /\ ~ Saving(u)'
    BY <1>2, <1>9, <2>1, SaveAlone
  <2>4. ~ lapsed' => Loaded' = entries' \/ Loaded' = before'
    BY <1>1, <1>7 DEF StoredInv
  <2> QED
    BY <1>1, <1>7, <1>9, <2>2, <2>3, <2>4, StoredAlone
<1> QED
  BY <1>8, <1>9

\* The whole of the list is written to the empty file.
LEMMA StoredWrite ==
    ASSUME RecentsInv, StoredInv, NEW t \in Thread, SaveWrite(t)
    PROVE  StoredInv'
<1> DEFINE c == [op[t] EXCEPT !.pc = "rename"]
           list == op[t].list
           fd == op[t].fd
<1>1. /\ op \in [Thread -> Call] /\ op[t] \in Call /\ op[t].pc = "write"
      /\ inode \in [stored : Inode \union {0}, staging : Inode \union {0}]
      /\ content \in [Inode -> Seq(EntryRecord)]
      /\ UNCHANGED <<entries, before, crossed, lapsed, inode>>
      /\ op' = [op EXCEPT ![t].pc = "rename"]
      /\ entries \in Seq(EntryRecord)
  BY DEF RecentsInv, ListInv, RecentsTypeOK, SaveWrite, Goto, At, listVars, history
<1>2. op'[t] = c /\ op' = [op EXCEPT ![t] = c]
  BY <1>1
<1>3. c.pc = "rename" /\ c.fd = fd /\ c.list = list
  BY <1>1 DEF Call
<1> HIDE DEF c
<1>4. StagingApart'
  BY <1>1 DEF StoredInv, StagingApart
<1>5. CASE crossed
  BY <1>1, <1>4, <1>5, StoredCrossed DEF StoredInv
<1>6. CASE ~ crossed
  <2>1. list = entries /\ fd \in Inode /\ inode["staging"] = fd /\ content[fd] = <<>>
    BY <1>1, <1>6 DEF StoredInv, FileSound, Saving
  <2>2. content' = [content EXCEPT ![fd] = list \o SubSeq(content[fd], Len(list) + 1, Len(content[fd]))]
    BY DEF SaveWrite
  <2> HIDE DEF fd, list
  <2>3. list \o SubSeq(content[fd], Len(list) + 1, Len(content[fd])) = entries
    <3>1. Len(<<>>) = 0 /\ Len(entries) \in Nat /\ <<>> \in Seq(EntryRecord)
      BY <1>1, EmptySeq, LenProperties
    <3>2. SubSeq(<<>>, Len(entries) + 1, 0) = <<>>
      <4> DEFINE n == Len(entries)
      <4>1. n + 1 \in Int /\ 0 \in Int /\ ~ (n + 1 <= 0) /\ \A i \in n + 1 .. 0 : FALSE
        BY <3>1
      <4>2. /\ SubSeq(<<>>, n + 1, 0) \in Seq(EntryRecord)
            /\ Len(SubSeq(<<>>, n + 1, 0)) = IF n + 1 <= 0 THEN 0 - (n + 1) + 1 ELSE 0
        <5> HIDE DEF n
        <5> QED
          BY <3>1, <4>1, SubSeqProperties
      <4> QED
        BY <4>1, <4>2, EmptySeq
    <3>3. entries \o <<>> = entries
      BY <1>1, ConcatEmptySeq
    <3> QED
      BY <2>1, <3>1, <3>2, <3>3
  <2>4. content'[fd] = entries /\ \A j \in Inode : j # fd => content'[j] = content[j]
    BY <1>1, <2>1, <2>2, <2>3
  <2>5. fd # inode["stored"]
    <3>1. fd # 0
      BY <2>1 DEF Inode
    <3> QED
      BY <2>1, <3>1 DEF StoredInv, StagingApart
  <2>6. Loaded' = Loaded
    BY <1>1, <2>4, <2>5 DEF Loaded
  <2>7. Saving(t) /\ Saving(t)' /\ FileSound(t)'
    BY <1>1, <1>2, <1>3, <2>1, <2>4 DEF Saving, FileSound
  <2>8. \A u \in Thread \ {t} : ~ Saving(u) /\ ~ Saving(u)'
    BY <1>2, <1>6, <2>7, SaveAlone
  <2>9. ~ lapsed' => Loaded' = entries' \/ Loaded' = before'
    BY <1>1, <2>6 DEF StoredInv
  <2> QED
    BY <1>1, <1>4, <1>6, <2>7, <2>8, <2>9, StoredAlone
<1> QED
  BY <1>5, <1>6

\* The file that holds the list becomes the stored one.
LEMMA StoredRename ==
    ASSUME RecentsInv, StoredInv, NEW t \in Thread, SaveRename(t)
    PROVE  StoredInv'
<1> DEFINE fd == op[t].fd
<1>1. /\ op[t].pc = "rename" /\ UNCHANGED <<entries, before, crossed>> /\ SaveDone(t)
      /\ inode \in [stored : Inode \union {0}, staging : Inode \union {0}]
      /\ content \in [Inode -> Seq(EntryRecord)]
      /\ entries \in Seq(EntryRecord) /\ Distinct(entries) /\ Len(entries) <= MaxEntries
  BY DEF RecentsInv, ListInv, RecentsTypeOK, EntriesSound, SaveRename, At, listVars
<1>2. /\ inode["staging"] = 0 => UNCHANGED <<saved, lapsed>>
      /\ inode["staging"] # 0 =>
            /\ inode' = [stored |-> inode["staging"], staging |-> 0]
            /\ content' = [i \in Inode |-> IF i = inode["stored"] THEN <<>> ELSE content[i]]
            /\ lapsed' = crossed
  BY DEF SaveRename
<1>3. StagingApart'
  <2>1. CASE inode["staging"] = 0
    BY <1>2, <2>1 DEF StagingApart, saved
  <2>2. CASE inode["staging"] # 0
    <3>1. inode'["staging"] = 0
      BY <1>2, <2>2
    <3> QED
      BY <3>1 DEF StagingApart
  <2> QED
    BY <2>1, <2>2
<1>4. CASE crossed
  <2>1. lapsed
    BY <1>4, Zenon DEF StoredInv
  <2>2. lapsed' = lapsed \/ lapsed' = crossed
    BY <1>2
  <2>3. lapsed'
    BY <1>4, <2>1, <2>2, Zenon
  <2> QED
    BY <1>1, <1>3, <1>4, <2>3, StoredCrossed
<1>5. CASE ~ crossed
  <2>1. fd \in Inode /\ inode["staging"] = fd /\ content[fd] = entries
    BY <1>1, <1>5 DEF StoredInv, FileSound
  <2>2. fd # 0
    BY <2>1 DEF Inode
  <2>3. fd # inode["stored"]
    BY <2>1, <2>2 DEF StoredInv, StagingApart
  <2>4. /\ inode' = [stored |-> fd, staging |-> 0]
        /\ content' = [i \in Inode |-> IF i = inode["stored"] THEN <<>> ELSE content[i]]
    BY <1>2, <2>1, <2>2
  <2> HIDE DEF fd
  <2>5. inode'["stored"] = fd /\ content'[fd] = entries
    BY <2>1, <2>3, <2>4
  <2>6. Loaded' = Decoded(entries)
    BY <2>2, <2>5 DEF Loaded
  <2>7. Loaded' = entries
    BY <1>1, <2>6, DecodedSame
  <2>8. PICK c : op' = [op EXCEPT ![t] = c]
    BY <1>1, DoneIdle
  <2>9. ~ Saving(t)' /\ Saving(t)
    BY <1>1, DoneIdle DEF Saving
  <2>10. \A u \in Thread \ {t} : ~ Saving(u) /\ ~ Saving(u)'
    BY <1>5, <2>8, <2>9, SaveAlone
  <2>11. FileSound(t)'
    BY <2>9 DEF FileSound, Saving
  <2> QED
    BY <1>1, <1>3, <1>5, <2>7, <2>10, <2>11, StoredAlone
<1> QED
  BY <1>4, <1>5

\* A refused save leaves the stored list, and a staging file the next save empties.
LEMMA StoredFail ==
    ASSUME RecentsInv, StoredInv, NEW t \in Thread, SaveFail(t)
    PROVE  StoredInv'
<1>1. ~ Saving(t)' /\ lapsed' /\ Saving(t) /\ crossed' = crossed
  BY DoneIdle DEF SaveFail
<1>2. PICK c : op' = [op EXCEPT ![t] = c]
  BY DoneIdle DEF SaveFail
<1>3. StagingApart'
  BY DEF SaveFail, StoredInv, StagingApart, RecentsInv, ListInv, RecentsTypeOK
<1>4. CASE crossed
  BY <1>1, <1>3, <1>4, StoredCrossed
<1>5. CASE ~ crossed
  <2>1. \A u \in Thread \ {t} : ~ Saving(u) /\ ~ Saving(u)'
    BY <1>1, <1>2, <1>5, SaveAlone
  <2>2. FileSound(t)'
    BY <1>1 DEF FileSound, Saving
  <2> QED
    BY <1>1, <1>3, <2>1, <2>2, StoredAlone
<1> QED
  BY <1>4, <1>5

\* A run begins with what is stored.
LEMMA StoredRestart ==
    ASSUME RecentsInv, Restart
    PROVE  StoredInv' /\ entries' = Loaded
<1>1. /\ entries' = Loaded /\ op' = [t \in Thread |-> Idle] /\ content' = content
      /\ inode' = [inode EXCEPT !.staging = 0] /\ crossed' = FALSE
      /\ inode \in [stored : Inode \union {0}, staging : Inode \union {0}]
  BY DEF Restart, RecentsInv, ListInv, RecentsTypeOK
<1>2. inode'["staging"] = 0 /\ inode'["stored"] = inode["stored"]
  BY <1>1
<1>3. Loaded' = Loaded
  BY <1>1, <1>2 DEF Loaded
<1>4. \A u \in Thread : FileSound(u)' /\ ~ Saving(u)'
  BY <1>1 DEF FileSound, Saving, Idle
<1> QED
  BY <1>1, <1>2, <1>3, <1>4 DEF StoredInv, StagingApart

-----------------------------------------------------------------------------
(* What a withdrawal forgets.  A root that was withdrawn is never remembered *)
(* again, so once no call is about to note an entry against it, the entries  *)
(* it keeps are those it holds, and they only become fewer.                  *)

\* Every recorded grant is a root, and has a place.
RootsPlaced ==
    \A id \in GrantId : Recorded(id) => grants[id].root = id /\ sources[id] # Nowhere

\* What an entry is kept by holds it, until its handle is dropped.
MakersHold ==
    \A k, id : <<k, id>> \in makers =>
        /\ k \in KeysOf(entries) /\ id \in issued
        /\ sources[id] # Nowhere => held[id] = k

\* Withdrawn roots were given out, whoever is to forget them.
RootsWithdrawn ==
    /\ revokedRoots \subseteq issued /\ withdrawn \subseteq revokedRoots
    /\ \A t \in Thread : op[t].roots \subseteq revokedRoots

UsesPc == {"marked", "found", "granted"}
PastPc == {"forget", "create", "write", "rename", "withdrawn"}

\* A reopened grant is its call's alone until the entry is noted against it; and
\* once a withdrawal has looked, what it has still to forget is all that its roots
\* keep, and no call is about to add to it, but for those it missed.
CallKeeps(t) ==
    /\ op[t].pc = "granted" =>
          /\ \A k : <<k, op[t].id>> \notin makers
          /\ \A u \in Thread : u # t => ~ Uses(u, op[t].id)
    /\ op[t].pc \in PastPc =>
          \A id \in op[t].roots \ missed :
              /\ \A u \in Thread : ~ Uses(u, id)
              /\ \A k : <<k, id>> \in makers => k \in op[t].keys
    /\ op[t].pc = "withdrawn" => op[t].keys = {}

MakersInv == RootsPlaced /\ MakersHold /\ RootsWithdrawn /\ \A t \in Thread : CallKeeps(t)

\* A call that begins to use a grant takes one that was not withdrawn and that no
\* call is alone with.
Begins(t, c) ==
    c.pc \in UsesPc =>
        \/ Uses(t, c.id)
        \/ c.id \notin revokedRoots /\ \A u \in Thread : op[u].pc = "granted" => op[u].id # c.id

\* The steps of one thread leave what the others keep as it was.
LEMMA OthersKeep ==
    ASSUME RecentsInv, MakersInv, NEW t \in Thread, NEW c, op' = [op EXCEPT ![t] = c],
           Begins(t, c), missed \subseteq missed',
           \A k, id : <<k, id>> \in makers' => <<k, id>> \in makers \/ Uses(t, id),
           NEW u \in Thread, u # t
    PROVE  CallKeeps(u)'
<1>1. op'[t] = c /\ \A w \in Thread : w # t => op'[w] = op[w]
  BY DEF RecentsInv, ListInv, RecentsTypeOK
<1>2. op'[u] = op[u] /\ CallKeeps(u) /\ op[u].roots \subseteq revokedRoots
  BY <1>1 DEF MakersInv, RootsWithdrawn
<1>3. ASSUME NEW id, NEW w \in Thread, Uses(w, id)'
      PROVE  \/ Uses(w, id) \/ Uses(t, id)
             \/ w = t /\ id = c.id /\ c.id \notin revokedRoots
                /\ \A v \in Thread : op[v].pc = "granted" => op[v].id # c.id
  <2>1. CASE w # t
    BY <1>1, <1>3, <2>1 DEF Uses
  <2>2. CASE w = t
    BY <1>1, <1>3, <2>2 DEF Uses, Begins, UsesPc
  <2> QED
    BY <2>1, <2>2
<1>4. ASSUME op[u].pc = "granted"
      PROVE  /\ \A k : <<k, op[u].id>> \notin makers'
             /\ \A w \in Thread : w # u => ~ Uses(w, op[u].id)'
  <2>1. /\ \A k : <<k, op[u].id>> \notin makers
        /\ \A w \in Thread : w # u => ~ Uses(w, op[u].id)
    BY <1>2, <1>4 DEF CallKeeps
  <2>2. ~ Uses(t, op[u].id)
    BY <2>1
  <2>3. ASSUME NEW w \in Thread, w # u, Uses(w, op[u].id)' PROVE FALSE
    <3> DEFINE x == op[u].id
    <3>1. ~ Uses(w, x) /\ ~ Uses(t, x) /\ op'[u].id = x
      BY <1>2, <2>1, <2>2, <2>3
    <3>2. w = t => c.pc \in UsesPc /\ c.id = x
      BY <1>1, <1>2, <2>3 DEF Uses, UsesPc
    <3>3. w # t => Uses(w, x)
      BY <1>1, <1>2, <2>3 DEF Uses
    <3>4. w = t
      BY <3>1, <3>3
    <3> QED
      BY <1>4, <3>1, <3>2, <3>4 DEF Begins
  <2> QED
    BY <2>1, <2>2, <2>3
<1>5. ASSUME op[u].pc \in PastPc, NEW id \in op[u].roots \ missed'
      PROVE  /\ \A w \in Thread : ~ Uses(w, id)'
             /\ \A k : <<k, id>> \in makers' => k \in op[u].keys
  <2>1. /\ \A w \in Thread : ~ Uses(w, id)
        /\ \A k : <<k, id>> \in makers => k \in op[u].keys
    BY <1>2, <1>5 DEF CallKeeps
  <2>2. id \in revokedRoots
    BY <1>2
  <2> QED
    BY <1>3, <2>1, <2>2
<1> QED
  BY <1>2, <1>4, <1>5, Zenon DEF CallKeeps

\* A step of a thread that keeps the list's part.
LEMMA MakersMove ==
    ASSUME RecentsInv, MakersInv, NEW t \in Thread, NEW c, op' = [op EXCEPT ![t] = c],
           Begins(t, c), missed \subseteq missed',
           \A k, id : <<k, id>> \in makers' => <<k, id>> \in makers \/ Uses(t, id),
           RootsPlaced', MakersHold',
           revokedRoots \subseteq revokedRoots', revokedRoots' \subseteq issued',
           withdrawn' \subseteq revokedRoots', c.roots \subseteq revokedRoots', CallKeeps(t)'
    PROVE  MakersInv'
<1>1. \A u \in Thread : CallKeeps(u)'
  BY OthersKeep
<1>2. op'[t] = c /\ \A u \in Thread : u # t => op'[u] = op[u]
  BY DEF RecentsInv, ListInv, RecentsTypeOK
<1>3. \A u \in Thread : op'[u].roots \subseteq revokedRoots'
  BY <1>2 DEF MakersInv, RootsWithdrawn
<1>4. RootsWithdrawn'
  BY <1>3 DEF RootsWithdrawn
<1> QED
  BY <1>1, <1>4 DEF MakersInv

\* Where a call is that has nothing to keep.
LEMMA NothingKept ==
    ASSUME RecentsInv, NEW t \in Thread, NEW c, op' = [op EXCEPT ![t] = c],
           c.pc \notin PastPc, c.pc # "granted"
    PROVE  CallKeeps(t)'
<1>1. op'[t] = c
  BY DEF RecentsInv, ListInv, RecentsTypeOK
<1> QED
  BY <1>1 DEF CallKeeps, PastPc

\* What a withdrawal that has looked has to keep.
LEMMA PastKeeps ==
    ASSUME RecentsInv, NEW t \in Thread, NEW c, op' = [op EXCEPT ![t] = c],
           c.pc \in PastPc, c.pc = "withdrawn" => c.keys = {},
           \A id \in c.roots \ missed' :
              /\ \A u \in Thread : u # t => ~ Uses(u, id)
              /\ \A k : <<k, id>> \in makers' => k \in c.keys
    PROVE  CallKeeps(t)'
<1>1. op'[t] = c /\ \A u \in Thread : u # t => op'[u] = op[u]
  BY DEF RecentsInv, ListInv, RecentsTypeOK
<1>2. c.pc # "granted" /\ c.pc \notin UsesPc
  BY DEF PastPc, UsesPc
<1>3. ASSUME NEW id, NEW u \in Thread, u # t => ~ Uses(u, id) PROVE ~ Uses(u, id)'
  BY <1>1, <1>2, <1>3 DEF Uses, UsesPc
<1>4. \A id \in op'[t].roots \ missed' :
         /\ \A u \in Thread : ~ Uses(u, id)'
         /\ \A k : <<k, id>> \in makers' => k \in op'[t].keys
  BY <1>1, <1>3
<1> QED
  BY <1>1, <1>2, <1>4, Zenon DEF CallKeeps

\* What is kept, by what, and the registry.
KeptSteady == UNCHANGED <<makers, held, entries, sources, grants, revokedRoots, withdrawn, issued>>

LEMMA MakersSteady ==
    ASSUME RecentsInv, MakersInv, KeptSteady, missed \subseteq missed',
           NEW t \in Thread, NEW c, op' = [op EXCEPT ![t] = c],
           Begins(t, c), c.roots \subseteq revokedRoots, CallKeeps(t)'
    PROVE  MakersInv'
<1>1. RootsPlaced' /\ MakersHold'
  BY DEF KeptSteady, MakersInv, RootsPlaced, MakersHold, Recorded, KeysOf, Elements
<1>2. /\ revokedRoots \subseteq revokedRoots' /\ revokedRoots' \subseteq issued'
      /\ withdrawn' \subseteq revokedRoots' /\ c.roots \subseteq revokedRoots'
      /\ \A k, id : <<k, id>> \in makers' => <<k, id>> \in makers \/ Uses(t, id)
  BY DEF KeptSteady, MakersInv, RootsWithdrawn
<1> QED
  BY <1>1, <1>2, MakersMove

\* The call returns.
LEMMA MakersReturn ==
    ASSUME RecentsInv, MakersInv, KeptSteady, missed' = missed, NEW t \in Thread,
           op' = [op EXCEPT ![t] = Idle]
    PROVE  MakersInv'
<1>1. Idle.pc = "idle" /\ Idle.roots = {}
  BY DEF Idle
<1>2. CallKeeps(t)' /\ Begins(t, Idle)
  BY <1>1, NothingKept DEF PastPc, Begins, UsesPc
<1> QED
  BY <1>1, <1>2, MakersSteady

\* A withdrawal goes on, with what it has still to forget.
LEMMA MakersGoOn ==
    ASSUME RecentsInv, MakersInv, KeptSteady, missed' = missed, NEW t \in Thread,
           op[t].pc \in PastPc, NEW c, op' = [op EXCEPT ![t] = c], c.pc \in PastPc,
           c.roots = op[t].roots,
           \A k \in op[t].keys : k \in c.keys \/ k \notin KeysOf(entries),
           c.pc = "withdrawn" => c.keys = {}
    PROVE  MakersInv'
<1>1. CallKeeps(t) /\ MakersHold /\ op[t].roots \subseteq revokedRoots
  BY DEF MakersInv, RootsWithdrawn
<1>2. ASSUME NEW id \in c.roots \ missed'
      PROVE  /\ \A u \in Thread : u # t => ~ Uses(u, id)
             /\ \A k : <<k, id>> \in makers' => k \in c.keys
  <2>1. id \in op[t].roots \ missed
    OBVIOUS
  <2>2. /\ \A u \in Thread : ~ Uses(u, id)
        /\ \A k : <<k, id>> \in makers => k \in op[t].keys
    BY <1>1, <2>1 DEF CallKeeps
  <2>3. \A k : <<k, id>> \in makers => k \in KeysOf(entries)
    BY <1>1 DEF MakersHold
  <2> QED
    BY <2>2, <2>3 DEF KeptSteady
<1>3. CallKeeps(t)'
  BY <1>2, PastKeeps
<1>4. Begins(t, c)
  BY DEF Begins, PastPc, UsesPc
<1> QED
  BY <1>1, <1>3, <1>4, MakersSteady

\* save: the call goes on with what it has still to forget.
LEMMA MakersSave ==
    ASSUME RecentsInv, MakersInv, NEW t \in Thread,
           SaveCreate(t) \/ SaveWrite(t) \/ SaveRename(t) \/ SaveFail(t)
    PROVE  MakersInv'
<1>1. op \in [Thread -> Call] /\ op[t] \in Call
  BY DEF RecentsInv, ListInv, RecentsTypeOK
<1>2. op[t].pc \in PastPc
  BY DEF SaveCreate, SaveWrite, SaveRename, SaveFail, Saving, At, PastPc
<1>3. KeptSteady /\ missed' = missed
  BY DEF SaveCreate, SaveWrite, SaveRename, SaveFail, grantVars, registryVars, listVars, history,
         KeptSteady
<1>4. ASSUME NEW c, op' = [op EXCEPT ![t] = c], c.pc \in PastPc, c.pc # "withdrawn",
             c.roots = op[t].roots, c.keys = op[t].keys
      PROVE  MakersInv'
  BY <1>2, <1>3, <1>4, MakersGoOn
<1>5. CASE SaveCreate(t)
  <2> PICK i : op' = [op EXCEPT ![t].pc = "write", ![t].fd = i]
    BY <1>5 DEF SaveCreate
  <2> DEFINE c == [op[t] EXCEPT !.pc = "write", !.fd = i]
  <2>1. op' = [op EXCEPT ![t] = c]
    BY <1>1
  <2>2. c.pc = "write" /\ c.roots = op[t].roots /\ c.keys = op[t].keys
    BY <1>1 DEF Call
  <2> HIDE DEF c
  <2> QED
    BY <1>4, <2>1, <2>2 DEF PastPc
<1>6. CASE SaveWrite(t)
  <2> DEFINE c == [op[t] EXCEPT !.pc = "rename"]
  <2>1. op' = [op EXCEPT ![t] = c]
    BY <1>1, <1>6 DEF SaveWrite, Goto
  <2>2. c.pc = "rename" /\ c.roots = op[t].roots /\ c.keys = op[t].keys
    BY <1>1 DEF Call
  <2> HIDE DEF c
  <2> QED
    BY <1>4, <2>1, <2>2 DEF PastPc
<1>7. CASE SaveDone(t)
  <2>1. CASE op[t].roots = {}
    <3>1. op' = [op EXCEPT ![t] = Idle]
      BY <1>7, <2>1 DEF SaveDone
    <3> QED
      BY <1>3, <3>1, MakersReturn
  <2>2. CASE op[t].roots # {}
    <3> DEFINE c == [op[t] EXCEPT !.pc = "forget", !.list = <<>>, !.fd = 0]
    <3>1. op' = [op EXCEPT ![t] = c]
      BY <1>7, <2>2 DEF SaveDone
    <3>2. c.pc = "forget" /\ c.roots = op[t].roots /\ c.keys = op[t].keys
      BY <1>1 DEF Call
    <3> HIDE DEF c
    <3> QED
      BY <1>4, <3>1, <3>2 DEF PastPc
  <2> QED
    BY <2>1, <2>2
<1> QED
  BY <1>5, <1>6, <1>7 DEF SaveRename, SaveFail

\* remember finds the place, or that there is nothing to remember.
LEMMA MakersFind ==
    ASSUME RecentsInv, MakersInv, NEW t \in Thread, RememberFind(t)
    PROVE  MakersInv'
<1>1. op \in [Thread -> Call] /\ op[t] \in Call /\ op[t].pc = "marked"
  BY DEF RecentsInv, ListInv, RecentsTypeOK, RememberFind, At
<1>2. KeptSteady /\ missed' = missed
  BY DEF RememberFind, grantVars, registryVars, listVars, history, KeptSteady
<1>3. CASE Returns(t)
  BY <1>2, <1>3, MakersReturn DEF Returns
<1>4. CASE ~ Returns(t)
  <2> DEFINE p == sources[op[t].id]
             c == [op[t] EXCEPT !.pc = "found", !.entry.place = p]
  <2>1. op' = [op EXCEPT ![t] = c]
    BY <1>1, <1>4 DEF RememberFind
  <2>2. c.pc = "found" /\ c.roots = op[t].roots /\ c.id = op[t].id
    BY <1>1 DEF Call
  <2> HIDE DEF c
  <2>3. Begins(t, c)
    BY <1>1, <2>2 DEF Begins, Uses
  <2>4. CallKeeps(t)'
    BY <2>1, <2>2, NothingKept DEF PastPc
  <2>5. c.roots \subseteq revokedRoots
    BY <2>2 DEF MakersInv, RootsWithdrawn
  <2> QED
    BY <1>2, <2>1, <2>3, <2>4, <2>5, MakersSteady
<1> QED
  BY <1>3, <1>4

\* A person asks for an entry again.
LEMMA MakersReopen ==
    ASSUME RecentsInv, MakersInv, NEW t \in Thread, NEW i \in DOMAIN entries, Reopen(t, i)
    PROVE  MakersInv'
<1> DEFINE c == [Idle EXCEPT !.pc = "checked", !.entry = entries[i]]
<1>1. op' = [op EXCEPT ![t] = c]
  BY DEF Reopen
<1>2. KeptSteady /\ missed' = missed
  BY DEF Reopen, grantVars, registryVars, listVars, history, KeptSteady
<1>3. c.pc = "checked" /\ c.roots = {}
  BY DEF Idle
<1> HIDE DEF c
<1>4. CallKeeps(t)' /\ Begins(t, c)
  BY <1>1, <1>3, NothingKept DEF PastPc, Begins, UsesPc
<1> QED
  BY <1>1, <1>2, <1>3, <1>4, MakersSteady

\* A withdrawal finds the entries its roots hold: of a recorded root, all it keeps.
LEMMA MakersTaken ==
    ASSUME RecentsInv, MakersInv, NEW t \in Thread, WithdrawFind(t)
    PROVE  MakersInv'
<1> DEFINE K == {held[id] : id \in op[t].roots} \ {0}
           c == [op[t] EXCEPT !.pc = "forget", !.keys = K]
<1>1. op \in [Thread -> Call] /\ op[t] \in Call /\ op[t].pc = "taken"
  BY DEF RecentsInv, ListInv, RecentsTypeOK, WithdrawFind, At
<1>2. op' = [op EXCEPT ![t] = c]
  BY <1>1 DEF WithdrawFind
<1>3. c.pc = "forget" /\ c.roots = op[t].roots /\ c.keys = K
  BY <1>1 DEF Call
<1> HIDE DEF c
<1>4. /\ KeptSteady
      /\ missed' = missed \union {id \in op[t].roots : ~ Recorded(id) \/ \E u \in Thread : Uses(u, id)}
  BY DEF WithdrawFind, grantVars, registryVars, listVars, history, KeptSteady
<1>5. 0 \notin KeysOf(entries)
  <2>1. \A x \in EntryRecord : x.key # 0
    BY RecentsAssumption DEF EntryRecord
  <2> QED
    BY <2>1 DEF KeysOf, Elements, RecentsInv, ListInv, RecentsTypeOK
<1>6. ASSUME NEW id \in c.roots \ missed'
      PROVE  /\ \A u \in Thread : u # t => ~ Uses(u, id)
             /\ \A k : <<k, id>> \in makers' => k \in c.keys
  <2>1. id \in op[t].roots /\ Recorded(id) /\ \A u \in Thread : ~ Uses(u, id)
    BY <1>3, <1>4
  <2>2. id \in GrantId
    BY <1>1, <2>1 DEF Call
  <2>3. sources[id] # Nowhere
    BY <2>1, <2>2 DEF MakersInv, RootsPlaced
  <2>4. ASSUME NEW k, <<k, id>> \in makers PROVE k \in K
    <3>1. held[id] = k /\ k \in KeysOf(entries)
      BY <2>3, <2>4 DEF MakersInv, MakersHold
    <3> QED
      BY <1>5, <2>1, <3>1
  <2> QED
    BY <1>3, <1>4, <2>1, <2>4 DEF KeptSteady
<1> HIDE DEF K
<1>7. CallKeeps(t)'
  BY <1>2, <1>3, <1>6, PastKeeps DEF PastPc
<1>8. Begins(t, c) /\ c.roots \subseteq revokedRoots
  BY <1>3 DEF Begins, UsesPc, MakersInv, RootsWithdrawn
<1> QED
  BY <1>2, <1>4, <1>7, <1>8, MakersSteady

\* The grant is marked as remembered: no withdrawn one is.
LEMMA MakersMark ==
    ASSUME RecentsInv, MakersInv, NEW t \in Thread, NEW id \in GrantId, RememberMark(t, id)
    PROVE  MakersInv'
<1> DEFINE c == [Idle EXCEPT !.pc = "marked", !.id = id, !.entry = Entry(0, Nowhere, grants[id].origin)]
<1>1. /\ op' = [op EXCEPT ![t] = c] /\ Rememberable(id) = "ok" /\ HandedOut(id)
      /\ UNCHANGED <<makers, held, entries, sources, issued, missed, withdrawn, revokedRoots>>
  BY DEF RememberMark, Remember, listVars, history
<1>2. c.pc = "marked" /\ c.roots = {} /\ c.id = id
  BY DEF Idle
<1> HIDE DEF c
<1>3. Recorded(id) /\ id \notin revokedRoots
  <2>1. Recorded(id) /\ ~ IsRevoked(id)
    BY <1>1 DEF Rememberable
  <2>2. grants[id].root = id
    BY <2>1 DEF MakersInv, RootsPlaced
  <2> QED
    BY <2>1, <2>2 DEF IsRevoked
<1>4. Begins(t, c)
  BY <1>1, <1>2, <1>3 DEF Begins, HandedOut, At
<1>5. CallKeeps(t)'
  BY <1>1, <1>2, NothingKept DEF PastPc
<1>6. RootsPlaced'
  <2> SUFFICES ASSUME NEW i \in GrantId, Recorded(i)' PROVE grants'[i].root = i /\ sources'[i] # Nowhere
    BY DEF RootsPlaced
  <2>1. /\ grants' = [j \in GrantId |-> IF Recorded(j) /\ grants[j].root = grants[id].root
                                          THEN [grants[j] EXCEPT !.lifetime = "remembered"]
                                          ELSE grants[j]]
    BY DEF RememberMark, Remember
  <2>2. Recorded(i)
    BY <2>1 DEF Recorded
  <2>3. grants[i] \in Grant
    BY <2>2 DEF Recorded, RecentsInv, RegistryInv, GrantsTypeOK
  <2>4. grants'[i].root = grants[i].root
    BY <2>1, <2>3 DEF Grant
  <2> QED
    BY <1>1, <2>2, <2>4 DEF MakersInv, RootsPlaced
<1>7. MakersHold'
  BY <1>1 DEF MakersInv, MakersHold, KeysOf, Elements
<1>8. /\ missed \subseteq missed' /\ revokedRoots \subseteq revokedRoots'
      /\ revokedRoots' \subseteq issued' /\ withdrawn' \subseteq revokedRoots'
      /\ c.roots \subseteq revokedRoots'
      /\ \A k, i : <<k, i>> \in makers' => <<k, i>> \in makers \/ Uses(t, i)
  BY <1>1, <1>2 DEF MakersInv, RootsWithdrawn
<1> QED
  BY <1>1, <1>4, <1>5, <1>6, <1>7, <1>8, MakersMove

\* A handle is given out and recorded as a root with a place; nothing is kept by it.
LEMMA MakersRoot ==
    ASSUME RecentsInv, MakersInv, NEW id \in GrantId, id \notin issued, issued' = issued \union {id},
           NEW rights, NEW o, NEW l, RecordRoot(id, rights, o, l),
           NEW p \in Place, sources' = [sources EXCEPT ![id] = p],
           UNCHANGED <<entries, held, makers>>
    PROVE  RootsPlaced' /\ MakersHold' /\ \A k : <<k, id>> \notin makers
<1>1. \A k : <<k, id>> \notin makers
  BY DEF MakersInv, MakersHold
<1>2. /\ grants \in [GrantId -> Grant \union {NoGrant}] /\ issued \subseteq GrantId
      /\ sources \in [GrantId -> Place \union {Nowhere}]
  BY DEF RecentsInv, RegistryInv, GrantsTypeOK, ListInv, RecentsTypeOK
<1>3. \A i \in GrantId : sources'[i] = IF i = id THEN p ELSE sources[i]
  BY <1>2
<1>4. \A i \in GrantId : i # id => grants'[i] = grants[i]
  BY <1>2 DEF RecordRoot
<1>5. grants'[id].root = id
  BY <1>2 DEF RecordRoot
<1>6. RootsPlaced'
  BY <1>3, <1>4, <1>5, RecentsAssumption DEF MakersInv, RootsPlaced, Recorded
<1>7. MakersHold'
  BY <1>1, <1>2, <1>3 DEF MakersInv, MakersHold, KeysOf, Elements
<1> QED
  BY <1>1, <1>6, <1>7

\* A person chooses a file: what the calls in flight keep stays.
LEMMA MakersChoose ==
    ASSUME RecentsInv, MakersInv, NEW id \in GrantId, NEW p \in Place, Choose(id, p)
    PROVE  MakersInv'
<1>1. /\ id \notin issued /\ issued' = issued \union {id} /\ RecordRoot(id, Right, "chosen", "session")
      /\ sources' = [sources EXCEPT ![id] = p]
      /\ UNCHANGED <<entries, held, makers, op, withdrawn, revokedRoots, missed>>
  BY DEF Choose, Acquire, Fresh, RecordRoot, history
<1>2. RootsPlaced' /\ MakersHold'
  BY <1>1, MakersRoot
<1>3. RootsWithdrawn' /\ \A t \in Thread : CallKeeps(t)'
  BY <1>1 DEF MakersInv, RootsWithdrawn, CallKeeps, Uses
<1> QED
  BY <1>2, <1>3 DEF MakersInv

\* The place of an entry becomes a root that the call is alone with.
LEMMA MakersReopenGrant ==
    ASSUME RecentsInv, MakersInv, NEW t \in Thread, NEW id \in GrantId, ReopenGrant(t, id)
    PROVE  MakersInv'
<1>1. /\ op \in [Thread -> Call] /\ op[t] \in Call /\ op[t].pc = "checked"
      /\ UNCHANGED <<entries, held, makers, missed>>
  BY DEF RecentsInv, ListInv, RecentsTypeOK, ReopenGrant, At, history
<1>2. CASE Returns(t) /\ UNCHANGED <<registryVars, issued, sources>>
  BY <1>1, <1>2, MakersReturn DEF Returns, registryVars, KeptSteady
<1>3. CASE /\ Fresh(id) /\ issued' = issued \union {id}
           /\ RecordRoot(id, Right, op[t].entry.origin, "remembered")
           /\ sources' = [sources EXCEPT ![id] = op[t].entry.place]
           /\ op' = [op EXCEPT ![t].pc = "granted", ![t].id = id]
  <2> DEFINE c == [op[t] EXCEPT !.pc = "granted", !.id = id]
  <2>1. /\ op' = [op EXCEPT ![t] = c] /\ id \notin issued
        /\ UNCHANGED <<withdrawn, revokedRoots>>
    BY <1>1, <1>3 DEF Fresh, RecordRoot
  <2>2. c.pc = "granted" /\ c.id = id /\ c.roots = op[t].roots
    BY <1>1 DEF Call
  <2> HIDE DEF c
  <2>3. op[t].entry.place \in Place
    <3>1. op[t].entry \in EntryRecord
      BY <1>1 DEF RecentsInv, ListInv, CallSound
    <3> QED
      BY <3>1 DEF EntryRecord
  <2>4. RootsPlaced' /\ MakersHold' /\ \A k : <<k, id>> \notin makers
    BY <1>1, <1>3, <2>1, <2>3, MakersRoot
  <2>5. \A u \in Thread : ~ Uses(u, id)
    BY <2>1 DEF Uses, RecentsInv, ListInv, CallSound
  <2>6. Begins(t, c)
    BY <2>1, <2>2, <2>5 DEF Begins, Uses, MakersInv, RootsWithdrawn
  <2>7. op'[t] = c /\ \A u \in Thread : u # t => op'[u] = op[u]
    BY <1>1, <2>1
  <2>8. CallKeeps(t)'
    <3>1. op'[t].pc = "granted" /\ op'[t].id = id
      BY <2>2, <2>7
    <3>2. \A u \in Thread : u # t => ~ Uses(u, op[t].id)'
      BY <2>5, <2>7, <3>1 DEF Uses
    <3>3. \A k : <<k, op'[t].id>> \notin makers'
      BY <1>1, <2>4, <3>1
    <3> QED
      BY <3>1, <3>2, <3>3 DEF CallKeeps, PastPc
  <2>9. /\ missed \subseteq missed' /\ revokedRoots \subseteq revokedRoots'
        /\ revokedRoots' \subseteq issued' /\ withdrawn' \subseteq revokedRoots'
        /\ c.roots \subseteq revokedRoots'
        /\ \A k, i : <<k, i>> \in makers' => <<k, i>> \in makers \/ Uses(t, i)
    BY <1>1, <1>3, <2>1, <2>2 DEF MakersInv, RootsWithdrawn
  <2> QED
    BY <2>1, <2>4, <2>6, <2>8, <2>9, MakersMove
<1> QED
  BY <1>2, <1>3 DEF ReopenGrant

\* A dropped handle is no longer recorded; what it kept stays in the list.
LEMMA MakersDrop ==
    ASSUME RecentsInv, MakersInv, NEW t \in Thread, NEW id \in GrantId, Drop(t, id)
    PROVE  MakersInv'
<1>1. /\ grants' = [grants EXCEPT ![id] = NoGrant]
      /\ UNCHANGED <<issued, entries, op, makers, withdrawn, revokedRoots, missed>>
      /\ sources' = [sources EXCEPT ![id] = Nowhere] /\ held' = [held EXCEPT ![id] = 0]
  BY DEF Drop, Release, history
<1>2. /\ grants \in [GrantId -> Grant \union {NoGrant}] /\ issued \subseteq GrantId
      /\ sources \in [GrantId -> Place \union {Nowhere}] /\ held \in [GrantId -> 0 .. MaxKey]
  BY DEF RecentsInv, RegistryInv, GrantsTypeOK, ListInv, RecentsTypeOK
<1>3. RootsPlaced'
  BY <1>1, <1>2 DEF MakersInv, RootsPlaced, Recorded
<1>4. MakersHold'
  <2>1. \A i \in GrantId : /\ i # id => sources'[i] = sources[i] /\ held'[i] = held[i]
                           /\ i = id => sources'[i] = Nowhere
    BY <1>1, <1>2
  <2> QED
    BY <1>1, <1>2, <2>1 DEF MakersInv, MakersHold, KeysOf, Elements
<1>5. RootsWithdrawn' /\ \A u \in Thread : CallKeeps(u)'
  BY <1>1 DEF MakersInv, RootsWithdrawn, CallKeeps, Uses
<1> QED
  BY <1>3, <1>4, <1>5 DEF MakersInv

\* revoke and revoke_kind withdraw roots that are recorded.
LEMMA MakersWithdraw ==
    ASSUME RecentsInv, MakersInv, NEW t \in Thread, Withdraw(t)
    PROVE  MakersInv'
<1> DEFINE c == [Idle EXCEPT !.pc = "revoked"]
<1>1. /\ op' = [op EXCEPT ![t] = c] /\ UNCHANGED <<issued, entries, sources, held, makers, missed>>
  BY DEF Withdraw, listVars, history
<1>2. c.pc = "revoked" /\ c.roots = {}
  BY DEF Idle
<1> HIDE DEF c
<1>3. /\ grants \in [GrantId -> Grant \union {NoGrant}] /\ withdrawn \subseteq revokedRoots
      /\ \A i \in GrantId : Recorded(i) => grants[i].root = i /\ sources[i] # Nowhere /\ i \in issued
  BY DEF RecentsInv, RegistryInv, NumbersIssued, GrantsTypeOK, MakersInv, RootsPlaced, RootsWithdrawn
<1>4. \E R : grants' = Flagged(R)
  <2>1. CASE \E id \in GrantId : Recorded(id) /\ Revoke(id)
    BY <2>1 DEF Revoke
  <2>2. CASE \E k \in Kind : RevokeKind(k)
    BY <2>2 DEF RevokeKind
  <2> QED
    BY <2>1, <2>2 DEF Withdraw
<1>5. /\ revokedRoots \subseteq revokedRoots' /\ revokedRoots' \subseteq issued'
      /\ withdrawn' \subseteq revokedRoots'
  <2>1. revokedRoots \subseteq issued
    BY DEF MakersInv, RootsWithdrawn
  <2>2. ASSUME NEW id \in GrantId, Recorded(id), Revoke(id)
        PROVE  /\ revokedRoots \subseteq revokedRoots' /\ revokedRoots' \subseteq issued'
               /\ withdrawn' \subseteq revokedRoots'
    <3>1. grants[id].root \in issued
      BY <1>3, <2>2
    <3>2. /\ revokedRoots' = revokedRoots \union {grants[id].root}
          /\ withdrawn' \subseteq withdrawn \union {grants[id].root}
      BY <2>2 DEF Revoke
    <3> QED
      BY <1>1, <1>3, <2>1, <3>1, <3>2
  <2>3. ASSUME NEW k \in Kind, RevokeKind(k)
        PROVE  /\ revokedRoots \subseteq revokedRoots' /\ revokedRoots' \subseteq issued'
               /\ withdrawn' \subseteq revokedRoots'
    <3> DEFINE roots == {grants[id].root : id \in {i \in GrantId :
                            Recorded(i) /\ KindOf(grants[i].root) = k}}
    <3>1. /\ revokedRoots' = revokedRoots \union roots
          /\ withdrawn' \subseteq withdrawn \union {id \in GrantId : Recorded(id) /\ KindOf(id) = k}
      BY <2>3 DEF RevokeKind
    <3>2. \A r \in roots : r \in issued
      BY <1>3
    <3>3. \A id \in GrantId : Recorded(id) /\ KindOf(id) = k => id \in roots
      BY <1>3
    <3> HIDE DEF roots
    <3> QED
      BY <1>1, <1>3, <2>1, <3>1, <3>2, <3>3
  <2> QED
    BY <2>2, <2>3 DEF Withdraw
<1>6. RootsPlaced'
  <2> PICK R : grants' = Flagged(R)
    BY <1>4
  <2> SUFFICES ASSUME NEW i \in GrantId, Recorded(i)' PROVE grants'[i].root = i /\ sources'[i] # Nowhere
    BY DEF RootsPlaced
  <2>1. Recorded(i)
    BY DEF Recorded, Flagged
  <2>2. grants[i] \in Grant
    BY <1>3, <2>1 DEF Recorded
  <2>3. grants'[i].root = grants[i].root
    BY <2>2 DEF Flagged, Grant
  <2> QED
    BY <1>1, <1>3, <2>1, <2>3
<1>7. MakersHold'
  BY <1>1 DEF MakersInv, MakersHold, KeysOf, Elements
<1>8. Begins(t, c) /\ CallKeeps(t)' /\ c.roots \subseteq revokedRoots'
  BY <1>1, <1>2, NothingKept DEF Begins, UsesPc, PastPc
<1>9. missed \subseteq missed' /\ \A k, i : <<k, i>> \in makers' => <<k, i>> \in makers \/ Uses(t, i)
  BY <1>1
<1> QED
  BY <1>1, <1>5, <1>6, <1>7, <1>8, <1>9, MakersMove

\* The call takes them over.
LEMMA MakersTake ==
    ASSUME RecentsInv, MakersInv, NEW t \in Thread, WithdrawTake(t)
    PROVE  MakersInv'
<1> DEFINE taken == [op[t] EXCEPT !.pc = "taken", !.roots = withdrawn]
           c == IF withdrawn = {} THEN Idle ELSE taken
<1>1. /\ op \in [Thread -> Call] /\ op[t] \in Call /\ withdrawn' = {}
      /\ UNCHANGED <<grants, issued, entries, sources, held, makers, revokedRoots, missed>>
  BY DEF WithdrawTake, listVars, history, RecentsInv, ListInv, RecentsTypeOK
<1>2. op' = [op EXCEPT ![t] = c]
  BY <1>1 DEF WithdrawTake
<1>3. c.pc \in {"idle", "taken"} /\ c.roots \subseteq withdrawn
  <2>1. Idle.pc = "idle" /\ Idle.roots = {}
    BY DEF Idle
  <2>2. taken.pc = "taken" /\ taken.roots = withdrawn
    BY <1>1 DEF Call
  <2> HIDE DEF taken
  <2> QED
    BY <2>1, <2>2
<1> HIDE DEF c
<1>4. Begins(t, c) /\ CallKeeps(t)'
  BY <1>2, <1>3, NothingKept DEF Begins, UsesPc, PastPc
<1>5. RootsPlaced' /\ MakersHold'
  BY <1>1 DEF MakersInv, RootsPlaced, MakersHold, Recorded, KeysOf, Elements
<1>6. /\ missed \subseteq missed' /\ revokedRoots \subseteq revokedRoots'
      /\ revokedRoots' \subseteq issued' /\ withdrawn' \subseteq revokedRoots'
      /\ c.roots \subseteq revokedRoots'
      /\ \A k, i : <<k, i>> \in makers' => <<k, i>> \in makers \/ Uses(t, i)
  BY <1>1, <1>3 DEF MakersInv, RootsWithdrawn
<1> QED
  BY <1>2, <1>4, <1>5, <1>6, MakersMove

\* forget: the entry is kept by nothing any more.
LEMMA MakersForget ==
    ASSUME RecentsInv, MakersInv, NEW t \in Thread, NEW o \in Call, NEW key, Forget(t, o, key),
           UNCHANGED <<grants, withdrawn, revokedRoots, issued, sources, missed>>,
           o.roots \subseteq revokedRoots,
           \A id \in o.roots \ missed :
              /\ \A u \in Thread : ~ Uses(u, id)
              /\ \A k : <<k, id>> \in makers => k \in o.keys \/ k = key
    PROVE  MakersInv'
<1> DEFINE gone == {e \in Elements(entries) : e.key = key}
           list == WithoutKey(key)
           c == [o EXCEPT !.pc = "create", !.list = list]
<1>1. entries \in Seq(EntryRecord) /\ Len(entries) \in Nat /\ DOMAIN entries = 1 .. Len(entries)
  BY LenProperties DEF RecentsInv, ListInv, RecentsTypeOK
<1>2. list = Without(entries, gone)
  BY DEF WithoutKey
<1>3. /\ entries' = list /\ op' = [op EXCEPT ![t] = c]
      /\ makers' = {m \in makers \union {} : m[1] \in KeysOf(list)}
      /\ held' = [id \in GrantId |-> IF held[id] = key THEN 0 ELSE held[id]]
  BY DEF Forget, Changed
<1>4. c.pc = "create" /\ c.roots = o.roots /\ c.keys = o.keys
  BY DEF Call
<1> HIDE DEF list, c
<1>5. key \notin KeysOf(list)
  <2>1. TakenSound(entries, gone, list, Len(entries))
    <3> HIDE DEF gone
    <3> QED
      BY <1>1, <1>2, WithoutSound
  <2>2. list \in Seq(EntryRecord)
    BY <2>1 DEF TakenSound
  <2>3. DOMAIN list = 1 .. Len(list)
    BY <2>2, LenProperties
  <2>4. \A i \in DOMAIN list : \E j \in DOMAIN entries : list[i] = entries[j] /\ entries[j] \notin gone
    <3> HIDE DEF gone
    <3> QED
      BY <1>1, <2>1, <2>3 DEF TakenSound
  <2>5. \A j \in DOMAIN entries : entries[j] \notin gone => entries[j].key # key
    BY DEF Elements
  <2>6. \A i \in DOMAIN list : list[i].key # key
    BY <2>4, <2>5
  <2> QED
    BY <2>6 DEF KeysOf, Elements
<1> HIDE DEF gone
<1>6. \A k, id : <<k, id>> \in makers' => <<k, id>> \in makers /\ k \in KeysOf(list) /\ k # key
  BY <1>3, <1>5
<1>7. \A id \in c.roots \ missed' :
         /\ \A u \in Thread : u # t => ~ Uses(u, id)
         /\ \A k : <<k, id>> \in makers' => k \in c.keys
  BY <1>4, <1>6
<1>8. CallKeeps(t)' /\ Begins(t, c)
  BY <1>3, <1>4, <1>7, PastKeeps DEF PastPc, Begins, UsesPc
<1>9. RootsPlaced'
  BY DEF MakersInv, RootsPlaced, Recorded
<1>10. MakersHold'
  <2> SUFFICES ASSUME NEW k, NEW id, <<k, id>> \in makers'
               PROVE  /\ k \in KeysOf(entries)' /\ id \in issued'
                      /\ sources'[id] # Nowhere => held'[id] = k
    BY DEF MakersHold
  <2>1. /\ k \in KeysOf(list) /\ k # key /\ id \in issued
        /\ sources[id] # Nowhere => held[id] = k
    BY <1>6 DEF MakersInv, MakersHold
  <2>2. id \in GrantId
    BY <2>1 DEF RecentsInv, RegistryInv, GrantsTypeOK
  <2>3. held'[id] = IF held[id] = key THEN 0 ELSE held[id]
    BY <1>3, <2>2
  <2>4. KeysOf(entries)' = KeysOf(list)
    BY <1>3 DEF KeysOf, Elements
  <2> QED
    BY <2>1, <2>3, <2>4
<1>11. /\ missed \subseteq missed' /\ revokedRoots \subseteq revokedRoots'
       /\ revokedRoots' \subseteq issued' /\ withdrawn' \subseteq revokedRoots'
       /\ c.roots \subseteq revokedRoots'
       /\ \A k, i : <<k, i>> \in makers' => <<k, i>> \in makers \/ Uses(t, i)
  BY <1>4, <1>6 DEF MakersInv, RootsWithdrawn
<1> QED
  BY <1>3, <1>8, <1>9, <1>10, <1>11, MakersMove

\* A person removes an entry.
LEMMA MakersForgetEntry ==
    ASSUME RecentsInv, MakersInv, NEW t \in Thread, NEW i \in DOMAIN entries, ForgetEntry(t, i)
    PROVE  MakersInv'
<1>1. /\ Forget(t, Idle, entries[i].key)
      /\ UNCHANGED <<grants, withdrawn, revokedRoots, issued, sources, missed>>
  BY DEF ForgetEntry, grantVars, registryVars
<1>2. Idle.roots = {}
  BY DEF Idle
<1> QED
  BY <1>1, <1>2, IdleSound, MakersForget

\* A withdrawal forgets one entry, or has forgotten them all.
LEMMA MakersWithdrawForget ==
    ASSUME RecentsInv, MakersInv, NEW t \in Thread, WithdrawForget(t)
    PROVE  MakersInv'
<1>1. /\ op \in [Thread -> Call] /\ op[t] \in Call /\ op[t].pc = "forget"
      /\ UNCHANGED <<grants, withdrawn, revokedRoots, issued, sources, missed>>
  BY DEF WithdrawForget, At, grantVars, registryVars, RecentsInv, ListInv, RecentsTypeOK
<1>2. /\ op[t].roots \subseteq revokedRoots
      /\ \A id \in op[t].roots \ missed :
            /\ \A u \in Thread : ~ Uses(u, id)
            /\ \A k : <<k, id>> \in makers => k \in op[t].keys
  BY <1>1 DEF MakersInv, RootsWithdrawn, CallKeeps, PastPc
<1>3. CASE op[t].keys = {} /\ Goto(t, "withdrawn") /\ UNCHANGED <<entries, held, makers>>
  <2> DEFINE c == [op[t] EXCEPT !.pc = "withdrawn"]
  <2>1. op' = [op EXCEPT ![t] = c]
    BY <1>1, <1>3 DEF Goto
  <2>2. c.pc = "withdrawn" /\ c.roots = op[t].roots /\ c.keys = op[t].keys
    BY <1>1 DEF Call
  <2> HIDE DEF c
  <2> QED
    BY <1>1, <1>3, <2>1, <2>2, MakersGoOn DEF PastPc, KeptSteady
<1>4. ASSUME NEW key \in op[t].keys, Forget(t, [op[t] EXCEPT !.keys = @ \ {key}], key)
      PROVE  MakersInv'
  <2> DEFINE o == [op[t] EXCEPT !.keys = @ \ {key}]
  <2>1. o \in Call /\ o.roots = op[t].roots /\ o.keys = op[t].keys \ {key}
    BY <1>1 DEF Call
  <2> HIDE DEF o
  <2>2. \A id \in o.roots \ missed :
           /\ \A u \in Thread : ~ Uses(u, id)
           /\ \A k : <<k, id>> \in makers => k \in o.keys \/ k = key
    BY <1>2, <2>1
  <2>3. Forget(t, o, key)
    BY <1>4 DEF o
  <2> QED
    BY <1>1, <1>2, <2>1, <2>2, <2>3, MakersForget
<1>5. ASSUME NEW key \in op[t].keys, key \notin KeysOf(entries),
             op' = [op EXCEPT ![t].keys = @ \ {key}], UNCHANGED <<entries, held, makers>>
      PROVE  MakersInv'
  <2> DEFINE c == [op[t] EXCEPT !.keys = @ \ {key}]
  <2>1. op' = [op EXCEPT ![t] = c]
    BY <1>1, <1>5
  <2>2. c.pc = "forget" /\ c.roots = op[t].roots /\ c.keys = op[t].keys \ {key}
    BY <1>1 DEF Call
  <2> HIDE DEF c
  <2>3. \A k \in op[t].keys : k \in c.keys \/ k \notin KeysOf(entries)
    BY <1>5, <2>2
  <2> QED
    BY <1>1, <1>5, <2>1, <2>2, <2>3, MakersGoOn DEF PastPc, KeptSteady
<1> QED
  BY <1>3, <1>4, <1>5 DEF WithdrawForget

\* The entry that a grant keeps is the only one of its place.
LEMMA SameKey ==
    ASSUME RecentsInv, MakersInv, NEW k, NEW id, <<k, id>> \in makers, sources[id] # Nowhere,
           NEW j \in DOMAIN entries, entries[j].place = sources[id]
    PROVE  k = entries[j].key
<1>1. k \in KeysOf(entries) /\ id \in GrantId /\ held[id] = k
  BY DEF MakersInv, MakersHold, RecentsInv, RegistryInv, GrantsTypeOK
<1>2. PICK i \in DOMAIN entries : entries[i].key = k
  BY <1>1 DEF KeysOf, Elements
<1>3. entries[i].place = sources[id]
  BY <1>1, <1>2 DEF RecentsInv, ListInv, HeldSound, KeyNames, Names
<1>4. i = j
  BY <1>3 DEF RecentsInv, ListInv, EntriesSound, Distinct
<1> QED
  BY <1>2, <1>4

\* remember: what the grant keeps now is what it holds.
LEMMA MakersInsert ==
    ASSUME RecentsInv, MakersInv, NEW t \in Thread, RememberInsert(t)
    PROVE  MakersInv'
<1> DEFINE e == op[t].entry
           id == op[t].id
           same == {x \in Elements(entries) : x.place = e.place}
           key == IF same = {} THEN nextKey ELSE (CHOOSE x \in same : TRUE).key
           list == Bounded(<<[e EXCEPT !.key = key]>> \o Without(entries, same))
           c == [Idle EXCEPT !.pc = "create", !.list = list]
<1>1. /\ entries' = list /\ op' = [op EXCEPT ![t] = c]
      /\ makers' = {m \in makers \union {<<key, id>>} : m[1] \in KeysOf(list)}
      /\ held' = [held EXCEPT ![id] = key]
      /\ UNCHANGED <<grants, withdrawn, revokedRoots, issued, sources, missed>>
      /\ op[t].pc = "found" /\ op \in [Thread -> Call] /\ op[t] \in Call
  BY DEF RememberInsert, Changed, At, grantVars, registryVars, RecentsInv, ListInv, RecentsTypeOK
<1>2. c.pc = "create" /\ c.roots = {}
  BY DEF Idle
<1>3. Uses(t, id) /\ id \in issued /\ sources[id] \in {Nowhere, e.place} /\ issued \subseteq GrantId
  BY <1>1 DEF RecentsInv, ListInv, CallSound, RegistryInv, GrantsTypeOK, Uses
<1>4. same # {} => \E j \in DOMAIN entries : entries[j].place = e.place /\ entries[j].key = key
  BY DEF Elements
<1>5. same = {} => \A j \in DOMAIN entries : entries[j].place # e.place
  BY DEF Elements
<1> HIDE DEF key, list, same, c
<1>6. ASSUME NEW k, <<k, id>> \in makers, sources[id] # Nowhere PROVE k = key
  <2>1. sources[id] = e.place /\ held[id] = k /\ k \in KeysOf(entries) /\ id \in GrantId
    BY <1>3, <1>6 DEF MakersInv, MakersHold
  <2>2. PICK i \in DOMAIN entries : entries[i].key = k
    BY <2>1 DEF KeysOf, Elements
  <2>3. entries[i].place = e.place
    BY <1>6, <2>1, <2>2 DEF RecentsInv, ListInv, HeldSound, KeyNames, Names
  <2>4. same # {}
    BY <1>5, <2>3
  <2>5. PICK j \in DOMAIN entries : entries[j].place = e.place /\ entries[j].key = key
    BY <1>4, <2>4
  <2> QED
    BY <1>6, <2>1, <2>5, SameKey
<1> HIDE DEF e, id
<1>7. CallKeeps(t)' /\ Begins(t, c)
  <2>1. \A i \in c.roots \ missed' :
           /\ \A u \in Thread : u # t => ~ Uses(u, i)
           /\ \A k : <<k, i>> \in makers' => k \in c.keys
    BY <1>2
  <2> QED
    BY <1>1, <1>2, <2>1, PastKeeps DEF PastPc, Begins, UsesPc
<1>8. RootsPlaced'
  BY <1>1 DEF MakersInv, RootsPlaced, Recorded
<1>9. MakersHold'
  <2> SUFFICES ASSUME NEW k, NEW i, <<k, i>> \in makers'
               PROVE  /\ k \in KeysOf(entries)' /\ i \in issued'
                      /\ sources'[i] # Nowhere => held'[i] = k
    BY DEF MakersHold
  <2>1. k \in KeysOf(list) /\ (<<k, i>> \in makers \/ (k = key /\ i = id))
    BY <1>1
  <2>2. KeysOf(entries)' = KeysOf(list)
    BY <1>1 DEF KeysOf, Elements
  <2>3. \A j \in GrantId : held'[j] = IF j = id THEN key ELSE held[j]
    BY <1>1 DEF RecentsInv, ListInv, RecentsTypeOK
  <2>4. i \in issued /\ i \in GrantId
    BY <1>3, <2>1 DEF MakersInv, MakersHold
  <2>5. CASE i = id
    BY <1>1, <1>6, <2>1, <2>2, <2>3, <2>4, <2>5
  <2>6. CASE i # id
    BY <1>1, <2>1, <2>2, <2>3, <2>4, <2>6 DEF MakersInv, MakersHold
  <2> QED
    BY <2>5, <2>6
<1>10. /\ missed \subseteq missed' /\ revokedRoots \subseteq revokedRoots'
       /\ revokedRoots' \subseteq issued' /\ withdrawn' \subseteq revokedRoots'
       /\ c.roots \subseteq revokedRoots'
  BY <1>1, <1>2 DEF MakersInv, RootsWithdrawn
<1>11. \A k, i : <<k, i>> \in makers' => <<k, i>> \in makers \/ Uses(t, i)
  BY <1>1, <1>3
<1> QED
  BY <1>1, <1>7, <1>8, <1>9, <1>10, <1>11, MakersMove

\* reopen: the new grant keeps the entry it came from, and nothing else.
LEMMA MakersReopened ==
    ASSUME RecentsInv, MakersInv, NEW t \in Thread, Reopened(t)
    PROVE  MakersInv'
<1> DEFINE e == op[t].entry
           id == op[t].id
           key == op[t].entry.key
<1>1. /\ op' = [op EXCEPT ![t] = Idle] /\ held' = [held EXCEPT ![id] = key]
      /\ makers' = IF key \in KeysOf(entries) THEN makers \union {<<key, id>>} ELSE makers
      /\ UNCHANGED <<grants, withdrawn, revokedRoots, issued, sources, entries, missed>>
      /\ op[t].pc = "granted" /\ op \in [Thread -> Call] /\ op[t] \in Call
  BY DEF Reopened, Returns, At, grantVars, registryVars, RecentsInv, ListInv, RecentsTypeOK
<1>2. Uses(t, id) /\ id \in issued /\ issued \subseteq GrantId
  BY <1>1 DEF RecentsInv, ListInv, CallSound, RegistryInv, GrantsTypeOK, Uses
<1>3. \A k : <<k, id>> \notin makers
  BY <1>1 DEF MakersInv, CallKeeps
<1> HIDE DEF key, id
<1>4. Idle.pc = "idle" /\ Idle.roots = {}
  BY DEF Idle
<1>5. CallKeeps(t)' /\ Begins(t, Idle)
  BY <1>1, <1>4, NothingKept DEF PastPc, Begins, UsesPc
<1>6. RootsPlaced'
  BY <1>1 DEF MakersInv, RootsPlaced, Recorded
<1>7. MakersHold'
  <2> SUFFICES ASSUME NEW k, NEW i, <<k, i>> \in makers'
               PROVE  /\ k \in KeysOf(entries)' /\ i \in issued'
                      /\ sources'[i] # Nowhere => held'[i] = k
    BY DEF MakersHold
  <2>1. <<k, i>> \in makers \/ (k = key /\ i = id /\ key \in KeysOf(entries))
    BY <1>1
  <2>2. KeysOf(entries)' = KeysOf(entries)
    BY <1>1 DEF KeysOf, Elements
  <2>3. \A j \in GrantId : held'[j] = IF j = id THEN key ELSE held[j]
    BY <1>1 DEF RecentsInv, ListInv, RecentsTypeOK
  <2>4. CASE k = key /\ i = id /\ key \in KeysOf(entries)
    BY <1>1, <1>2, <2>2, <2>3, <2>4
  <2>5. CASE <<k, i>> \in makers
    <3>1. i # id /\ i \in issued /\ k \in KeysOf(entries) /\ (sources[i] # Nowhere => held[i] = k)
      BY <1>3, <2>5 DEF MakersInv, MakersHold
    <3> QED
      BY <1>1, <1>2, <2>2, <2>3, <3>1
  <2> QED
    BY <2>1, <2>4, <2>5
<1>8. /\ missed \subseteq missed' /\ revokedRoots \subseteq revokedRoots'
      /\ revokedRoots' \subseteq issued' /\ withdrawn' \subseteq revokedRoots'
      /\ Idle.roots \subseteq revokedRoots'
  BY <1>1, <1>4 DEF MakersInv, RootsWithdrawn
<1>9. \A k, i : <<k, i>> \in makers' => <<k, i>> \in makers \/ Uses(t, i)
  BY <1>1, <1>2
<1> QED
  BY <1>1, <1>5, <1>6, <1>7, <1>8, <1>9, MakersMove

\* A new run: nothing was kept in it, and nothing withdrawn.
LEMMA MakersRestart ==
    ASSUME Restart
    PROVE  MakersInv'
<1>1. /\ makers' = {} /\ withdrawn' = {} /\ revokedRoots' = {} /\ grants' = [id \in GrantId |-> NoGrant]
      /\ \A t \in Thread : op'[t] = Idle
  BY DEF Restart
<1>2. Idle.pc = "idle" /\ Idle.roots = {}
  BY DEF Idle
<1> QED
  BY <1>1, <1>2 DEF MakersInv, RootsPlaced, MakersHold, RootsWithdrawn, CallKeeps, PastPc, Recorded

-----------------------------------------------------------------------------

KeepInv == RecentsInv /\ StoredInv /\ MakersInv

\* The steps of a thread leave what is stored sound.
LEMMA KeepStored ==
    ASSUME KeepInv, NEW t \in Thread, RecentsStep(t)
    PROVE  StoredInv'
<1>1. /\ RecentsInv /\ StoredInv /\ op \in [Thread -> Call] /\ op[t] \in Call
      /\ entries \in Seq(EntryRecord)
  BY DEF KeepInv, RecentsInv, ListInv, RecentsTypeOK
<1>2. CASE SaveCreate(t) \/ SaveWrite(t) \/ SaveRename(t) \/ SaveFail(t)
  BY <1>1, <1>2, StoredCreate, StoredWrite, StoredRename, StoredFail
<1>3. CASE RememberInsert(t)
  <2> DEFINE e == op[t].entry
             same == {x \in Elements(entries) : x.place = e.place}
             key == IF same = {} THEN nextKey ELSE (CHOOSE x \in same : TRUE).key
             list == Bounded(<<[e EXCEPT !.key = key]>> \o Without(entries, same))
  <2>1. Changed(t, Idle, list, {<<key, op[t].id>>}) /\ ~ Saving(t) /\ UNCHANGED saved
    BY <1>3 DEF RememberInsert, At, Saving
  <2>2. entries' = list
    BY <2>1 DEF Changed
  <2>3. entries' \in Seq(EntryRecord)
    BY <1>3, RememberInsertKeeps DEF KeepInv, ListInv, RecentsTypeOK
  <2> HIDE DEF list, key
  <2> QED
    BY <1>1, <2>1, <2>2, <2>3, IdleSound, StoredChanged
<1>4. ASSUME NEW o \in Call, NEW key, Forget(t, o, key), ~ Saving(t),
             UNCHANGED <<nextKey, sources, issued, saved>>
      PROVE  StoredInv'
  <2>1. Changed(t, o, WithoutKey(key), {}) /\ entries' = WithoutKey(key)
    BY <1>4 DEF Forget, Changed
  <2>2. entries' \in Seq(EntryRecord)
    BY <1>1, <1>4, ForgetKeeps DEF ListInv, RecentsTypeOK
  <2> QED
    BY <1>1, <1>4, <2>1, <2>2, StoredChanged
<1>5. ASSUME NEW i \in DOMAIN entries, ForgetEntry(t, i) PROVE StoredInv'
  <2>1. /\ Forget(t, Idle, entries[i].key) /\ ~ Saving(t)
        /\ UNCHANGED <<nextKey, sources, issued, saved>>
    BY <1>5 DEF ForgetEntry, Free, Saving, grantVars
  <2> QED
    BY <1>4, <2>1, IdleSound
<1>6. ASSUME NEW c, op' = [op EXCEPT ![t] = c], c.pc \notin {"create", "write", "rename"}, ~ Saving(t),
             UNCHANGED <<entries, saved, before, crossed, lapsed>>
      PROVE  StoredInv'
  BY <1>1, <1>6, StoredApart
<1>7. CASE WithdrawForget(t)
  <2>1. ~ Saving(t) /\ UNCHANGED <<nextKey, sources, issued, saved>> /\ op[t].pc = "forget"
    BY <1>7 DEF WithdrawForget, At, Saving, grantVars
  <2>2. ASSUME NEW key \in op[t].keys, Forget(t, [op[t] EXCEPT !.keys = @ \ {key}], key)
        PROVE  StoredInv'
    <3> DEFINE o == [op[t] EXCEPT !.keys = @ \ {key}]
    <3>1. o \in Call
      BY <1>1 DEF Call
    <3> HIDE DEF o
    <3>2. Forget(t, o, key)
      BY <2>2 DEF o
    <3> QED
      BY <1>4, <2>1, <3>1, <3>2
  <2>3. CASE Goto(t, "withdrawn") /\ UNCHANGED <<entries, before, crossed, lapsed>>
    <3> DEFINE c == [op[t] EXCEPT !.pc = "withdrawn"]
    <3>1. op' = [op EXCEPT ![t] = c] /\ c.pc = "withdrawn"
      BY <1>1, <2>3 DEF Goto, Call
    <3> HIDE DEF c
    <3> QED
      BY <1>6, <2>1, <2>3, <3>1
  <2>4. ASSUME NEW key \in op[t].keys, op' = [op EXCEPT ![t].keys = @ \ {key}],
               UNCHANGED <<entries, before, crossed, lapsed>>
        PROVE  StoredInv'
    <3> DEFINE c == [op[t] EXCEPT !.keys = @ \ {key}]
    <3>1. op' = [op EXCEPT ![t] = c] /\ c.pc = "forget"
      BY <1>1, <2>1, <2>4 DEF Call
    <3> HIDE DEF c
    <3> QED
      BY <1>6, <2>1, <2>4, <3>1
  <2> QED
    BY <1>7, <2>2, <2>3, <2>4 DEF WithdrawForget
<1>8. CASE Returns(t) /\ ~ Saving(t) /\ UNCHANGED <<entries, saved, before, crossed, lapsed>>
  <2>1. Idle.pc = "idle"
    BY DEF Idle
  <2> QED
    BY <1>6, <1>8, <2>1 DEF Returns
<1>9. CASE RememberFind(t)
  <2>1. ~ Saving(t) /\ UNCHANGED <<entries, saved, before, crossed, lapsed>>
    BY <1>9 DEF RememberFind, At, Saving, listVars, history
  <2>2. CASE ~ Returns(t)
    <3> DEFINE c == [op[t] EXCEPT !.pc = "found", !.entry.place = sources[op[t].id]]
    <3>1. op' = [op EXCEPT ![t] = c] /\ c.pc = "found"
      BY <1>1, <1>9, <2>2 DEF RememberFind, Call
    <3> HIDE DEF c
    <3> QED
      BY <1>6, <2>1, <3>1
  <2> QED
    BY <1>8, <2>1, <2>2
<1>10. CASE Reopened(t)
  BY <1>8, <1>10 DEF Reopened, At, Saving
<1>11. CASE Withdraw(t)
  <2> DEFINE c == [Idle EXCEPT !.pc = "revoked"]
  <2>1. op' = [op EXCEPT ![t] = c] /\ c.pc = "revoked"
    BY <1>11 DEF Withdraw, Idle
  <2>2. ~ Saving(t) /\ UNCHANGED <<entries, saved, before, crossed, lapsed>>
    BY <1>11 DEF Withdraw, Free, Saving, listVars, history
  <2> HIDE DEF c
  <2> QED
    BY <1>6, <2>1, <2>2
<1>12. CASE WithdrawTake(t)
  <2> DEFINE c == [op[t] EXCEPT !.pc = "taken", !.roots = withdrawn]
  <2>1. ~ Saving(t) /\ UNCHANGED <<entries, saved, before, crossed, lapsed>>
    BY <1>12 DEF WithdrawTake, At, Saving, listVars, history
  <2>2. Returns(t) \/ op' = [op EXCEPT ![t] = c]
    BY <1>12 DEF WithdrawTake, Returns
  <2>3. c.pc = "taken"
    BY <1>1 DEF Call
  <2> HIDE DEF c
  <2> QED
    BY <1>6, <1>8, <2>1, <2>2, <2>3
<1>13. CASE WithdrawFind(t)
  <2> DEFINE c == [op[t] EXCEPT !.pc = "forget", !.keys = {held[id] : id \in op[t].roots} \ {0}]
  <2>1. op' = [op EXCEPT ![t] = c] /\ c.pc = "forget"
    BY <1>1, <1>13 DEF WithdrawFind, Call
  <2>2. ~ Saving(t) /\ UNCHANGED <<entries, saved, before, crossed, lapsed>>
    BY <1>13 DEF WithdrawFind, At, Saving, listVars
  <2> HIDE DEF c
  <2> QED
    BY <1>6, <2>1, <2>2
<1>14. ASSUME NEW id \in GrantId, RememberMark(t, id) PROVE StoredInv'
  <2> DEFINE c == [Idle EXCEPT !.pc = "marked", !.id = id, !.entry = Entry(0, Nowhere, grants[id].origin)]
  <2>1. op' = [op EXCEPT ![t] = c] /\ c.pc = "marked"
    BY <1>14 DEF RememberMark, Idle
  <2>2. ~ Saving(t) /\ UNCHANGED <<entries, saved, before, crossed, lapsed>>
    BY <1>14 DEF RememberMark, Free, Saving, listVars, history
  <2> HIDE DEF c
  <2> QED
    BY <1>6, <2>1, <2>2
<1>15. ASSUME NEW id \in GrantId, ReopenGrant(t, id) PROVE StoredInv'
  <2> DEFINE c == [op[t] EXCEPT !.pc = "granted", !.id = id]
  <2>1. ~ Saving(t) /\ UNCHANGED <<entries, saved, before, crossed, lapsed>>
    BY <1>15 DEF ReopenGrant, At, Saving, history
  <2>2. Returns(t) \/ op' = [op EXCEPT ![t] = c]
    BY <1>1, <1>15 DEF ReopenGrant
  <2>3. c.pc = "granted"
    BY <1>1 DEF Call
  <2> HIDE DEF c
  <2> QED
    BY <1>6, <1>8, <2>1, <2>2, <2>3
<1>16. ASSUME NEW id \in GrantId, Drop(t, id) PROVE StoredInv'
  <2>1. UNCHANGED <<entries, saved, op, before, crossed, lapsed>>
    BY <1>16 DEF Drop, history
  <2> QED
    BY <1>1, <2>1 DEF StoredInv, StagingApart, FileSound, Saving, Loaded, saved
<1>17. ASSUME NEW i \in DOMAIN entries, Reopen(t, i) PROVE StoredInv'
  <2> DEFINE c == [Idle EXCEPT !.pc = "checked", !.entry = entries[i]]
  <2>1. op' = [op EXCEPT ![t] = c] /\ c.pc = "checked"
    BY <1>17 DEF Reopen, Idle
  <2>2. ~ Saving(t) /\ UNCHANGED <<entries, saved, before, crossed, lapsed>>
    BY <1>17 DEF Reopen, Free, Saving, listVars, history
  <2> HIDE DEF c
  <2> QED
    BY <1>6, <2>1, <2>2
<1> QED
  BY <1>2, <1>3, <1>5, <1>7, <1>9, <1>10, <1>11, <1>12, <1>13, <1>14, <1>15, <1>16, <1>17, ThreadSteps

\* They leave what is kept sound.
LEMMA KeepMakers ==
    ASSUME KeepInv, NEW t \in Thread, RecentsStep(t)
    PROVE  MakersInv'
<1>1. RecentsInv /\ MakersInv
  BY DEF KeepInv
<1>2. CASE SaveCreate(t) \/ SaveWrite(t) \/ SaveRename(t) \/ SaveFail(t)
  BY <1>1, <1>2, MakersSave
<1>3. CASE RememberFind(t) \/ RememberInsert(t) \/ Reopened(t)
  BY <1>1, <1>3, MakersFind, MakersInsert, MakersReopened
<1>4. CASE Withdraw(t) \/ WithdrawTake(t) \/ WithdrawFind(t) \/ WithdrawForget(t)
  BY <1>1, <1>4, MakersWithdraw, MakersTake, MakersTaken, MakersWithdrawForget
<1>5. ASSUME NEW id \in GrantId, RememberMark(t, id) \/ ReopenGrant(t, id) \/ Drop(t, id)
      PROVE  MakersInv'
  BY <1>1, <1>5, MakersMark, MakersReopenGrant, MakersDrop
<1>6. ASSUME NEW i \in DOMAIN entries, Reopen(t, i) \/ ForgetEntry(t, i)
      PROVE  MakersInv'
  BY <1>1, <1>6, MakersReopen, MakersForgetEntry
<1> QED
  BY <1>2, <1>3, <1>4, <1>5, <1>6, ThreadSteps

\* Nothing happens.
LEMMA KeepStutter ==
    ASSUME KeepInv, UNCHANGED recentsVars
    PROVE  StoredInv' /\ MakersInv'
<1>1. /\ UNCHANGED <<entries, inode, content, op, crossed, lapsed, before, makers, missed>>
      /\ UNCHANGED <<held, sources, withdrawn, revokedRoots, grants, issued>>
  BY DEF recentsVars, grantVars, registryVars, listVars, saved, history
<1>2. StoredInv'
  <2>1. Loaded' = Loaded
    BY <1>1 DEF Loaded
  <2> QED
    BY <1>1, <2>1 DEF KeepInv, StoredInv, StagingApart, FileSound, Saving
<1>3. MakersInv'
  BY <1>1 DEF KeepInv, MakersInv, RootsPlaced, MakersHold, RootsWithdrawn, CallKeeps, Uses, Recorded,
              KeysOf, Elements
<1> QED
  BY <1>2, <1>3

LEMMA KeepInitial == RecentsInit => StoredInv /\ MakersInv
<1> SUFFICES ASSUME RecentsInit PROVE StoredInv /\ MakersInv
  OBVIOUS
<1>1. /\ inode = [stored |-> 0, staging |-> 0] /\ entries = <<>> /\ op = [t \in Thread |-> Idle]
      /\ makers = {} /\ withdrawn = {} /\ revokedRoots = {} /\ grants = [id \in GrantId |-> NoGrant]
      /\ ~ crossed
  BY DEF RecentsInit, GrantsInit
<1>2. Idle.pc = "idle" /\ Idle.roots = {}
  BY DEF Idle
<1>3. Loaded = entries
  BY <1>1 DEF Loaded
<1>4. StoredInv
  BY <1>1, <1>2, <1>3 DEF StoredInv, StagingApart, FileSound, Saving
<1> QED
  BY <1>1, <1>2, <1>4 DEF MakersInv, RootsPlaced, MakersHold, RootsWithdrawn, CallKeeps, PastPc, Recorded

\* What is stored is the list or, during a save that overlaps none, the one before;
\* and what a withdrawal has still to forget is all that its roots keep, but for those
\* that were in use or dropped when it looked; whatever the threads do meanwhile.
THEOREM KeepInductive == RecentsSpec => []KeepInv
<1>1. RecentsInit => StoredInv /\ MakersInv
  BY KeepInitial
<1>2. RecentsInv /\ RecentsInv' /\ StoredInv /\ MakersInv /\ [RecentsNext]_recentsVars
        => StoredInv' /\ MakersInv'
  <2> SUFFICES ASSUME KeepInv, [RecentsNext]_recentsVars PROVE StoredInv' /\ MakersInv'
    BY DEF KeepInv
  <2>1. RecentsInv /\ StoredInv /\ MakersInv
    BY DEF KeepInv
  <2>2. ASSUME NEW id \in GrantId, NEW p \in Place, Choose(id, p) PROVE StoredInv' /\ MakersInv'
    <3>1. UNCHANGED <<entries, saved, op, crossed, lapsed, before>>
      BY <2>2 DEF Choose, history
    <3>2. Loaded' = Loaded
      BY <3>1 DEF Loaded, saved
    <3>3. StoredInv'
      BY <2>1, <3>1, <3>2 DEF StoredInv, StagingApart, FileSound, Saving, saved
    <3> QED
      BY <2>1, <2>2, <3>3, MakersChoose
  <2>3. CASE Restart
    BY <2>1, <2>3, StoredRestart, MakersRestart
  <2>4. ASSUME NEW t \in Thread, RecentsStep(t) PROVE StoredInv' /\ MakersInv'
    BY <2>4, KeepStored, KeepMakers
  <2>5. CASE UNCHANGED recentsVars
    BY <2>5, KeepStutter
  <2> QED
    BY <2>2, <2>3, <2>4, <2>5 DEF RecentsNext
<1> QED
  BY <1>1, <1>2, RecentsInductive, PTL DEF RecentsSpec, KeepInv

\* save: every change is written back, so that between saves the stored list is the
\* list, as soon as one save that overlapped none has succeeded.
THEOREM StoredCurrentHolds == RecentsSpec => []StoredCurrent
<1>1. KeepInv => StoredCurrent
  BY DEF KeepInv, StoredInv, StoredCurrent
<1> QED
  BY <1>1, KeepInductive, PTL

\* forget_withdrawn: when a withdrawal returns, and ever after, no entry is left that was
\* kept by what it took, but for a root that was dropped, or in use by another call, when
\* it looked.
THEOREM WithdrawnForgottenHolds == RecentsSpec => []WithdrawnForgotten
<1>1. KeepInv => WithdrawnForgotten
  <2> SUFFICES ASSUME KeepInv PROVE WithdrawnForgotten
    OBVIOUS
  <2>1. ASSUME NEW t \in Thread, At(t, "withdrawn"), NEW id \in op[t].roots \ missed, NEW k
        PROVE  <<k, id>> \notin makers
    <3>1. CallKeeps(t)
      BY DEF KeepInv, MakersInv
    <3>2. op[t].pc \in PastPc /\ op[t].pc = "withdrawn"
      BY <2>1 DEF At, PastPc
    <3> QED
      BY <2>1, <3>1, <3>2 DEF CallKeeps
  <2> QED
    BY <2>1, Zenon DEF WithdrawnForgotten
<1> QED
  BY <1>1, KeepInductive, PTL

\* load after a kill at any point of a save that overlaps none: the list is the one
\* before the last change or the one after it.
THEOREM CrashKeepsListHolds == RecentsSpec => CrashKeepsList
<1>1. KeepInv /\ [RecentsNext]_recentsVars
        => [run' # run /\ ~ lapsed => entries' \in {entries, before}]_recentsVars
  <2> SUFFICES ASSUME KeepInv, RecentsNext, run' # run, ~ lapsed
               PROVE  entries' \in {entries, before}
    OBVIOUS
  <2>1. Restart
    <3>1. \A id \in GrantId, p \in Place : ~ Choose(id, p)
      BY DEF Choose
    <3>2. ASSUME NEW t \in Thread, RecentsStep(t) PROVE FALSE
      <4>1. run' = run
        <5>1. CASE SaveCreate(t) \/ SaveWrite(t) \/ SaveRename(t) \/ SaveFail(t)
          BY <5>1 DEF SaveCreate, SaveWrite, SaveRename, SaveFail
        <5>2. CASE RememberFind(t) \/ Reopened(t)
          BY <5>2 DEF RememberFind, Reopened
        <5>3. CASE RememberInsert(t)
          BY <5>3 DEF RememberInsert
        <5>4. CASE Withdraw(t) \/ WithdrawTake(t) \/ WithdrawFind(t) \/ WithdrawForget(t)
          BY <5>4 DEF Withdraw, WithdrawTake, WithdrawFind, WithdrawForget
        <5>5. ASSUME NEW id \in GrantId, RememberMark(t, id) \/ ReopenGrant(t, id) \/ Drop(t, id)
              PROVE  run' = run
          BY <5>5 DEF RememberMark, ReopenGrant, Drop
        <5>6. ASSUME NEW i \in DOMAIN entries, Reopen(t, i) \/ ForgetEntry(t, i)
              PROVE  run' = run
          BY <5>6 DEF Reopen, ForgetEntry
        <5> QED
          BY <3>2, <5>1, <5>2, <5>3, <5>4, <5>5, <5>6, ThreadSteps
      <4> QED
        BY <4>1
    <3> QED
      BY <3>1, <3>2 DEF RecentsNext
  <2>2. entries' = Loaded
    BY <2>1, StoredRestart DEF KeepInv
  <2> QED
    BY <2>2 DEF KeepInv, StoredInv
<1> QED
  BY <1>1, KeepInductive, PTL DEF RecentsSpec, CrashKeepsList
=============================================================================

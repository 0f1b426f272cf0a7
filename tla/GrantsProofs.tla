---------------------------- MODULE GrantsProofs ----------------------------
(***************************************************************************)
(* What holds of the grant registry for every set of handles, families and *)
(* callers.  The withdrawals of roots and the flags of grants agree        *)
(* because handle numbers are never given out twice: a fresh handle is no  *)
(* root that was ever withdrawn, and no copy still in flight descends from *)
(* it.  That, and what the copies know of their roots, is added to the     *)
(* properties to make them inductive.                                      *)
(*                                                                         *)
(* Then, what holds of the terminals for every set of threads and handles  *)
(* and every size of the buffers.  A terminal has one reader: the flag is  *)
(* set by the thread that finds it unset, and only that thread clears it.  *)
(* So what was delivered, what that thread has collected and what the      *)
(* terminal still holds are, one after the other and in order, what the    *)
(* shell wrote and no read has given up.                                   *)
(***************************************************************************)
EXTENDS Process, SequenceTheorems, TLAPS

-----------------------------------------------------------------------------
(* The registry.                                                           *)

\* Handles, roots, withdrawals and copies are of numbers given out before.
NumbersIssued ==
    /\ revokedRoots \subseteq issued
    /\ \A id \in GrantId : Recorded(id) => id \in issued /\ grants[id].root \in issued
    /\ \A c \in Client : copy[c] # NoGrant => copy[c].root \in issued

\* A copy arrived as its root did, also when the root has been dropped since.
CopiesAgree ==
    \A c \in Client :
        copy[c] # NoGrant /\ Recorded(copy[c].root)
            => /\ copy[c].origin = grants[copy[c].root].origin
               /\ IsRoot(grants[copy[c].root])

RegistryInv ==
    GrantsTypeOK /\ NumbersIssued /\ RevocationReaches /\ OriginKept /\ CopiesAgree

\* The disjuncts of the next-state relation, by name.
LEMMA Steps ==
    ASSUME GrantsNext
    PROVE  \/ \E id \in GrantId, o \in Origin : Acquire(id, o)
           \/ \E id \in GrantId, c \in Client, needs \in {{"read"}, {"derive"}} :
                 Accept(c, id, needs)
           \/ \E id \in GrantId, c \in Client, rights \in {{"read"}, Right} :
                 Derive(c, id, rights)
           \/ \E id \in GrantId : Revoke(id) /\ UNCHANGED <<issued, copy>>
           \/ \E id \in GrantId : Release(id) /\ UNCHANGED <<issued, copy>>
           \/ \E id \in GrantId : Remember(id) /\ UNCHANGED <<issued, copy>>
           \/ \E k \in Kind : RevokeKind(k) /\ UNCHANGED <<issued, copy>>
           \/ \E k \in Kind : ForgetKind(k) /\ UNCHANGED <<issued, copy>>
BY DEF GrantsNext

\* Nothing is granted at the start.
LEMMA InitialRegistry == GrantsInit => RegistryInv
BY GrantAssumption
   DEF GrantsInit, RegistryInv, GrantsTypeOK, NumbersIssued, RevocationReaches,
       OriginKept, CopiesAgree, Recorded

\* Authority from outside, on a handle number never given out before.
LEMMA RootKeeps ==
    ASSUME RegistryInv, NEW id \in GrantId, NEW o \in Origin, NEW l \in Lifetime,
           id \notin issued, issued' = issued \union {id},
           RecordRoot(id, Right, o, l), copy' = copy
    PROVE  RegistryInv'
<1> DEFINE new == [id |-> id, rights |-> Right, origin |-> o, lifetime |-> l,
                   parent |-> NoGrant, root |-> id, revoked |-> FALSE]
<1> USE DEF RegistryInv
<1>1. /\ grants' = [grants EXCEPT ![id] = new]
      /\ UNCHANGED <<revokedRoots, withdrawn, copy>>
  BY DEF RecordRoot
<1>2. new \in Grant
  BY DEF Grant, Right
<1>3. new # NoGrant
  BY <1>2, NoGrantAssumption
<1> HIDE DEF new
<1>4. GrantsTypeOK'
  BY <1>1, <1>2 DEF GrantsTypeOK
<1>5. \A i \in GrantId : grants'[i] = IF i = id THEN new ELSE grants[i]
  BY <1>1 DEF GrantsTypeOK
<1>6. new.id = id /\ new.root = id /\ new.revoked = FALSE /\ new.parent = NoGrant
  BY DEF new
<1>7. QED
  BY <1>1, <1>3, <1>4, <1>5, <1>6
     DEF GrantsTypeOK, NumbersIssued, RevocationReaches, OriginKept, CopiesAgree,
         Recorded, IsRoot

\* A person grants something for as long as the program runs.
LEMMA AcquireKeeps ==
    ASSUME RegistryInv, NEW id \in GrantId, NEW o \in Origin, Acquire(id, o)
    PROVE  RegistryInv'
BY RootKeeps DEF Acquire, Fresh, Lifetime

\* A call is let in: its copy knows of the root what the registry knows.
LEMMA AcceptKeeps ==
    ASSUME RegistryInv, NEW c \in Client, NEW id \in GrantId, NEW needs, Accept(c, id, needs)
    PROVE  RegistryInv'
<1> USE DEF RegistryInv
<1>1. /\ Recorded(id) /\ copy' = [copy EXCEPT ![c] = grants[id]]
      /\ UNCHANGED <<grants, revokedRoots, withdrawn, issued>>
  BY DEF Accept, Accepted, registryVars
<1>2. grants[id] \in Grant
  BY <1>1 DEF GrantsTypeOK, Recorded
<1>3. grants[id].root \in GrantId
  BY <1>2 DEF Grant
<1>4. \A d \in Client : copy'[d] = IF d = c THEN grants[id] ELSE copy[d]
  BY <1>1 DEF GrantsTypeOK
<1>5. QED
  BY <1>1, <1>2, <1>3, <1>4
     DEF GrantsTypeOK, NumbersIssued, RevocationReaches, OriginKept, CopiesAgree, Recorded,
         IsRoot

\* Nothing recorded, and no copy in flight, descends from the handle.
Unrooted(id) ==
    /\ \A i \in GrantId : Recorded(i) => grants[i].root # id
    /\ \A c \in Client : copy[c] # NoGrant => copy[c].root # id

\* record_descendant with a copy, under a number given out by then, that is the
\* root of nothing: what is derived descends from a root that is not withdrawn.
LEMMA DescendantKeeps ==
    ASSUME RegistryInv, NEW c \in Client, NEW id \in GrantId, NEW rights \in SUBSET Right,
           copy[c] # NoGrant, RecordDescendant(id, rights, copy[c]), Unrooted(id),
           copy' = [copy EXCEPT ![c] = NoGrant], issued' = issued \union {id}
    PROVE  RegistryInv'
<1> DEFINE new == [copy[c] EXCEPT !.id = id, !.rights = rights,
                                  !.parent = copy[c].id, !.revoked = FALSE]
<1> USE DEF RegistryInv
<1>1. UNCHANGED <<revokedRoots, withdrawn>>
  BY DEF RecordDescendant
<1>2. copy[c] \in Grant
  BY DEF GrantsTypeOK
<1>3. /\ new \in Grant /\ new.id = id /\ new.root = copy[c].root
      /\ new.revoked = FALSE /\ new.origin = copy[c].origin
  BY <1>2 DEF Grant
<1>4. new # NoGrant
  BY <1>3, NoGrantAssumption
<1>5. \A d \in Client : copy'[d] = IF d = c THEN NoGrant ELSE copy[d]
  BY DEF GrantsTypeOK
<1>6. \/ grants' = grants
      \/ copy[c].root \notin revokedRoots /\ grants' = [grants EXCEPT ![id] = new]
  BY DEF RecordDescendant, MayDerive
<1> HIDE DEF new
<1>7. CASE grants' = grants
  BY <1>1, <1>5, <1>7
     DEF GrantsTypeOK, NumbersIssued, RevocationReaches, OriginKept, CopiesAgree, Recorded,
         IsRoot
<1>8. CASE copy[c].root \notin revokedRoots /\ grants' = [grants EXCEPT ![id] = new]
  <2>1. \A i \in GrantId : grants'[i] = IF i = id THEN new ELSE grants[i]
    BY <1>8 DEF GrantsTypeOK
  <2>2. GrantsTypeOK'
    BY <1>1, <1>3, <1>8 DEF GrantsTypeOK
  <2>3. NumbersIssued'
    BY <1>1, <1>3, <1>5, <2>1 DEF NumbersIssued, Recorded
  <2>4. RevocationReaches'
    BY <1>1, <1>3, <1>8, <2>1 DEF RevocationReaches, Recorded
  <2>5. copy[c].root # id
    BY DEF Unrooted
  <2>6. /\ \A i \in GrantId : Recorded(i) => grants[i].root \in GrantId
        /\ \A d \in Client : copy[d] # NoGrant => copy[d].root \in GrantId
    BY DEF GrantsTypeOK, Grant, Recorded
  <2>7. OriginKept'
    BY <1>1, <1>3, <2>1, <2>5, <2>6
       DEF OriginKept, CopiesAgree, Unrooted, Recorded, IsRoot
  <2>8. CopiesAgree'
    BY <1>1, <1>5, <2>1, <2>6 DEF CopiesAgree, Unrooted, Recorded, IsRoot
  <2>9. QED
    BY <2>2, <2>3, <2>4, <2>7, <2>8
<1>9. QED
  BY <1>6, <1>7, <1>8

\* A fresh number is the root of nothing.
LEMMA FreshUnrooted ==
    ASSUME RegistryInv, NEW id \in GrantId, id \notin issued
    PROVE  Unrooted(id)
BY DEF RegistryInv, NumbersIssued, Unrooted

\* What is derived and recorded at once gets a number never given out before.
LEMMA DeriveKeeps ==
    ASSUME RegistryInv, NEW c \in Client, NEW id \in GrantId,
           NEW rights \in SUBSET Right, Derive(c, id, rights)
    PROVE  RegistryInv'
BY DescendantKeeps, FreshUnrooted DEF Derive, Fresh

\* Numbers are given out and calls give up their copies, and the registry stays.
LEMMA RegistryFrame ==
    ASSUME RegistryInv, UNCHANGED registryVars, issued \subseteq issued', issued' \subseteq GrantId,
           copy' \in [Client -> Grant \union {NoGrant}],
           \A c \in Client : copy'[c] \in {copy[c], NoGrant}
    PROVE  RegistryInv'
<1> USE DEF RegistryInv, registryVars
<1>1. GrantsTypeOK'
  BY DEF GrantsTypeOK
<1>2. NumbersIssued' /\ RevocationReaches' /\ OriginKept' /\ CopiesAgree'
  BY DEF NumbersIssued, RevocationReaches, OriginKept, CopiesAgree, Recorded, IsRoot
<1>3. QED
  BY <1>1, <1>2

\* The flags of the roots R, and the withdrawals of R, change together.
LEMMA WithdrawalKeeps ==
    ASSUME RegistryInv, NEW R \in SUBSET issued,
           grants' = Flagged(R), revokedRoots' = revokedRoots \union R,
           withdrawn' \subseteq GrantId, UNCHANGED <<issued, copy>>
    PROVE  RegistryInv'
<1> USE DEF RegistryInv
<1>1. \A i \in GrantId :
         grants'[i] = IF Recorded(i) /\ grants[i].root \in R
                        THEN [grants[i] EXCEPT !.revoked = TRUE] ELSE grants[i]
  BY DEF Flagged
<1>2. \A i \in GrantId :
         Recorded(i) => /\ grants[i] \in Grant
                        /\ [grants[i] EXCEPT !.revoked = TRUE] \in Grant
  BY DEF GrantsTypeOK, Recorded, Grant
<1>3. \A i \in GrantId : /\ Recorded(i)' <=> Recorded(i)
                         /\ grants'[i] \in Grant \union {NoGrant}
  BY <1>1, <1>2, NoGrantAssumption DEF GrantsTypeOK, Recorded
<1>4. GrantsTypeOK'
  BY <1>3 DEF GrantsTypeOK, Flagged
<1>5. \A i \in GrantId :
         Recorded(i) => /\ grants'[i].id = grants[i].id
                        /\ grants'[i].root = grants[i].root
                        /\ grants'[i].origin = grants[i].origin
                        /\ grants'[i].parent = grants[i].parent
                        /\ grants'[i].revoked <=> grants[i].revoked \/ grants[i].root \in R
  BY <1>1, <1>2 DEF Grant
<1>6. \A i \in GrantId : Recorded(i) => grants[i].root \in GrantId
  BY <1>2 DEF Grant
<1>7. \A c \in Client : copy[c] # NoGrant => copy[c].root \in GrantId
  BY DEF GrantsTypeOK, Grant
<1>8. NumbersIssued' /\ RevocationReaches'
  BY <1>3, <1>5 DEF NumbersIssued, RevocationReaches
<1>9. OriginKept'
  BY <1>3, <1>5, <1>6 DEF OriginKept, IsRoot
<1>10. CopiesAgree'
  BY <1>3, <1>5, <1>7 DEF CopiesAgree, IsRoot
<1>11. QED
  BY <1>4, <1>8, <1>9, <1>10

\* revoke: the grant, its root and all that descends from that.
LEMMA RevokeKeeps ==
    ASSUME RegistryInv, NEW id \in GrantId, Revoke(id), UNCHANGED <<issued, copy>>
    PROVE  RegistryInv'
<1>1. CASE Recorded(id)
  <2>1. grants[id].root \in issued /\ grants[id].root \in GrantId
    BY <1>1 DEF RegistryInv, NumbersIssued, GrantsTypeOK, Recorded, Grant
  <2>2. withdrawn' \subseteq GrantId
    BY <1>1, <2>1 DEF Revoke, RegistryInv, GrantsTypeOK
  <2>3. QED
    BY <1>1, <2>1, <2>2, WithdrawalKeeps DEF Revoke
<1>2. CASE ~ Recorded(id)
  BY <1>2 DEF Revoke, registryVars, RegistryInv, GrantsTypeOK, NumbersIssued,
              RevocationReaches, OriginKept, CopiesAgree, Recorded, IsRoot
<1>3. QED
  BY <1>1, <1>2

\* revoke_kind: the roots of one family, which were all issued.
LEMMA RevokeKindKeeps ==
    ASSUME RegistryInv, NEW k \in Kind, RevokeKind(k), UNCHANGED <<issued, copy>>
    PROVE  RegistryInv'
<1> DEFINE roots == {grants[id].root : id \in {i \in GrantId :
                        Recorded(i) /\ KindOf(grants[i].root) = k}}
<1>1. roots \subseteq issued
  BY DEF RegistryInv, NumbersIssued
<1>2. withdrawn' \subseteq GrantId
  BY DEF RevokeKind, RegistryInv, GrantsTypeOK
<1>3. grants' = Flagged(roots) /\ revokedRoots' = revokedRoots \union roots
  BY DEF RevokeKind
<1> HIDE DEF roots
<1>4. QED
  BY <1>1, <1>2, <1>3, WithdrawalKeeps

\* Grants that go take nothing with them: what stays is as it was.
LEMMA RemovalKeeps ==
    ASSUME RegistryInv, NEW G \in SUBSET GrantId,
           grants' = [i \in GrantId |-> IF i \in G THEN NoGrant ELSE grants[i]],
           revokedRoots' \subseteq revokedRoots,
           \A i \in GrantId \ G : Recorded(i) =>
               (grants[i].root \in revokedRoots <=> grants[i].root \in revokedRoots'),
           UNCHANGED <<withdrawn, issued, copy>>
    PROVE  RegistryInv'
<1> USE DEF RegistryInv
<1>1. \A i \in GrantId : /\ Recorded(i)' <=> Recorded(i) /\ i \notin G
                         /\ i \notin G => grants'[i] = grants[i]
  BY DEF Recorded
<1>2. GrantsTypeOK'
  BY DEF GrantsTypeOK
<1>3. NumbersIssued'
  BY <1>1 DEF NumbersIssued
<1>4. RevocationReaches'
  BY <1>1 DEF RevocationReaches
<1>5. /\ \A i \in GrantId : Recorded(i) => grants[i].root \in GrantId
      /\ \A c \in Client : copy[c] # NoGrant => copy[c].root \in GrantId
  BY DEF GrantsTypeOK, Grant, Recorded
<1>6. OriginKept'
  BY <1>1, <1>5 DEF OriginKept, IsRoot
<1>7. CopiesAgree'
  BY <1>1, <1>5 DEF CopiesAgree, IsRoot
<1>8. QED
  BY <1>2, <1>3, <1>4, <1>6, <1>7

\* release: one handle goes, and the withdrawals stay.
LEMMA ReleaseKeeps ==
    ASSUME RegistryInv, NEW id \in GrantId, Release(id), UNCHANGED <<issued, copy>>
    PROVE  RegistryInv'
<1>1. grants' = [i \in GrantId |-> IF i \in {id} THEN NoGrant ELSE grants[i]]
  BY DEF Release, RegistryInv, GrantsTypeOK
<1>2. QED
  BY <1>1, RemovalKeeps DEF Release

\* forget_kind: the withdrawals that go are of roots nothing recorded descends from.
LEMMA ForgetKindKeeps ==
    ASSUME RegistryInv, NEW k \in Kind, ForgetKind(k), UNCHANGED <<issued, copy>>
    PROVE  RegistryInv'
<1> DEFINE G == {i \in GrantId : Recorded(i) /\ (KindOf(i) = k \/ KindOf(grants[i].root) = k)}
<1>1. grants' = [i \in GrantId |-> IF i \in G THEN NoGrant ELSE grants[i]]
  BY DEF ForgetKind
<1>2. revokedRoots' = {i \in revokedRoots : KindOf(i) # k} /\ withdrawn' = withdrawn
  BY DEF ForgetKind
<1>3. \A i \in GrantId \ G : Recorded(i) =>
         (grants[i].root \in revokedRoots <=> grants[i].root \in revokedRoots')
  BY <1>2
<1> HIDE DEF G
<1>4. G \subseteq GrantId
  BY DEF G
<1>5. QED
  BY <1>1, <1>2, <1>3, <1>4, RemovalKeeps

\* A lifetime changes neither where a grant came from nor whether it is revoked.
LEMMA RememberKeeps ==
    ASSUME RegistryInv, NEW id \in GrantId, Remember(id), UNCHANGED <<issued, copy>>
    PROVE  RegistryInv'
<1> USE DEF RegistryInv
<1>1. \A i \in GrantId : Recorded(i) =>
         /\ grants[i] \in Grant
         /\ [grants[i] EXCEPT !.lifetime = "remembered"] \in Grant
  BY DEF GrantsTypeOK, Recorded, Grant, Lifetime
<1>2. /\ UNCHANGED <<revokedRoots, withdrawn>>
      /\ \A i \in GrantId :
            grants'[i] \in {grants[i]} \union
              (IF Recorded(i) THEN {[grants[i] EXCEPT !.lifetime = "remembered"]} ELSE {})
  BY DEF Remember
<1>3. GrantsTypeOK'
  <2>1. \A i \in GrantId : grants'[i] \in Grant \union {NoGrant}
    BY <1>1, <1>2 DEF GrantsTypeOK
  <2>2. grants' = [i \in GrantId |-> grants'[i]]
    BY DEF Remember, GrantsTypeOK
  <2>3. QED
    BY <1>2, <2>1, <2>2 DEF GrantsTypeOK
<1>4. \A i \in GrantId : Recorded(i)' <=> Recorded(i)
  BY <1>1, <1>2, NoGrantAssumption DEF Recorded
<1>5. \A i \in GrantId : Recorded(i) =>
         /\ grants'[i].id = grants[i].id /\ grants'[i].root = grants[i].root
         /\ grants'[i].origin = grants[i].origin /\ grants'[i].parent = grants[i].parent
         /\ grants'[i].revoked = grants[i].revoked
  BY <1>1, <1>2 DEF Grant
<1>6. /\ \A i \in GrantId : Recorded(i) => grants[i].root \in GrantId
      /\ \A c \in Client : copy[c] # NoGrant => copy[c].root \in GrantId
  BY DEF GrantsTypeOK, Grant, Recorded
<1>7. NumbersIssued' /\ RevocationReaches'
  BY <1>2, <1>4, <1>5 DEF NumbersIssued, RevocationReaches
<1>8. OriginKept'
  BY <1>4, <1>5, <1>6 DEF OriginKept, IsRoot
<1>9. CopiesAgree'
  BY <1>4, <1>5, <1>6 DEF CopiesAgree, IsRoot
<1>10. QED
  BY <1>3, <1>7, <1>8, <1>9

-----------------------------------------------------------------------------

\* No operation of the registry, in whatever order calls make them, disturbs the
\* invariant.
THEOREM Inductive == GrantsSpec => []RegistryInv
<1>1. GrantsInit => RegistryInv
  BY InitialRegistry
<1>2. RegistryInv /\ [GrantsNext]_grantVars => RegistryInv'
  <2> SUFFICES ASSUME RegistryInv, [GrantsNext]_grantVars PROVE RegistryInv'
    OBVIOUS
  <2>1. CASE GrantsNext
    <3>1. {"read"} \in SUBSET Right /\ Right \in SUBSET Right
      BY DEF Right
    <3>2. QED
      BY <2>1, <3>1, Steps, AcquireKeeps, AcceptKeeps, DeriveKeeps, RevokeKeeps,
         RevokeKindKeeps, ReleaseKeeps, RememberKeeps, ForgetKindKeeps
  <2>2. CASE UNCHANGED grantVars
    BY <2>2 DEF grantVars, registryVars, RegistryInv, GrantsTypeOK, NumbersIssued,
                RevocationReaches, OriginKept, CopiesAgree, Recorded, IsRoot
  <2>3. QED
    BY <2>1, <2>2
<1>3. QED
  BY <1>1, <1>2, PTL DEF GrantsSpec

\* Every record of the registry, and every copy a call works on, is a grant.
THEOREM TypeCorrect == GrantsSpec => []GrantsTypeOK
<1>1. RegistryInv => GrantsTypeOK
  BY DEF RegistryInv
<1>2. QED
  BY <1>1, Inductive, PTL

\* record_descendant and revoke: a grant is revoked exactly when its root has
\* been withdrawn, however stale the copy it was derived from.
THEOREM RevocationReachesHolds == GrantsSpec => []RevocationReaches
<1>1. RegistryInv => RevocationReaches
  BY DEF RegistryInv
<1>2. QED
  BY <1>1, Inductive, PTL

\* record_descendant: a derived grant names the arrival of its root as its own,
\* and a root is no descendant.
THEOREM OriginKeptHolds == GrantsSpec => []OriginKept
<1>1. RegistryInv => OriginKept
  BY DEF RegistryInv
<1>2. QED
  BY <1>1, Inductive, PTL

-----------------------------------------------------------------------------

\* What withdrawing and dropping leave behind for one handle.
Final(id) == /\ Recorded(id) /\ IsRevoked(id) => IsRevoked(id)' \/ ~ Recorded(id)'
             /\ id \in issued /\ ~ Recorded(id) => ~ Recorded(id)'

\* A step that leaves every issued handle as it was, or drops it, or keeps it
\* revoked, is final for each of them.
LEMMA FinalStep ==
    ASSUME RegistryInv, GrantsNext, NEW id \in GrantId
    PROVE  Final(id)
<1>1. ASSUME NEW i \in GrantId, NEW o \in Origin, Acquire(i, o) PROVE Final(id)
  <2>1. i \notin issued /\ revokedRoots' = revokedRoots
    BY <1>1 DEF Acquire, Fresh, RecordRoot
  <2>2. id # i => grants'[id] = grants[id]
    BY <1>1 DEF Acquire, RecordRoot, RegistryInv, GrantsTypeOK
  <2>3. Recorded(id) => id # i
    BY <2>1 DEF RegistryInv, NumbersIssued
  <2>4. QED
    BY <2>1, <2>2, <2>3 DEF Final, IsRevoked, Recorded
<1>2. ASSUME NEW i \in GrantId, NEW c \in Client, NEW needs, Accept(c, i, needs)
      PROVE  Final(id)
  BY <1>2 DEF Accept, registryVars, Final, IsRevoked, Recorded
<1>3. ASSUME NEW i \in GrantId, NEW c \in Client, NEW rights, Derive(c, i, rights)
      PROVE  Final(id)
  <2>1. i \notin issued /\ revokedRoots' = revokedRoots
    BY <1>3 DEF Derive, Fresh, RecordDescendant
  <2>2. id # i => grants'[id] = grants[id]
    BY <1>3 DEF Derive, RecordDescendant, RegistryInv, GrantsTypeOK
  <2>3. Recorded(id) => id # i
    BY <2>1 DEF RegistryInv, NumbersIssued
  <2>4. QED
    BY <2>1, <2>2, <2>3 DEF Final, IsRevoked, Recorded
<1>4. ASSUME NEW R, grants' = Flagged(R), revokedRoots \subseteq revokedRoots'
      PROVE  Final(id)
  <2>1. ~ Recorded(id) => ~ Recorded(id)'
    BY <1>4 DEF Flagged, Recorded
  <2>2. Recorded(id) => grants[id] \in Grant
    BY DEF RegistryInv, GrantsTypeOK, Recorded
  <2>3. Recorded(id) => /\ grants'[id].root = grants[id].root
                        /\ grants[id].revoked => grants'[id].revoked
    BY <1>4, <2>2 DEF Flagged, Grant
  <2>4. QED
    BY <1>4, <2>1, <2>3 DEF Final, IsRevoked
<1>5. ASSUME NEW i \in GrantId, Revoke(i) PROVE Final(id)
  <2>1. CASE Recorded(i)
    BY <1>4, <1>5, <2>1 DEF Revoke
  <2>2. CASE ~ Recorded(i)
    BY <1>5, <2>2 DEF Revoke, registryVars, Final, IsRevoked, Recorded
  <2>3. QED
    BY <2>1, <2>2
<1>6. ASSUME NEW k \in Kind, RevokeKind(k) PROVE Final(id)
  BY <1>4, <1>6 DEF RevokeKind
<1>7. ASSUME NEW i \in GrantId, Release(i) PROVE Final(id)
  BY <1>7 DEF Release, RegistryInv, GrantsTypeOK, Final, IsRevoked, Recorded
<1>8. ASSUME NEW i \in GrantId, Remember(i) PROVE Final(id)
  <2>1. /\ revokedRoots' = revokedRoots
        /\ grants'[id] \in {grants[id]} \union
             (IF Recorded(id) THEN {[grants[id] EXCEPT !.lifetime = "remembered"]} ELSE {})
    BY <1>8 DEF Remember
  <2>2. Recorded(id) => grants[id] \in Grant
    BY DEF RegistryInv, GrantsTypeOK, Recorded
  <2>3. Recorded(id) => /\ grants'[id].root = grants[id].root
                        /\ grants'[id].revoked = grants[id].revoked
    BY <2>1, <2>2 DEF Grant
  <2>4. QED
    BY <2>1, <2>3 DEF Final, IsRevoked, Recorded
<1>9. ASSUME NEW k \in Kind, ForgetKind(k) PROVE Final(id)
  BY <1>9 DEF ForgetKind, Final, IsRevoked, Recorded
<1>10. QED
  BY <1>1, <1>2, <1>3, <1>5, <1>6, <1>7, <1>8, <1>9, Steps

\* revoke and release: a withdrawn grant is never usable again, and a handle
\* that was dropped never comes back with fresh authority.
THEOREM WithdrawalFinalHolds == GrantsSpec => WithdrawalFinal
<1>1. RegistryInv /\ [GrantsNext]_grantVars => [\A id \in GrantId : Final(id)]_grantVars
  BY FinalStep
<1>2. QED
  BY <1>1, Inductive, PTL DEF GrantsSpec, WithdrawalFinal, Final

-----------------------------------------------------------------------------
(* Terminals: lemmas about sequences.                                      *)

\* What a terminal delivered, what its reader has collected (c) and what it still
\* holds: in order, and with what reads gave up all the shell wrote.
Stream(p, c) == (p.delivered \o c) \o p.output
Kept(p, c) ==
    /\ Rising(Stream(p, c))
    /\ Chunks(Stream(p, c)) \intersect Lost(p) = {}
    /\ Chunks(Stream(p, c)) \union Lost(p) = 1 .. p.written
    /\ \A s \in p.lost : Len(s) < MaxRead

\* Concatenation of chunks, in whichever order it is done.
LEMMA ChunksAssociate ==
    ASSUME NEW s \in Seq(Nat), NEW t \in Seq(Nat), NEW u \in Seq(Nat)
    PROVE  (s \o t) \o u = s \o (t \o u)
OBVIOUS

\* A sequence is any beginning of it followed by the rest.
LEMMA SplitSeq ==
    ASSUME NEW s \in Seq(Nat), NEW k \in 0 .. Len(s)
    PROVE  /\ SubSeq(s, 1, k) \in Seq(Nat) /\ Len(SubSeq(s, 1, k)) = k
           /\ SubSeq(s, k + 1, Len(s)) \in Seq(Nat)
           /\ SubSeq(s, 1, k) \o SubSeq(s, k + 1, Len(s)) = s
<1>1. \A i \in 1 .. Len(s) : s[i] \in Nat
  BY ElementOfSeq
<1>2. Len(s) \in Nat
  BY LenProperties
<1>3. SubSeq(s, 1, k) \in Seq(Nat) /\ Len(SubSeq(s, 1, k)) = k
  BY <1>1, <1>2, SubSeqProperties
<1>4. SubSeq(s, k + 1, Len(s)) \in Seq(Nat)
  BY <1>1, <1>2, SubSeqProperties
<1>5. SubSeq(s, 1, k) \o SubSeq(s, k + 1, Len(s)) = SubSeq(s, 1, Len(s))
  <2>1. /\ 1 \in 1 .. Len(s) + 1 /\ k \in 1 - 1 .. Len(s) /\ Len(s) \in k .. Len(s)
    BY <1>2
  <2> QED
    BY <2>1, ConcatAdjacentSubSeq, Zenon
<1>6. SubSeq(s, 1, Len(s)) = s
  BY SubSeqFull
<1> QED
  BY <1>3, <1>4, <1>5, <1>6

\* One chunk more, at the end.
LEMMA AppendRising ==
    ASSUME NEW s \in Seq(Nat), NEW n \in Nat, Rising(s), \A m \in Chunks(s) : m <= n
    PROVE  Rising(Append(s, n + 1)) /\ Chunks(Append(s, n + 1)) = Chunks(s) \union {n + 1}
<1> DEFINE t == Append(s, n + 1)
<1>1. Len(s) \in Nat /\ DOMAIN s = 1 .. Len(s)
  BY LenProperties
<1>2. /\ t \in Seq(Nat) /\ Len(t) = Len(s) + 1
      /\ \A i \in 1 .. Len(s) : t[i] = s[i]
      /\ t[Len(s) + 1] = n + 1
  BY AppendProperties
<1>3. DOMAIN t = 1 .. Len(s) + 1
  BY <1>2, LenProperties
<1>4. \A i \in 1 .. Len(s) : s[i] \in Nat /\ s[i] <= n
  BY <1>1, ElementOfSeq DEF Chunks
<1> HIDE DEF t
<1>5. \A i \in DOMAIN t : i \in 1 .. Len(s) \/ i = Len(s) + 1
  BY <1>1, <1>3
<1>6. Rising(t)
  <2> SUFFICES ASSUME NEW i \in DOMAIN t, NEW j \in DOMAIN t, i < j PROVE t[i] < t[j]
    BY DEF Rising
  <2>1. i \in 1 .. Len(s)
    BY <1>1, <1>3
  <2>2. CASE j \in 1 .. Len(s)
    BY <1>1, <1>2, <2>1, <2>2 DEF Rising
  <2>3. CASE j = Len(s) + 1
    BY <1>2, <1>4, <2>1, <2>3
  <2> QED
    BY <1>5, <2>2, <2>3
<1>7. Chunks(t) = Chunks(s) \union {n + 1}
  <2>1. \A i \in 1 .. Len(s) : i \in DOMAIN t
    BY <1>1, <1>3
  <2>2. Len(s) + 1 \in DOMAIN t
    BY <1>1, <1>3
  <2>3. Chunks(t) \subseteq Chunks(s) \union {n + 1}
    BY <1>1, <1>2, <1>5 DEF Chunks
  <2>4. Chunks(s) \union {n + 1} \subseteq Chunks(t)
    BY <1>1, <1>2, <2>1, <2>2 DEF Chunks
  <2> QED
    BY <2>3, <2>4
<1> QED
  BY <1>6, <1>7 DEF t

\* A part taken out of the middle: the rest is still in order, and apart from it.
LEMMA MiddleOut ==
    ASSUME NEW d \in Seq(Nat), NEW c \in Seq(Nat), NEW o \in Seq(Nat),
           Rising((d \o c) \o o)
    PROVE  /\ Rising(d \o o)
           /\ Chunks((d \o c) \o o) = Chunks(d \o o) \union Chunks(c)
           /\ Chunks(d \o o) \intersect Chunks(c) = {}
<1> DEFINE s == (d \o c) \o o
           t == d \o o
           D == Len(d)
           C == Len(c)
           O == Len(o)
           At3(i) == IF i <= D THEN i ELSE i + C
<1>1. D \in Nat /\ C \in Nat /\ O \in Nat /\ DOMAIN c = 1 .. C
  BY LenProperties
<1>2. /\ d \o c \in Seq(Nat) /\ Len(d \o c) = D + C
      /\ \A i \in 1 .. D + C : (d \o c)[i] = IF i <= D THEN d[i] ELSE c[i - D]
  BY ConcatProperties
<1>3. /\ s \in Seq(Nat) /\ Len(s) = D + C + O
      /\ \A i \in 1 .. D + C + O : s[i] = IF i <= D + C THEN (d \o c)[i] ELSE o[i - (D + C)]
  BY <1>2, ConcatProperties
<1>4. /\ t \in Seq(Nat) /\ Len(t) = D + O
      /\ \A i \in 1 .. D + O : t[i] = IF i <= D THEN d[i] ELSE o[i - D]
  BY ConcatProperties
<1>5. DOMAIN s = 1 .. D + C + O /\ DOMAIN t = 1 .. D + O
  BY <1>3, <1>4, LenProperties
<1> HIDE DEF s, t, D, C, O
<1>6. \A i \in 1 .. D + O : At3(i) \in 1 .. D + C + O /\ s[At3(i)] = t[i]
  <2> SUFFICES ASSUME NEW i \in 1 .. D + O
               PROVE  At3(i) \in 1 .. D + C + O /\ s[At3(i)] = t[i]
    OBVIOUS
  <2>1. CASE i <= D
    <3>1. At3(i) = i /\ i \in 1 .. D + C /\ i \in 1 .. D + C + O /\ i <= D + C
      BY <1>1, <2>1
    <3> QED
      BY <1>2, <1>3, <1>4, <2>1, <3>1
  <2>2. CASE ~ (i <= D)
    <3>1. /\ At3(i) = i + C /\ i + C \in 1 .. D + C + O /\ ~ (i + C <= D + C)
          /\ (i + C) - (D + C) = i - D
      BY <1>1, <2>2
    <3> QED
      BY <1>3, <1>4, <2>2, <3>1
  <2> QED
    BY <2>1, <2>2
<1>7. \A k \in 1 .. C : D + k \in 1 .. D + C + O /\ s[D + k] = c[k]
  <2> SUFFICES ASSUME NEW k \in 1 .. C
               PROVE  D + k \in 1 .. D + C + O /\ s[D + k] = c[k]
    OBVIOUS
  <2>1. /\ D + k \in 1 .. D + C + O /\ D + k \in 1 .. D + C /\ D + k <= D + C
        /\ ~ (D + k <= D) /\ (D + k) - D = k
    BY <1>1
  <2> QED
    BY <1>2, <1>3, <2>1
<1>8. \A i, j \in 1 .. D + C + O : i < j => s[i] < s[j]
  BY <1>5 DEF Rising, s
<1>9. \A i \in 1 .. D + C + O : s[i] \in Nat
  BY <1>3, <1>5, ElementOfSeq
<1>10. Rising(t)
  <2> SUFFICES ASSUME NEW i \in 1 .. D + O, NEW j \in 1 .. D + O, i < j PROVE t[i] < t[j]
    BY <1>5 DEF Rising
  <2>1. At3(i) < At3(j)
    BY <1>1
  <2> HIDE DEF At3
  <2> QED
    BY <1>6, <1>8, <2>1
<1>11. \A i \in 1 .. D + C + O :
          \/ \E j \in 1 .. D + O : i = At3(j)
          \/ \E k \in 1 .. C : i = D + k
  <2> SUFFICES ASSUME NEW i \in 1 .. D + C + O
               PROVE  \/ \E j \in 1 .. D + O : i = At3(j)
                      \/ \E k \in 1 .. C : i = D + k
    OBVIOUS
  <2>1. CASE i <= D
    <3>1. i \in 1 .. D + O /\ i = At3(i)
      BY <1>1, <2>1
    <3> QED
      BY <3>1
  <2>2. CASE ~ (i <= D) /\ i <= D + C
    <3>1. i - D \in 1 .. C /\ i = D + (i - D)
      BY <1>1, <2>2
    <3> QED
      BY <3>1
  <2>3. CASE ~ (i <= D + C)
    <3>1. i - C \in 1 .. D + O /\ i = At3(i - C)
      BY <1>1, <2>3
    <3> QED
      BY <3>1
  <2> QED
    BY <2>1, <2>2, <2>3
<1>12. \A i \in 1 .. D + O : \A k \in 1 .. C : At3(i) < D + k \/ D + k < At3(i)
  BY <1>1
<1>13. /\ Chunks(s) = {s[i] : i \in 1 .. D + C + O}
       /\ Chunks(t) = {t[i] : i \in 1 .. D + O}
       /\ Chunks(c) = {c[k] : k \in 1 .. C}
  BY <1>1, <1>5 DEF Chunks
<1> HIDE DEF At3
<1>14. Chunks(s) = Chunks(t) \union Chunks(c)
  <2>1. Chunks(s) \subseteq Chunks(t) \union Chunks(c)
    BY <1>6, <1>7, <1>11, <1>13
  <2>2. Chunks(t) \subseteq Chunks(s)
    BY <1>6, <1>13
  <2>3. Chunks(c) \subseteq Chunks(s)
    BY <1>7, <1>13
  <2> QED
    BY <2>1, <2>2, <2>3
<1>15. Chunks(t) \intersect Chunks(c) = {}
  <2> SUFFICES ASSUME NEW i \in 1 .. D + O, NEW k \in 1 .. C PROVE t[i] # c[k]
    BY <1>13
  <2>1. s[At3(i)] # s[D + k]
    BY <1>6, <1>7, <1>8, <1>9, <1>12
  <2> QED
    BY <1>6, <1>7, <2>1
<1> QED
  BY <1>10, <1>14, <1>15 DEF s, t

\* A terminal with the same stream and the same losses is as well kept.
LEMMA KeptSame ==
    ASSUME NEW p, NEW c, NEW q, NEW e, Kept(p, c),
           Stream(q, e) = Stream(p, c), q.lost = p.lost, q.written = p.written
    PROVE  Kept(q, e)
BY DEF Kept, Lost

\* A read that gives up loses what it has collected, and no more.
LEMMA KeptGiveUp ==
    ASSUME NEW p \in Pty, NEW c \in Seq(Nat), Len(c) < MaxRead, Kept(p, c), NEW q \in Pty,
           q.delivered = p.delivered, q.output = p.output, q.written = p.written,
           q.lost = p.lost \union ({c} \ {<<>>})
    PROVE  Kept(q, <<>>)
<1> DEFINE d == p.delivered
           o == p.output
<1>1. d \in Seq(Nat) /\ o \in Seq(Nat)
  BY DEF Pty
<1>2. Stream(q, <<>>) = d \o o
  BY <1>1, ConcatEmptySeq DEF Stream
<1>3. /\ Rising((d \o c) \o o)
      /\ Chunks((d \o c) \o o) \intersect Lost(p) = {}
      /\ Chunks((d \o c) \o o) \union Lost(p) = 1 .. p.written
      /\ \A s \in p.lost : Len(s) < MaxRead
  BY DEF Kept, Stream
<1>4. /\ Rising(d \o o)
      /\ Chunks((d \o c) \o o) = Chunks(d \o o) \union Chunks(c)
      /\ Chunks(d \o o) \intersect Chunks(c) = {}
  BY <1>1, <1>3, MiddleOut
<1>5. Chunks(<<>>) = {}
  BY EmptySeq DEF Chunks
<1>6. Lost(q) = Lost(p) \union Chunks(c)
  <2>1. CASE c = <<>>
    <3>1. q.lost = p.lost
      BY <2>1
    <3> QED
      BY <1>5, <2>1, <3>1 DEF Lost
  <2>2. CASE c # <<>>
    <3>1. q.lost = p.lost \union {c}
      BY <2>2
    <3> QED
      BY <3>1 DEF Lost
  <2> QED
    BY <2>1, <2>2
<1>7. \A s \in q.lost : Len(s) < MaxRead
  BY <1>3
<1> HIDE DEF d, o
<1>8. /\ Chunks(d \o o) \intersect Lost(q) = {}
      /\ Chunks(d \o o) \union Lost(q) = 1 .. p.written
  BY <1>3, <1>4, <1>6
<1> QED
  BY <1>2, <1>4, <1>7, <1>8 DEF Kept

\* The shell writes one chunk more.
LEMMA KeptAppend ==
    ASSUME NEW p \in Pty, NEW c \in Seq(Nat), Kept(p, c), NEW q \in Pty,
           q.delivered = p.delivered, q.output = Append(p.output, p.written + 1),
           q.written = p.written + 1, q.lost = p.lost
    PROVE  Kept(q, c)
<1> DEFINE d == p.delivered
           o == p.output
           n == p.written
<1>1. d \in Seq(Nat) /\ o \in Seq(Nat) /\ n \in Nat
  BY DEF Pty
<1>2. Stream(p, c) = (d \o c) \o o /\ Stream(q, c) = (d \o c) \o Append(o, n + 1)
  BY DEF Stream
<1> HIDE DEF d, o, n
<1>3. d \o c \in Seq(Nat) /\ <<n + 1>> \in Seq(Nat)
  BY <1>1, ConcatProperties
<1>4. (d \o c) \o o \in Seq(Nat)
  BY <1>1, <1>3, ConcatProperties
<1>5. Stream(q, c) = Append(Stream(p, c), n + 1)
  <2>1. Append(o, n + 1) = o \o <<n + 1>>
    BY <1>1, AppendIsConcat
  <2>2. ((d \o c) \o o) \o <<n + 1>> = (d \o c) \o (o \o <<n + 1>>)
    BY <1>1, <1>3, ChunksAssociate
  <2>3. ((d \o c) \o o) \o <<n + 1>> = Append((d \o c) \o o, n + 1)
    BY <1>1, <1>4, AppendIsConcat
  <2> QED
    BY <1>2, <2>1, <2>2, <2>3
<1>6. /\ Rising(Stream(p, c))
      /\ Chunks(Stream(p, c)) \intersect Lost(p) = {}
      /\ Chunks(Stream(p, c)) \union Lost(p) = 1 .. n
      /\ \A s \in p.lost : Len(s) < MaxRead
  BY DEF Kept, n
<1>7. \A m \in Chunks(Stream(p, c)) : m <= n
  BY <1>1, <1>6
<1>8. /\ Rising(Append(Stream(p, c), n + 1))
      /\ Chunks(Append(Stream(p, c), n + 1)) = Chunks(Stream(p, c)) \union {n + 1}
  BY <1>1, <1>2, <1>4, <1>6, <1>7, AppendRising
<1>9. Lost(q) = Lost(p) /\ n + 1 \notin Lost(p)
  <2>1. Lost(q) = Lost(p)
    BY DEF Lost
  <2>2. Lost(p) \subseteq 1 .. n
    BY <1>6
  <2>3. n + 1 \notin 1 .. n
    BY <1>1
  <2> QED
    BY <2>1, <2>2, <2>3
<1>10. 1 .. n + 1 = (1 .. n) \union {n + 1}
  BY <1>1
<1>11. q.written = n + 1
  BY DEF n
<1> QED
  BY <1>5, <1>6, <1>8, <1>9, <1>10, <1>11 DEF Kept

\* Chunks that move from the terminal to its reader.
LEMMA KeptTake ==
    ASSUME NEW d \in Seq(Nat), NEW c \in Seq(Nat), NEW o \in Seq(Nat),
           NEW k \in 0 .. Len(o)
    PROVE  (d \o (c \o SubSeq(o, 1, k))) \o SubSeq(o, k + 1, Len(o)) = (d \o c) \o o
<1> DEFINE a == SubSeq(o, 1, k)
           b == SubSeq(o, k + 1, Len(o))
<1>1. a \in Seq(Nat) /\ b \in Seq(Nat) /\ a \o b = o
  BY SplitSeq
<1> HIDE DEF a, b
<1>2. d \o c \in Seq(Nat)
  BY ConcatProperties
<1>3. (d \o c) \o a = d \o (c \o a)
  <2>1. a \in Seq(Nat)
    BY <1>1
  <2> QED
    BY ONLY <2>1, d \in Seq(Nat), c \in Seq(Nat), ChunksAssociate
<1>4. ((d \o c) \o a) \o b = (d \o c) \o (a \o b)
  BY <1>1, <1>2, ChunksAssociate
<1>5. (d \o (c \o a)) \o b = (d \o c) \o o
  BY <1>1, <1>3, <1>4
<1> QED
  BY <1>5 DEF a, b

\* Chunks that move from the reader to the application.
LEMMA KeptDeliver ==
    ASSUME NEW d \in Seq(Nat), NEW c \in Seq(Nat), NEW o \in Seq(Nat)
    PROVE  ((d \o c) \o <<>>) \o o = (d \o c) \o o
<1>1. d \o c \in Seq(Nat)
  BY ConcatProperties
<1> QED
  BY <1>1, ConcatEmptySeq


-----------------------------------------------------------------------------
(* Type correctness.                                                       *)

CallPC == {"idle", "accepted", "counted", "inserted", "looked up", "check", "poll",
           "take", "lock", "write", "kill", "dropped"}
\* The calls that work on a terminal.
OnPty == CallPC \ {"idle", "accepted", "counted"}
ReadPC == {"check", "poll", "take"}
CallRecord == [pc : CallPC, id : GrantId \union {NoGrant}, collected : Seq(Nat)]

ProcessTypeOK ==
    /\ Spawned \subseteq GrantId /\ pty \in [Spawned -> Pty]
    /\ call \in [Caller -> CallRecord]
    /\ \A t \in Caller : call[t].pc \in OnPty => call[t].id \in Spawned

\* The terminals that were there are there, each with the terminal p as it is now.
PtyBecomes(id, p) ==
    /\ Spawned' = Spawned /\ pty'[id] = p
    /\ \A i \in Spawned : i # id => pty'[i] = pty[i]
CallBecomes(t, c) ==
    /\ call'[t] = c
    /\ \A u \in Caller : u # t => call'[u] = call[u]

\* A step of one call, which leaves one terminal at most changed, keeps the types.
LEMMA TypeStep ==
    ASSUME ProcessTypeOK, NEW t \in Caller, NEW c \in CallRecord, NEW id \in Spawned, NEW p \in Pty,
           pty' = [pty EXCEPT ![id] = p], call' = [call EXCEPT ![t] = c],
           c.pc \in OnPty => c.id \in Spawned
    PROVE  ProcessTypeOK' /\ PtyBecomes(id, p) /\ CallBecomes(t, c)
BY DEF ProcessTypeOK, Spawned, PtyBecomes, CallBecomes

\* What a terminal becomes when its reader delivers what it has collected, of
\* which the last chunks come straight from the terminal.
DeliveredPty(p, had, collected) ==
    [p EXCEPT !.reading = FALSE, !.delivered = @ \o collected,
              !.output = SubSeq(@, Len(collected) - Len(had) + 1, Len(@))]

\* The absence of a call is one of the values a call takes.
LEMMA NoCallIsCall == NoCall \in CallRecord
BY DEF NoCall, CallRecord, CallPC

\* A terminal just spawned is a terminal.
LEMMA NewPtyIsPty == NewPty \in Pty
BY DEF NewPty, Pty

\* The terminal and the call of a thread that is on one.
LEMMA OnPtyTypes ==
    ASSUME ProcessTypeOK, NEW t \in Caller, call[t].pc \in OnPty
    PROVE  /\ call[t].id \in Spawned /\ MyPty(t) \in Pty
           /\ call[t] \in CallRecord /\ call[t].id \in GrantId
BY DEF ProcessTypeOK, MyPty, Spawned

\* The same, field by field.
LEMMA PtyFields ==
    ASSUME NEW p \in Pty
    PROVE  /\ p.output \in Seq(Nat) /\ p.delivered \in Seq(Nat) /\ p.written \in Nat
           /\ p.canceled \in BOOLEAN /\ p.reading \in BOOLEAN /\ p.alive \in BOOLEAN
           /\ p.input \in Nat /\ p.lost \in SUBSET Seq(Nat)
BY DEF Pty


-----------------------------------------------------------------------------
(* One reader, and what it has.                                            *)

InRead(t) == call[t].pc \in ReadPC
Reads(t, id) == InRead(t) /\ call[t].id = id

OneReader == \A t, u \in Caller : InRead(t) /\ InRead(u) /\ call[t].id = call[u].id => t = u
ReaderFlagged ==
    \A t \in Caller : InRead(t) => MyPty(t).reading /\ Len(call[t].collected) < MaxRead
OnlyReadersCollect == \A t \in Caller : ~ InRead(t) => call[t].collected = <<>>
StreamKept ==
    \A id \in Spawned :
        /\ \A t \in Caller : Reads(t, id) => Kept(pty[id], call[t].collected)
        /\ (\A t \in Caller : ~ Reads(t, id)) => Kept(pty[id], <<>>)

ReadInv == OneReader /\ ReaderFlagged /\ OnlyReadersCollect /\ StreamKept

\* A step of a thread that is the only one to read the terminal, or about to be.
LEMMA ReaderStep ==
    ASSUME ProcessTypeOK, ReadInv, NEW t \in Caller, NEW c \in CallRecord, NEW id \in Spawned,
           NEW p \in Pty, PtyBecomes(id, p), CallBecomes(t, c),
           \A u \in Caller : u # t => ~ Reads(u, id), InRead(t) => call[t].id = id,
           c.pc \in ReadPC => c.id = id /\ p.reading /\ Len(c.collected) < MaxRead,
           c.pc \notin ReadPC => c.collected = <<>>,
           Kept(p, c.collected)
    PROVE  ReadInv'
<1> USE DEF PtyBecomes, CallBecomes, InRead, Reads
<1>1. \A u \in Caller : InRead(u) => call[u].id \in Spawned
  BY DEF ProcessTypeOK, OnPty, ReadPC, CallPC
<1>2. OneReader'
  BY DEF ReadInv, OneReader
<1>3. ReaderFlagged'
  BY <1>1 DEF ReadInv, ReaderFlagged, MyPty
<1>4. OnlyReadersCollect'
  BY DEF ReadInv, OnlyReadersCollect
<1>5. ASSUME NEW i \in Spawned'
      PROVE  /\ \A u \in Caller : Reads(u, i)' => Kept(pty'[i], call'[u].collected)
             /\ (\A u \in Caller : ~ Reads(u, i)') => Kept(pty'[i], <<>>)
  <2>1. CASE i = id
    BY <1>5, <2>1
  <2>2. CASE i # id
    <3>1. i \in Spawned /\ pty'[i] = pty[i]
      BY <1>5, <2>2
    <3>2. \A u \in Caller : Reads(u, i)' <=> Reads(u, i)
      BY <2>2
    <3>3. \A u \in Caller : Reads(u, i) => u # t /\ call'[u] = call[u]
      BY <2>2
    <3> QED
      BY <1>5, <3>1, <3>2, <3>3 DEF ReadInv, StreamKept
  <2> QED
    BY <2>1, <2>2
<1>6. StreamKept'
  BY <1>5 DEF StreamKept
<1> QED
  BY <1>2, <1>3, <1>4, <1>6 DEF ReadInv

\* A step that neither begins, ends nor continues a read, and touches of the
\* terminals only what their readers do not ask for.
LEMMA ReadFrame ==
    ASSUME ProcessTypeOK, ReadInv, Spawned' = Spawned,
           \A i \in Spawned :
              /\ pty'[i].output = pty[i].output /\ pty'[i].written = pty[i].written
              /\ pty'[i].delivered = pty[i].delivered /\ pty'[i].reading = pty[i].reading
              /\ pty'[i].lost = pty[i].lost,
           \A t \in Caller :
              /\ InRead(t)' <=> InRead(t)
              /\ InRead(t) => call'[t].id = call[t].id /\ call'[t].collected = call[t].collected
              /\ ~ InRead(t) => call'[t].collected = <<>>
    PROVE  ReadInv'
<1>1. \A u \in Caller : InRead(u) => call[u].id \in Spawned
  BY DEF ProcessTypeOK, OnPty, ReadPC, CallPC, InRead
<1>2. OneReader'
  BY DEF ReadInv, OneReader
<1>3. ReaderFlagged'
  BY <1>1 DEF ReadInv, ReaderFlagged, MyPty
<1>4. OnlyReadersCollect'
  BY DEF ReadInv, OnlyReadersCollect
<1>5. \A t \in Caller, i \in Spawned : Reads(t, i)' <=> Reads(t, i)
  BY DEF Reads
<1>6. StreamKept'
  <2>1. \A i \in Spawned : \A c : Kept(pty'[i], c) <=> Kept(pty[i], c)
    <3>1. \A i \in Spawned : \A c : Stream(pty'[i], c) = Stream(pty[i], c)
      BY DEF Stream
    <3> QED
      BY <3>1 DEF Kept, Lost
  <2>2. \A t \in Caller, i \in Spawned : Reads(t, i) => call'[t].collected = call[t].collected
    BY DEF Reads
  <2>4. ASSUME NEW i \in Spawned'
        PROVE  /\ \A t \in Caller : Reads(t, i)' => Kept(pty'[i], call'[t].collected)
               /\ (\A t \in Caller : ~ Reads(t, i)') => Kept(pty'[i], <<>>)
    BY <1>5, <2>1, <2>2 DEF ReadInv, StreamKept
  <2> QED
    BY <2>4 DEF StreamKept
<1> QED
  BY <1>2, <1>3, <1>4, <1>6 DEF ReadInv


\* A step of one call that is no step of a read.
LEMMA OtherStep ==
    ASSUME ProcessTypeOK, ReadInv, NEW t \in Caller, NEW c \in CallRecord, NEW id \in Spawned,
           NEW p \in Pty, PtyBecomes(id, p), CallBecomes(t, c),
           p.output = pty[id].output, p.written = pty[id].written,
           p.delivered = pty[id].delivered, p.reading = pty[id].reading,
           p.lost = pty[id].lost,
           c.pc \in ReadPC <=> InRead(t),
           c.collected = call[t].collected, InRead(t) => c.id = call[t].id
    PROVE  ReadInv'
<1>1. \A u \in Caller : InRead(u)' <=> InRead(u)
  BY DEF CallBecomes, InRead
<1>2. \A u \in Caller : /\ call'[u].collected = call[u].collected
                        /\ InRead(u) => call'[u].id = call[u].id
  BY DEF CallBecomes
<1>3. \A u \in Caller : ~ InRead(u) => call[u].collected = <<>>
  BY DEF ReadInv, OnlyReadersCollect
<1>4. \A i \in Spawned :
         /\ pty'[i].output = pty[i].output /\ pty'[i].written = pty[i].written
         /\ pty'[i].delivered = pty[i].delivered /\ pty'[i].reading = pty[i].reading
         /\ pty'[i].lost = pty[i].lost
  BY DEF PtyBecomes
<1>5. Spawned' = Spawned
  BY DEF PtyBecomes
<1> QED
  BY <1>1, <1>2, <1>3, <1>4, <1>5, ReadFrame

\* The absence of a call reads nothing and has collected nothing.
LEMMA NoCallFields ==
    NoCall.pc \notin ReadPC /\ NoCall.pc \notin OnPty /\ NoCall.collected = <<>>
BY DEF NoCall, ReadPC, OnPty

-----------------------------------------------------------------------------
(* The steps of a read.                                                    *)

\* A read asks for something.
LEMMA MaxReadPositive == MaxRead \in Nat \ {0}
BY ProcessAssumption

\* The thread that reads a terminal is the only one to.
LEMMA ReaderAlone ==
    ASSUME ReadInv, NEW t \in Caller, InRead(t)
    PROVE  \A u \in Caller : u # t => ~ Reads(u, call[t].id)
BY DEF ReadInv, OneReader, Reads

\* A terminal nobody reads is not marked as being read to the thread that enters.
LEMMA ReadEnterKeeps ==
    ASSUME ProcessTypeOK, ReadInv, NEW t \in Caller, ReadEnter(t)
    PROVE  ProcessTypeOK' /\ ReadInv'
<1> DEFINE id == call[t].id
<1>1. /\ call[t].pc = "looked up" /\ id \in Spawned /\ pty[id] \in Pty /\ call[t] \in CallRecord
      /\ ~ InRead(t) /\ call[t].collected = <<>>
  BY OnPtyTypes DEF ReadEnter, In, MyPty, OnPty, CallPC, InRead, ReadPC, ReadInv,
                    OnlyReadersCollect
<1>2. CASE pty[id].reading
  <2>1. call' = [call EXCEPT ![t] = NoCall] /\ pty' = [pty EXCEPT ![id] = pty[id]]
    BY <1>1, <1>2 DEF ReadEnter, MyPty, Leaves, ProcessTypeOK
  <2>2. ProcessTypeOK' /\ PtyBecomes(id, pty[id]) /\ CallBecomes(t, NoCall)
    BY <1>1, <2>1, TypeStep, NoCallIsCall DEF NoCall, OnPty
  <2> QED
    BY <1>1, <2>2, OtherStep, NoCallIsCall, NoCallFields
<1>3. CASE ~ pty[id].reading
  <2> DEFINE p == [pty[id] EXCEPT !.reading = TRUE]
             c == [call[t] EXCEPT !.pc = "check"]
  <2>1. call' = [call EXCEPT ![t] = c] /\ pty' = [pty EXCEPT ![id] = p]
    BY <1>1, <1>3 DEF ReadEnter, MyPty, Moves, ProcessTypeOK
  <2>2. /\ p \in Pty /\ p.reading /\ p.lost = pty[id].lost
        /\ p.delivered = pty[id].delivered /\ p.output = pty[id].output
        /\ p.written = pty[id].written
    BY <1>1 DEF Pty
  <2>3. c \in CallRecord /\ c.pc = "check" /\ c.id = id /\ c.collected = <<>>
    BY <1>1 DEF CallRecord, CallPC
  <2> HIDE DEF p, c
  <2>4. ProcessTypeOK' /\ PtyBecomes(id, p) /\ CallBecomes(t, c)
    BY <1>1, <2>1, <2>2, <2>3, TypeStep
  <2>5. \A u \in Caller : ~ Reads(u, id)
    BY <1>3 DEF ReadInv, ReaderFlagged, Reads, MyPty
  <2>6. Kept(p, c.collected)
    <3>1. Kept(pty[id], <<>>)
      BY <1>1, <2>5 DEF ReadInv, StreamKept
    <3>2. Stream(p, <<>>) = Stream(pty[id], <<>>)
      BY <2>2 DEF Stream
    <3> QED
      BY <2>2, <2>3, <3>1, <3>2, KeptSame
  <2>7. Len(c.collected) < MaxRead
    BY <2>3, EmptySeq, MaxReadPositive
  <2> QED
    BY <1>1, <2>2, <2>3, <2>4, <2>5, <2>6, <2>7, ReaderStep DEF ReadPC
<1> QED
  BY <1>2, <1>3

\* What is delivered leaves the terminal's flag unset and nothing collected.
LEMMA DeliverKeeps ==
    ASSUME ProcessTypeOK, ReadInv, NEW t \in Caller, InRead(t),
           NEW k \in 0 .. Len(MyPty(t).output),
           Deliver(t, call[t].collected \o SubSeq(MyPty(t).output, 1, k))
    PROVE  ProcessTypeOK' /\ ReadInv'
<1> DEFINE id == call[t].id
           o == pty[id].output
           had == call[t].collected
           collected == had \o SubSeq(o, 1, k)
           p == DeliveredPty(pty[id], had, collected)
<1>1. /\ id \in Spawned /\ pty[id] \in Pty /\ had \in Seq(Nat) /\ o \in Seq(Nat)
      /\ pty[id].delivered \in Seq(Nat) /\ pty[id].written \in Nat /\ k \in 0 .. Len(o)
  BY OnPtyTypes, PtyFields DEF InRead, ReadPC, OnPty, CallPC, MyPty, CallRecord
<1>2. /\ SubSeq(o, 1, k) \in Seq(Nat) /\ Len(SubSeq(o, 1, k)) = k
      /\ SubSeq(o, k + 1, Len(o)) \in Seq(Nat)
  BY <1>1, SplitSeq
<1>3. collected \in Seq(Nat) /\ Len(collected) - Len(had) + 1 = k + 1
  <2>1. collected \in Seq(Nat) /\ Len(collected) = Len(had) + Len(SubSeq(o, 1, k))
    BY <1>1, <1>2, ConcatProperties
  <2>2. Len(had) \in Nat /\ Len(o) \in Nat /\ k \in Nat
    BY <1>1, LenProperties
  <2> HIDE DEF collected, had, o
  <2> QED
    BY <1>2, <2>1, <2>2
<1>4. /\ p.reading = FALSE /\ p.delivered = pty[id].delivered \o collected
      /\ p.output = SubSeq(o, k + 1, Len(o)) /\ p.written = pty[id].written
      /\ p.lost = pty[id].lost /\ p \in Pty
  <2>1. pty[id].delivered \o collected \in Seq(Nat)
    BY <1>1, <1>3, ConcatProperties
  <2>2. p = [pty[id] EXCEPT !.reading = FALSE, !.delivered = pty[id].delivered \o collected,
                            !.output = SubSeq(o, k + 1, Len(o))]
    BY <1>3 DEF DeliveredPty
  <2> HIDE DEF p, collected
  <2> QED
    BY <1>1, <1>2, <2>1, <2>2 DEF Pty
<1>5. call' = [call EXCEPT ![t] = NoCall] /\ pty' = [pty EXCEPT ![id] = p]
  BY <1>1 DEF Deliver, Leaves, ProcessTypeOK, DeliveredPty, MyPty
<1> HIDE DEF p
<1>6. ProcessTypeOK' /\ PtyBecomes(id, p) /\ CallBecomes(t, NoCall)
  BY <1>1, <1>4, <1>5, TypeStep, NoCallIsCall DEF NoCall, OnPty
<1>7. Kept(p, <<>>)
  <2>1. Kept(pty[id], had)
    BY <1>1 DEF ReadInv, StreamKept, Reads
  <2>2. (pty[id].delivered \o collected) \o SubSeq(o, k + 1, Len(o)) = (pty[id].delivered \o had) \o o
    <3> DEFINE d == pty[id].delivered
    <3>1. d \in Seq(Nat) /\ had \in Seq(Nat) /\ o \in Seq(Nat) /\ k \in 0 .. Len(o)
      BY <1>1
    <3> HIDE DEF d, o, had
    <3>2. (d \o (had \o SubSeq(o, 1, k))) \o SubSeq(o, k + 1, Len(o)) = (d \o had) \o o
      BY ONLY <3>1, KeptTake
    <3> QED
      BY ONLY <3>2 DEF d
  <2>3. ((pty[id].delivered \o collected) \o <<>>) \o SubSeq(o, k + 1, Len(o))
          = (pty[id].delivered \o had) \o o
    BY <1>1, <1>2, <1>3, <2>2, KeptDeliver
  <2>4. Stream(p, <<>>) = Stream(pty[id], had)
    BY <1>4, <2>3 DEF Stream
  <2> QED
    BY <1>4, <2>1, <2>4, KeptSame
<1> QED
  BY <1>1, <1>4, <1>6, <1>7, ReaderAlone, ReaderStep, NoCallIsCall, NoCallFields

\* A read that gives up loses what it collected, and unsets its terminal's flag.
LEMMA GiveUpKeeps ==
    ASSUME ProcessTypeOK, ReadInv, NEW t \in Caller, InRead(t), GiveUp(t)
    PROVE  ProcessTypeOK' /\ ReadInv'
<1> DEFINE id == call[t].id
           had == call[t].collected
           p == [pty[id] EXCEPT !.reading = FALSE, !.lost = @ \union ({had} \ {<<>>})]
<1>1. /\ id \in Spawned /\ pty[id] \in Pty /\ had \in Seq(Nat) /\ Len(had) < MaxRead
  <2>1. call[t].pc \in OnPty
    BY DEF InRead, ReadPC, OnPty, CallPC
  <2> QED
    BY <2>1, OnPtyTypes DEF MyPty, CallRecord, ReadInv, ReaderFlagged
<1>2. call' = [call EXCEPT ![t] = NoCall] /\ pty' = [pty EXCEPT ![id] = p]
  BY <1>1 DEF GiveUp, Leaves, ProcessTypeOK
<1>3. /\ p \in Pty /\ p.delivered = pty[id].delivered /\ p.output = pty[id].output
      /\ p.written = pty[id].written /\ p.lost = pty[id].lost \union ({had} \ {<<>>})
  <2> DEFINE l == pty[id].lost \union ({had} \ {<<>>})
  <2>1. l \in SUBSET Seq(Nat)
    BY <1>1, PtyFields
  <2>2. p = [pty[id] EXCEPT !.reading = FALSE, !.lost = l]
    OBVIOUS
  <2> HIDE DEF p, l
  <2>3. /\ p \in Pty /\ p.delivered = pty[id].delivered /\ p.output = pty[id].output
        /\ p.written = pty[id].written /\ p.lost = l
    BY <1>1, <2>1, <2>2 DEF Pty
  <2> QED
    BY <2>3 DEF l
<1> HIDE DEF p
<1>4. ProcessTypeOK' /\ PtyBecomes(id, p) /\ CallBecomes(t, NoCall)
  BY <1>1, <1>2, <1>3, TypeStep, NoCallIsCall DEF NoCall, OnPty
<1>5. Kept(pty[id], had)
  BY <1>1 DEF ReadInv, StreamKept, Reads
<1>6. Kept(p, <<>>)
  BY <1>1, <1>3, <1>5, KeptGiveUp
<1> QED
  BY <1>1, <1>3, <1>4, <1>6, ReaderAlone, ReaderStep, NoCallIsCall, NoCallFields

\* A cancelled read gives up; another goes on to wait.
LEMMA ReadCheckKeeps ==
    ASSUME ProcessTypeOK, ReadInv, NEW t \in Caller, ReadCheck(t)
    PROVE  ProcessTypeOK' /\ ReadInv'
<1> DEFINE id == call[t].id
<1>1. /\ call[t].pc = "check" /\ id \in Spawned /\ pty[id] \in Pty /\ call[t] \in CallRecord
      /\ InRead(t)
  BY OnPtyTypes DEF ReadCheck, In, MyPty, OnPty, CallPC, InRead, ReadPC
<1>2. CASE pty[id].canceled
  <2>1. GiveUp(t)
    BY <1>2 DEF ReadCheck, MyPty
  <2> QED
    BY <1>1, <2>1, GiveUpKeeps
<1>3. CASE ~ pty[id].canceled
  <2> DEFINE c == [call[t] EXCEPT !.pc = "poll"]
  <2>1. call' = [call EXCEPT ![t] = c] /\ pty' = [pty EXCEPT ![id] = pty[id]]
    BY <1>1, <1>3 DEF ReadCheck, MyPty, Moves, ProcessTypeOK
  <2>2. c \in CallRecord /\ c.pc = "poll" /\ c.id = id /\ c.collected = call[t].collected
    BY <1>1 DEF CallRecord, CallPC
  <2> HIDE DEF c
  <2>3. ProcessTypeOK' /\ PtyBecomes(id, pty[id]) /\ CallBecomes(t, c)
    BY <1>1, <2>1, <2>2, TypeStep
  <2> QED
    BY <1>1, <2>2, <2>3, OtherStep DEF ReadPC
<1> QED
  BY <1>2, <1>3

\* A poll takes nothing: at most it ends the read, with what it has or without.
LEMMA ReadPollKeeps ==
    ASSUME ProcessTypeOK, ReadInv, NEW t \in Caller, ReadPoll(t)
    PROVE  ProcessTypeOK' /\ ReadInv'
<1> DEFINE id == call[t].id
<1>1. /\ call[t].pc = "poll" /\ id \in Spawned /\ pty[id] \in Pty /\ call[t] \in CallRecord
      /\ InRead(t)
  BY OnPtyTypes DEF ReadPoll, In, MyPty, OnPty, CallPC, InRead, ReadPC
<1>2. ASSUME NEW pc \in {"take", "check"}, Moves(t, pc), UNCHANGED pty
      PROVE  ProcessTypeOK' /\ ReadInv'
  <2> DEFINE c == [call[t] EXCEPT !.pc = pc]
  <2>1. call' = [call EXCEPT ![t] = c] /\ pty' = [pty EXCEPT ![id] = pty[id]]
    BY <1>1, <1>2 DEF Moves, ProcessTypeOK
  <2>2. c \in CallRecord /\ c.pc = pc /\ c.id = id /\ c.collected = call[t].collected
    BY <1>1 DEF CallRecord, CallPC
  <2> HIDE DEF c
  <2>3. ProcessTypeOK' /\ PtyBecomes(id, pty[id]) /\ CallBecomes(t, c)
    BY <1>1, <2>1, <2>2, TypeStep
  <2> QED
    BY <1>1, <2>2, <2>3, OtherStep DEF ReadPC
<1>3. CASE Deliver(t, call[t].collected)
  <2>1. call[t].collected \in Seq(Nat) /\ MyPty(t).output \in Seq(Nat)
    BY <1>1, PtyFields DEF CallRecord, MyPty
  <2>2. SubSeq(MyPty(t).output, 1, 0) = <<>> /\ 0 \in 0 .. Len(MyPty(t).output)
    BY <2>1, SubSeqEmpty, LenProperties
  <2>3. call[t].collected \o SubSeq(MyPty(t).output, 1, 0) = call[t].collected
    BY <2>1, <2>2, ConcatEmptySeq
  <2> QED
    BY <1>1, <1>3, <2>2, <2>3, DeliverKeeps
<1> QED
  BY <1>1, <1>2, <1>3, GiveUpKeeps DEF ReadPoll

\* A read that goes round takes from the front of what the terminal holds.
LEMMA GoRoundKeeps ==
    ASSUME ProcessTypeOK, ReadInv, NEW t \in Caller, InRead(t),
           NEW k \in 0 .. Len(MyPty(t).output), Len(call[t].collected) + k < MaxRead,
           call' = [call EXCEPT ![t] = [call[t] EXCEPT !.pc = "check",
                        !.collected = call[t].collected \o SubSeq(MyPty(t).output, 1, k)]],
           pty' = [pty EXCEPT ![call[t].id] = [MyPty(t) EXCEPT
                        !.output = SubSeq(MyPty(t).output, k + 1, Len(MyPty(t).output))]]
    PROVE  ProcessTypeOK' /\ ReadInv'
<1> DEFINE id == call[t].id
           o == pty[id].output
           had == call[t].collected
           p == [pty[id] EXCEPT !.output = SubSeq(o, k + 1, Len(o))]
           c == [call[t] EXCEPT !.pc = "check", !.collected = had \o SubSeq(o, 1, k)]
<1>1. /\ id \in Spawned /\ pty[id] \in Pty /\ call[t] \in CallRecord
      /\ had \in Seq(Nat) /\ o \in Seq(Nat) /\ pty[id].reading /\ k \in 0 .. Len(o)
      /\ pty[id].delivered \in Seq(Nat) /\ pty[id].written \in Nat
  BY OnPtyTypes, PtyFields DEF InRead, ReadPC, OnPty, CallPC, MyPty, CallRecord, ReadInv,
                               ReaderFlagged
<1>2. /\ SubSeq(o, 1, k) \in Seq(Nat) /\ Len(SubSeq(o, 1, k)) = k
      /\ SubSeq(o, k + 1, Len(o)) \in Seq(Nat)
  BY <1>1, SplitSeq
<1>3. /\ p \in Pty /\ p.lost = pty[id].lost /\ p.written = pty[id].written
      /\ p.delivered = pty[id].delivered /\ p.output = SubSeq(o, k + 1, Len(o))
      /\ p.reading
  BY <1>1, <1>2 DEF Pty
<1>4. had \o SubSeq(o, 1, k) \in Seq(Nat) /\ Len(had \o SubSeq(o, 1, k)) = Len(had) + k
  BY <1>1, <1>2, ConcatProperties
<1>5. c \in CallRecord /\ c.pc = "check" /\ c.id = id /\ c.collected = had \o SubSeq(o, 1, k)
  BY <1>1, <1>4 DEF CallRecord, CallPC
<1>6. call' = [call EXCEPT ![t] = c] /\ pty' = [pty EXCEPT ![id] = p]
  BY DEF MyPty
<1>7. Kept(pty[id], had)
  BY <1>1 DEF ReadInv, StreamKept, Reads
<1>11. Stream(p, had \o SubSeq(o, 1, k)) = Stream(pty[id], had)
  <2>1. (pty[id].delivered \o (had \o SubSeq(o, 1, k))) \o SubSeq(o, k + 1, Len(o))
          = (pty[id].delivered \o had) \o o
    <3> DEFINE d == pty[id].delivered
    <3>1. d \in Seq(Nat) /\ had \in Seq(Nat) /\ o \in Seq(Nat) /\ k \in 0 .. Len(o)
      BY <1>1
    <3> HIDE DEF d, o, had
    <3>2. (d \o (had \o SubSeq(o, 1, k))) \o SubSeq(o, k + 1, Len(o)) = (d \o had) \o o
      BY ONLY <3>1, KeptTake
    <3> QED
      BY ONLY <3>2 DEF d
  <2>2. Stream(p, had \o SubSeq(o, 1, k))
          = (pty[id].delivered \o (had \o SubSeq(o, 1, k))) \o SubSeq(o, k + 1, Len(o))
    <3> HIDE DEF p, had
    <3> QED
      BY <1>3 DEF Stream
  <2>3. Stream(pty[id], had) = (pty[id].delivered \o had) \o o
    BY DEF Stream
  <2> QED
    BY <2>1, <2>2, <2>3
<1> HIDE DEF p, c
<1>8. ProcessTypeOK' /\ PtyBecomes(id, p) /\ CallBecomes(t, c)
  BY <1>1, <1>3, <1>5, <1>6, TypeStep
<1>9. Kept(p, c.collected)
  BY <1>3, <1>5, <1>7, <1>11, KeptSame
<1>10. c.pc \in ReadPC /\ Len(c.collected) < MaxRead
  BY <1>4, <1>5 DEF ReadPC
<1> QED
  BY <1>1, <1>3, <1>5, <1>8, <1>9, <1>10, ReaderAlone, ReaderStep

\* What a read takes has room, and is there to be taken.
LEMMA RoomFacts ==
    ASSUME NEW m \in Nat, NEW h \in Nat, h < m, NEW l \in Nat
    PROVE  LET k == IF l < m - h THEN l ELSE m - h
           IN  /\ m - h \in Nat \ {0} /\ k \in 0 .. l /\ (k # m - h => h + k < m)
               /\ (k = 0 => k # m - h)
OBVIOUS

\* The read itself: an error, the end, or what is there is delivered or collected.
LEMMA ReadTakeKeeps ==
    ASSUME ProcessTypeOK, ReadInv, NEW t \in Caller, ReadTake(t)
    PROVE  ProcessTypeOK' /\ ReadInv'
<1> DEFINE id == call[t].id
           o == pty[id].output
           had == call[t].collected
           room == MaxRead - Len(had)
           k == IF Len(o) < room THEN Len(o) ELSE room
           taken == SubSeq(o, 1, k)
<1>1. /\ call[t].pc = "take" /\ id \in Spawned /\ pty[id] \in Pty /\ call[t] \in CallRecord
      /\ InRead(t) /\ had \in Seq(Nat) /\ o \in Seq(Nat) /\ Len(had) < MaxRead
  <2>1. call[t].pc = "take" /\ InRead(t)
    BY DEF ReadTake, In, InRead, ReadPC
  <2>2. id \in Spawned /\ pty[id] \in Pty /\ call[t] \in CallRecord
    BY <2>1, OnPtyTypes DEF MyPty, OnPty, CallPC
  <2> QED
    BY <2>1, <2>2, PtyFields DEF CallRecord, ReadInv, ReaderFlagged
<1>2. k \in 0 .. Len(o) /\ (k # room => Len(had) + k < MaxRead)
  <2>1. Len(o) \in Nat /\ Len(had) \in Nat
    BY <1>1, LenProperties
  <2> QED
    BY <1>1, <2>1, RoomFacts, MaxReadPositive
<1>3. taken \in Seq(Nat) /\ Len(taken) = k
  BY <1>1, <1>2, SplitSeq
<1>4. \/ /\ taken = <<>> /\ had = <<>> /\ call' = [call EXCEPT ![t] = NoCall]
         /\ pty' = [pty EXCEPT ![id] = [pty[id] EXCEPT !.reading = FALSE, !.exited = TRUE]]
      \/ Deliver(t, had \o taken) \/ GiveUp(t)
      \/ /\ Len(taken) # room
         /\ call' = [call EXCEPT ![t] = [call[t] EXCEPT !.pc = "check", !.collected = had \o taken]]
         /\ pty' = [pty EXCEPT ![id] = [pty[id] EXCEPT !.output = SubSeq(o, Len(taken) + 1, Len(o))]]
  BY <1>1 DEF ReadTake, MyPty, Leaves, ProcessTypeOK
<1>5. CASE /\ taken = <<>> /\ had = <<>> /\ call' = [call EXCEPT ![t] = NoCall]
           /\ pty' = [pty EXCEPT ![id] = [pty[id] EXCEPT !.reading = FALSE, !.exited = TRUE]]
  <2> DEFINE p == [pty[id] EXCEPT !.reading = FALSE, !.exited = TRUE]
  <2>1. /\ p \in Pty /\ p.lost = pty[id].lost /\ p.written = pty[id].written
        /\ p.delivered = pty[id].delivered /\ p.output = pty[id].output
    BY <1>1 DEF Pty
  <2>2. pty' = [pty EXCEPT ![id] = p]
    BY <1>5
  <2> HIDE DEF p
  <2>3. ProcessTypeOK' /\ PtyBecomes(id, p) /\ CallBecomes(t, NoCall)
    BY <1>1, <1>5, <2>1, <2>2, TypeStep, NoCallIsCall, NoCallFields
  <2>4. Kept(p, <<>>)
    <3>1. Kept(pty[id], <<>>)
      BY <1>1, <1>5 DEF ReadInv, StreamKept, Reads
    <3>2. Stream(p, <<>>) = Stream(pty[id], <<>>)
      BY <2>1 DEF Stream
    <3> QED
      BY <2>1, <3>1, <3>2, KeptSame
  <2> QED
    BY <1>1, <2>1, <2>3, <2>4, ReaderAlone, ReaderStep, NoCallIsCall, NoCallFields
<1>6. CASE Deliver(t, had \o taken)
  <2> HIDE DEF k
  <2> QED
    BY <1>1, <1>2, <1>6, DeliverKeeps DEF MyPty
<1>7. CASE /\ Len(taken) # room
           /\ call' = [call EXCEPT ![t] = [call[t] EXCEPT !.pc = "check", !.collected = had \o taken]]
           /\ pty' = [pty EXCEPT ![id] = [pty[id] EXCEPT !.output = SubSeq(o, Len(taken) + 1, Len(o))]]
  <2>1. k # room /\ Len(taken) + 1 = k + 1
    BY <1>3, <1>7
  <2>2. /\ call' = [call EXCEPT ![t] = [call[t] EXCEPT !.pc = "check",
                                                       !.collected = had \o SubSeq(o, 1, k)]]
        /\ pty' = [pty EXCEPT ![id] = [pty[id] EXCEPT !.output = SubSeq(o, k + 1, Len(o))]]
    BY <1>7, <2>1
  <2> HIDE DEF k, room
  <2> QED
    BY <1>1, <1>2, <2>1, <2>2, GoRoundKeeps DEF MyPty
<1> QED
  BY <1>1, <1>4, <1>5, <1>6, <1>7, GiveUpKeeps

-----------------------------------------------------------------------------
(* The steps that are none of a read.                                      *)

\* What a reader asks of a terminal, and what has become of it, is as it was.
SameStream(p, q) ==
    /\ q.output = p.output /\ q.written = p.written /\ q.delivered = p.delivered
    /\ q.reading = p.reading /\ q.lost = p.lost

\* A call that reads nothing becomes another that reads nothing.
NoReadStep(t, c) ==
    /\ ~ InRead(t) /\ c \in CallRecord /\ c.pc \notin ReadPC /\ c.collected = <<>>
    /\ c.pc \in OnPty => c.id \in Spawned
    /\ call' = [call EXCEPT ![t] = c]

\* A step that leaves every stream and every read alone.
LEMMA QuietStep ==
    ASSUME ProcessTypeOK, ReadInv, pty' \in [Spawned -> Pty],
           \A i \in Spawned : SameStream(pty[i], pty'[i]),
           call' = call \/ \E t \in Caller : \E c : NoReadStep(t, c)
    PROVE  ProcessTypeOK' /\ ReadInv'
<1>1. Spawned' = Spawned
  BY DEF Spawned
<1>2. ProcessTypeOK'
  <2>1. CASE call' = call
    BY <1>1, <2>1 DEF ProcessTypeOK
  <2>2. CASE \E t \in Caller : \E c : NoReadStep(t, c)
    BY <1>1, <2>2 DEF ProcessTypeOK, NoReadStep
  <2> QED
    BY <2>1, <2>2
<1>3. \A t \in Caller : ~ InRead(t) => call[t].collected = <<>>
  BY DEF ReadInv, OnlyReadersCollect
<1>4. \A t \in Caller :
         /\ InRead(t)' <=> InRead(t)
         /\ InRead(t) => call'[t].id = call[t].id /\ call'[t].collected = call[t].collected
         /\ ~ InRead(t) => call'[t].collected = <<>>
  <2>1. CASE call' = call
    BY <1>3, <2>1 DEF InRead
  <2>2. ASSUME NEW t \in Caller, NEW c, NoReadStep(t, c)
        PROVE  \A u \in Caller :
                  /\ InRead(u)' <=> InRead(u)
                  /\ InRead(u) => /\ call'[u].id = call[u].id
                                  /\ call'[u].collected = call[u].collected
                  /\ ~ InRead(u) => call'[u].collected = <<>>
    <3>1. call'[t] = c /\ \A u \in Caller : u # t => call'[u] = call[u]
      BY <2>2 DEF NoReadStep, ProcessTypeOK
    <3> QED
      BY <1>3, <2>2, <3>1 DEF NoReadStep, InRead
  <2> QED
    BY <2>1, <2>2
<1>5. \A i \in Spawned :
         /\ pty'[i].output = pty[i].output /\ pty'[i].written = pty[i].written
         /\ pty'[i].delivered = pty[i].delivered /\ pty'[i].reading = pty[i].reading
         /\ pty'[i].lost = pty[i].lost
  BY DEF SameStream
<1> QED
  BY <1>1, <1>2, <1>4, <1>5, ReadFrame

\* A call just entered has collected nothing.
LEMMA EntersCall ==
    ASSUME NEW pc \in CallPC, NEW id \in GrantId \union {NoGrant}
    PROVE  [pc |-> pc, id |-> id, collected |-> <<>>] \in CallRecord
BY DEF CallRecord

\* A call that reads nothing is entered from idle.
LEMMA EnterCalls ==
    ASSUME ProcessTypeOK, NEW t \in Caller, NEW pc \in CallPC \ ReadPC,
           NEW id \in GrantId \union {NoGrant}, ~ InRead(t),
           pc \in OnPty => id \in Spawned, Enters(t, pc, id)
    PROVE  \E c : NoReadStep(t, c)
<1>1. NoReadStep(t, [pc |-> pc, id |-> id, collected |-> <<>>])
  BY EntersCall DEF NoReadStep, Enters
<1> QED
  BY <1>1

\* A call that reads nothing returns.
LEMMA LeaveCalls ==
    ASSUME NEW t \in Caller, ~ InRead(t), Leaves(t)
    PROVE  \E c : NoReadStep(t, c)
<1>1. NoReadStep(t, NoCall)
  BY NoCallIsCall, NoCallFields DEF NoReadStep, Leaves
<1> QED
  BY <1>1

\* A call that reads nothing goes on to something else that does not.
LEMMA MoveCalls ==
    ASSUME ProcessTypeOK, ReadInv, NEW t \in Caller, ~ InRead(t),
           NEW pc \in CallPC \ ReadPC, pc \in OnPty => call[t].pc \in OnPty, Moves(t, pc)
    PROVE  \E c : NoReadStep(t, c)
<1>1. call[t] \in CallRecord /\ call[t].collected = <<>>
  BY DEF ProcessTypeOK, ReadInv, OnlyReadersCollect
<1>2. pc \in OnPty => call[t].id \in Spawned
  BY DEF ProcessTypeOK
<1> DEFINE c == [call[t] EXCEPT !.pc = pc]
<1>3. c \in CallRecord /\ c.pc = pc /\ c.id = call[t].id /\ c.collected = <<>>
  BY <1>1 DEF CallRecord
<1>4. call' = [call EXCEPT ![t] = c]
  BY DEF Moves
<1> HIDE DEF c
<1>5. NoReadStep(t, c)
  BY <1>2, <1>3, <1>4 DEF NoReadStep
<1> QED
  BY <1>5

\* No terminal changes.
LEMMA SamePtys ==
    ASSUME ProcessTypeOK, UNCHANGED pty
    PROVE  pty' \in [Spawned -> Pty] /\ \A i \in Spawned : SameStream(pty[i], pty'[i])
BY DEF ProcessTypeOK, SameStream

\* One terminal changes, in what its reader does not ask for.
LEMMA OnePty ==
    ASSUME ProcessTypeOK, NEW id \in Spawned, NEW p \in Pty, SameStream(pty[id], p),
           pty' = [pty EXCEPT ![id] = p]
    PROVE  pty' \in [Spawned -> Pty] /\ \A i \in Spawned : SameStream(pty[i], pty'[i])
BY DEF ProcessTypeOK, SameStream

\* Spawning, until the terminal is there: a terminal seen to have ended is marked so.
LEMMA SpawnKeeps ==
    ASSUME ProcessTypeOK, ReadInv, NEW t \in Caller, NEW id,
           SpawnAccept(t, id) \/ SpawnCount(t) \/ SpawnRefused(t) \/ SpawnRecord(t)
    PROVE  ProcessTypeOK' /\ ReadInv'
<1>1. CASE SpawnAccept(t, id)
  <2>1. ~ InRead(t) /\ Enters(t, "accepted", NoGrant) /\ UNCHANGED pty
    BY <1>1 DEF SpawnAccept, In, InRead, ReadPC
  <2>2. "accepted" \in CallPC \ ReadPC /\ "accepted" \notin OnPty
    BY DEF CallPC, ReadPC, OnPty
  <2> QED
    BY <2>1, <2>2, EnterCalls, SamePtys, QuietStep
<1>2. CASE SpawnCount(t)
  <2>1. ~ InRead(t)
    BY <1>2 DEF SpawnCount, In, InRead, ReadPC
  <2>2. Leaves(t) \/ Moves(t, "counted")
    BY <1>2 DEF SpawnCount
  <2>3. "counted" \in CallPC \ ReadPC /\ "counted" \notin OnPty
    BY DEF CallPC, ReadPC, OnPty
  <2>4. \E c : NoReadStep(t, c)
    BY <2>1, <2>2, <2>3, LeaveCalls, MoveCalls
  <2>5. \A p \in Pty : /\ [p EXCEPT !.exited = ~ p.alive] \in Pty
                      /\ SameStream(p, [p EXCEPT !.exited = ~ p.alive])
                      /\ SameStream(p, p)
    BY DEF Pty, SameStream
  <2>6. \A i \in Spawned : pty[i] \in Pty
    BY DEF ProcessTypeOK
  <2>7. /\ pty' \in [Spawned -> Pty]
        /\ \A i \in Spawned : SameStream(pty[i], pty'[i])
    BY <1>2, <2>5, <2>6 DEF SpawnCount
  <2> QED
    BY <2>4, <2>7, QuietStep
<1>3. CASE SpawnRefused(t) \/ SpawnRecord(t)
  <2>1. ~ InRead(t) /\ Leaves(t) /\ UNCHANGED pty
    BY <1>3 DEF SpawnRefused, SpawnRecord, In, InRead, ReadPC
  <2> QED
    BY <2>1, LeaveCalls, SamePtys, QuietStep
<1> QED
  BY <1>1, <1>2, <1>3

\* A handle is looked up, written to, cancelled or dropped.
LEMMA EnterKeeps ==
    ASSUME ProcessTypeOK, ReadInv, NEW t \in Caller, NEW id \in GrantId,
           \/ ReadLookup(t, id) \/ WriteBegin(t, id)
           \/ CancelProcess(t, id) \/ DropPty(t, id)
    PROVE  ProcessTypeOK' /\ ReadInv'
<1>1. ~ InRead(t) /\ id \in Spawned /\ pty[id] \in Pty
  BY DEF ReadLookup, WriteBegin, CancelProcess, DropPty, Usable, Returned, In, InRead,
         ReadPC, ProcessTypeOK
<1>2. \E pc \in {"looked up", "lock", "kill", "dropped"} : Enters(t, pc, id)
  BY DEF ReadLookup, WriteBegin, CancelProcess, DropPty
<1>3. {"looked up", "lock", "kill", "dropped"} \subseteq CallPC \ ReadPC
  BY DEF CallPC, ReadPC
<1>4. \E c : NoReadStep(t, c)
  BY <1>1, <1>2, <1>3, EnterCalls
<1>5. /\ [pty[id] EXCEPT !.canceled = TRUE] \in Pty
      /\ SameStream(pty[id], [pty[id] EXCEPT !.canceled = TRUE])
      /\ [pty[id] EXCEPT !.stored = FALSE] \in Pty
      /\ SameStream(pty[id], [pty[id] EXCEPT !.stored = FALSE])
  BY <1>1 DEF Pty, SameStream
<1>6. \/ UNCHANGED pty
      \/ pty' = [pty EXCEPT ![id] = [pty[id] EXCEPT !.canceled = TRUE]]
      \/ pty' = [pty EXCEPT ![id] = [pty[id] EXCEPT !.stored = FALSE]]
  BY DEF ReadLookup, WriteBegin, CancelProcess, DropPty
<1>7. pty' \in [Spawned -> Pty] /\ \A i \in Spawned : SameStream(pty[i], pty'[i])
  BY <1>1, <1>5, <1>6, OnePty, SamePtys
<1> QED
  BY <1>4, <1>7, QuietStep

\* What the shell has to read is nothing a reader asks for.
LEMMA InputStep ==
    ASSUME NEW p \in Pty, NEW n \in Nat
    PROVE  /\ [p EXCEPT !.input = n] \in Pty
           /\ SameStream(p, [p EXCEPT !.input = n])
           /\ [p EXCEPT !.master = NoCaller, !.input = n] \in Pty
           /\ SameStream(p, [p EXCEPT !.master = NoCaller, !.input = n])
BY DEF Pty, SameStream

\* A write begins or ends, a shell is killed, a dropped terminal is cancelled.
LEMMA LeaveKeeps ==
    ASSUME ProcessTypeOK, ReadInv, NEW t \in Caller,
           WriteLock(t) \/ WriteFails(t) \/ WriteEnd(t) \/ Kill(t) \/ DropCancel(t)
    PROVE  ProcessTypeOK' /\ ReadInv'
<1> DEFINE id == call[t].id
           q == [pty[id] EXCEPT !.master = NoCaller,
                                !.input = IF pty[id].alive THEN @ + 1 ELSE @]
<1>1. /\ ~ InRead(t) /\ call[t].pc \in OnPty /\ id \in Spawned /\ pty[id] \in Pty
  <2>1. ~ InRead(t) /\ call[t].pc \in OnPty
    BY DEF WriteLock, WriteFails, WriteEnd, Kill, DropCancel, In, InRead, ReadPC, OnPty, CallPC
  <2> QED
    BY <2>1, OnPtyTypes DEF MyPty
<1>2. Leaves(t) \/ Moves(t, "kill") \/ Moves(t, "write")
  BY DEF WriteLock, WriteFails, WriteEnd, Kill, DropCancel
<1>3. "kill" \in CallPC \ ReadPC /\ "write" \in CallPC \ ReadPC
  BY DEF CallPC, ReadPC
<1>4. \E c : NoReadStep(t, c)
  BY <1>1, <1>2, <1>3, LeaveCalls, MoveCalls
<1>5. /\ [pty[id] EXCEPT !.alive = FALSE] \in Pty
      /\ SameStream(pty[id], [pty[id] EXCEPT !.alive = FALSE])
      /\ [pty[id] EXCEPT !.canceled = TRUE] \in Pty
      /\ SameStream(pty[id], [pty[id] EXCEPT !.canceled = TRUE])
      /\ \A m \in Caller \union {NoCaller} :
            /\ [pty[id] EXCEPT !.master = m] \in Pty
            /\ SameStream(pty[id], [pty[id] EXCEPT !.master = m])
  BY <1>1 DEF Pty, SameStream
<1>6. q \in Pty /\ SameStream(pty[id], q)
  <2> DEFINE n == IF pty[id].alive THEN pty[id].input + 1 ELSE pty[id].input
  <2>1. n \in Nat
    BY <1>1, PtyFields
  <2>2. q = [pty[id] EXCEPT !.master = NoCaller, !.input = n]
    OBVIOUS
  <2> HIDE DEF n, q
  <2> QED
    BY <1>1, <2>1, <2>2, InputStep
<1>7. \/ pty' = [pty EXCEPT ![id] = q]
      \/ pty' = [pty EXCEPT ![id] = [pty[id] EXCEPT !.alive = FALSE]]
      \/ pty' = [pty EXCEPT ![id] = [pty[id] EXCEPT !.canceled = TRUE]]
      \/ \E m \in Caller \union {NoCaller} :
            pty' = [pty EXCEPT ![id] = [pty[id] EXCEPT !.master = m]]
  BY DEF WriteLock, WriteFails, WriteEnd, Kill, DropCancel, MyPty
<1> HIDE DEF q
<1>8. pty' \in [Spawned -> Pty] /\ \A i \in Spawned : SameStream(pty[i], pty'[i])
  BY <1>1, <1>5, <1>6, <1>7, OnePty
<1> QED
  BY <1>4, <1>8, QuietStep

\* The shell reads what was written to it, or goes.
LEMMA ShellKeeps ==
    ASSUME ProcessTypeOK, ReadInv, NEW id \in GrantId, ShellReads(id) \/ ShellExits(id)
    PROVE  ProcessTypeOK' /\ ReadInv'
<1>1. id \in Spawned /\ pty[id] \in Pty /\ call' = call
  BY DEF ShellReads, ShellExits, ProcessTypeOK
<1>2. CASE ShellReads(id)
  <2> DEFINE q == [pty[id] EXCEPT !.input = @ - 1]
  <2>1. pty[id].input \in Nat /\ pty[id].input > 0
    BY <1>1, <1>2, PtyFields DEF ShellReads
  <2>2. q \in Pty /\ SameStream(pty[id], q)
    <3>1. pty[id].input - 1 \in Nat
      BY <2>1
    <3> QED
      BY <1>1, <3>1, InputStep
  <2>3. pty' = [pty EXCEPT ![id] = q]
    BY <1>2 DEF ShellReads
  <2> HIDE DEF q
  <2> QED
    BY <1>1, <2>2, <2>3, OnePty, QuietStep
<1>3. CASE ShellExits(id)
  <2> DEFINE q == [pty[id] EXCEPT !.alive = FALSE]
  <2>1. q \in Pty /\ SameStream(pty[id], q)
    BY <1>1 DEF Pty, SameStream
  <2>2. pty' = [pty EXCEPT ![id] = q]
    BY <1>3 DEF ShellExits
  <2> HIDE DEF q
  <2> QED
    BY <1>1, <2>1, <2>2, OnePty, QuietStep
<1> QED
  BY <1>2, <1>3

\* The shell writes one chunk more, at the end of what the terminal holds.
LEMMA ShellWritesKeeps ==
    ASSUME ProcessTypeOK, ReadInv, NEW id \in GrantId, ShellWrites(id)
    PROVE  ProcessTypeOK' /\ ReadInv'
<1> DEFINE n == pty[id].written
           o == pty[id].output
           q == [pty[id] EXCEPT !.written = n + 1, !.output = Append(o, n + 1)]
<1>1. /\ id \in Spawned /\ pty[id] \in Pty /\ call' = call
      /\ pty' = [pty EXCEPT ![id] = q]
  BY DEF ShellWrites, ProcessTypeOK
<1>2. n \in Nat /\ o \in Seq(Nat) /\ pty[id].delivered \in Seq(Nat)
  BY <1>1, PtyFields
<1>3. Append(o, n + 1) \in Seq(Nat) /\ n + 1 \in Nat
  BY <1>2, AppendProperties
<1>4. /\ q \in Pty /\ q.written = n + 1 /\ q.output = Append(o, n + 1)
      /\ q.delivered = pty[id].delivered /\ q.reading = pty[id].reading
      /\ q.lost = pty[id].lost
  BY <1>1, <1>3 DEF Pty
<1> HIDE DEF q
<1>5. /\ Spawned' = Spawned /\ pty'[id] = q
      /\ \A i \in Spawned : i # id => pty'[i] = pty[i]
  BY <1>1 DEF ProcessTypeOK, Spawned
<1>6. ProcessTypeOK'
  BY <1>1, <1>4, <1>5 DEF ProcessTypeOK, Spawned
<1>7. \A u \in Caller : InRead(u) => call[u].id \in Spawned
  BY DEF ProcessTypeOK, OnPty, ReadPC, CallPC, InRead
<1>8. OneReader' /\ OnlyReadersCollect'
  BY <1>1 DEF ReadInv, OneReader, OnlyReadersCollect, InRead
<1>9. ReaderFlagged'
  BY <1>1, <1>4, <1>5, <1>7 DEF ReadInv, ReaderFlagged, MyPty, InRead
<1>10. \A c \in Seq(Nat) : Kept(pty[id], c) => Kept(q, c)
  BY <1>1, <1>4, KeptAppend
<1>11. <<>> \in Seq(Nat) /\ \A u \in Caller : call[u].collected \in Seq(Nat)
  BY EmptySeq DEF ProcessTypeOK, CallRecord
<1>12. \A u \in Caller : \A i : Reads(u, i)' <=> Reads(u, i)
  BY <1>1 DEF Reads, InRead
<1>13. ASSUME NEW i \in Spawned'
       PROVE  /\ \A u \in Caller : Reads(u, i)' => Kept(pty'[i], call'[u].collected)
              /\ (\A u \in Caller : ~ Reads(u, i)') => Kept(pty'[i], <<>>)
  <2>1. /\ \A u \in Caller : Reads(u, i) => Kept(pty[i], call[u].collected)
        /\ (\A u \in Caller : ~ Reads(u, i)) => Kept(pty[i], <<>>)
    BY <1>5 DEF ReadInv, StreamKept
  <2>2. CASE i = id
    BY <1>1, <1>5, <1>10, <1>11, <1>12, <2>1, <2>2
  <2>3. CASE i # id
    BY <1>1, <1>5, <1>12, <1>13, <2>1, <2>3
  <2> QED
    BY <2>2, <2>3
<1>14. StreamKept'
  BY <1>13 DEF StreamKept
<1> QED
  BY <1>6, <1>8, <1>9, <1>14 DEF ReadInv

\* A terminal just spawned has written nothing, and nobody reads it.
LEMMA NewPtyKept == Kept(NewPty, <<>>) /\ ~ NewPty.reading
<1>1. <<>> \in Seq(Nat) /\ Len(<<>>) = 0 /\ DOMAIN <<>> = {}
  BY EmptySeq
<1>2. /\ NewPty.delivered = <<>> /\ NewPty.output = <<>> /\ NewPty.written = 0
      /\ NewPty.lost = {} /\ ~ NewPty.reading
  BY DEF NewPty
<1>3. Stream(NewPty, <<>>) = <<>>
  BY <1>1, <1>2, ConcatEmptySeq DEF Stream
<1>4. Chunks(<<>>) = {} /\ Lost(NewPty) = {} /\ Rising(<<>>)
  BY <1>1, <1>2 DEF Chunks, Lost, Rising
<1> QED
  BY <1>2, <1>3, <1>4 DEF Kept

\* The terminal is there, under a number that was never given out.
LEMMA SpawnInsertKeeps ==
    ASSUME ProcessTypeOK, ReadInv, NEW t \in Caller, NEW id \in GrantId,
           Spawned \subseteq issued, SpawnInsert(t, id)
    PROVE  ProcessTypeOK' /\ ReadInv'
<1> DEFINE c == [pc |-> "inserted", id |-> id, collected |-> <<>>]
<1>1. /\ id \notin Spawned /\ Spawned' = Spawned \union {id} /\ pty'[id] = NewPty
      /\ \A i \in Spawned : pty'[i] = pty[i]
      /\ pty' \in [Spawned' -> Pty] /\ ~ InRead(t)
  BY NewPtyIsPty DEF SpawnInsert, Fresh, Spawned, In, InRead, ReadPC, ProcessTypeOK
<1>2. c \in CallRecord /\ c.pc \notin ReadPC /\ c.id = id /\ c.collected = <<>>
  BY EntersCall DEF CallPC, ReadPC
<1>3. call' = [call EXCEPT ![t] = c]
  BY DEF SpawnInsert, Enters
<1> HIDE DEF c
<1>4. call'[t] = c /\ \A u \in Caller : u # t => call'[u] = call[u]
  BY <1>3 DEF ProcessTypeOK
<1>5. ProcessTypeOK'
  BY <1>1, <1>2, <1>3, <1>4 DEF ProcessTypeOK
<1>6. \A u \in Caller : /\ InRead(u)' <=> InRead(u)
                        /\ InRead(u) => call'[u] = call[u] /\ call[u].id \in Spawned
  BY <1>1, <1>2, <1>4 DEF InRead, ProcessTypeOK, OnPty, ReadPC, CallPC
<1>7. OneReader'
  BY <1>6 DEF ReadInv, OneReader
<1>8. ReaderFlagged'
  BY <1>1, <1>6 DEF ReadInv, ReaderFlagged, MyPty
<1>9. OnlyReadersCollect'
  BY <1>2, <1>4, <1>6 DEF ReadInv, OnlyReadersCollect
<1>10. ASSUME NEW i \in Spawned'
       PROVE  /\ \A u \in Caller : Reads(u, i)' => Kept(pty'[i], call'[u].collected)
              /\ (\A u \in Caller : ~ Reads(u, i)') => Kept(pty'[i], <<>>)
  <2>1. CASE i = id
    <3>1. \A u \in Caller : ~ Reads(u, i)'
      BY <1>1, <1>6, <2>1 DEF Reads
    <3> QED
      BY <1>1, <2>1, <3>1, NewPtyKept
  <2>2. CASE i # id
    <3>1. i \in Spawned /\ pty'[i] = pty[i]
      BY <1>1, <2>2
    <3>2. \A u \in Caller : Reads(u, i)' <=> Reads(u, i)
      BY <1>6 DEF Reads
    <3> QED
      BY <1>6, <3>1, <3>2 DEF ReadInv, StreamKept, Reads
  <2> QED
    BY <2>1, <2>2
<1>11. StreamKept'
  BY <1>10 DEF StreamKept
<1> QED
  BY <1>5, <1>7, <1>8, <1>9, <1>11 DEF ReadInv

-----------------------------------------------------------------------------

\* A terminal is only there under a number that was given out.
PtysIssued == Spawned \subseteq issued

ProcessInv == ProcessTypeOK /\ ReadInv /\ PtysIssued

\* There are no terminals at the start, and no calls.
LEMMA InitialProcess == ProcessInit => ProcessInv
<1> SUFFICES ASSUME ProcessInit PROVE ProcessInv
  OBVIOUS
<1>1. Spawned = {} /\ call = [t \in Caller |-> NoCall]
  BY DEF ProcessInit, Spawned
<1>2. ProcessTypeOK
  BY <1>1, NoCallIsCall, NoCallFields DEF ProcessTypeOK, ProcessInit, Spawned
<1>3. \A t \in Caller : ~ InRead(t) /\ call[t].collected = <<>>
  BY <1>1, NoCallFields DEF InRead
<1>4. ReadInv
  BY <1>1, <1>3 DEF ReadInv, OneReader, ReaderFlagged, OnlyReadersCollect, StreamKept
<1> QED
  BY <1>1, <1>2, <1>4 DEF ProcessInv, PtysIssued

\* The disjuncts of the next-state relation, by name.
LEMMA ProcessSteps ==
    ASSUME ProcessNext
    PROVE  \/ \E id \in GrantId : AcquireProcess(id) \/ ReleaseProfile(id) \/ WithdrawProcess(id)
           \/ \E id \in GrantId : ShellWrites(id)
           \/ \E id \in GrantId : ShellReads(id) \/ ShellExits(id)
           \/ \E id \in GrantId, t \in Caller : SpawnAccept(t, id)
           \/ \E t \in Caller : SpawnCount(t) \/ SpawnRefused(t) \/ SpawnRecord(t)
           \/ \E id \in GrantId, t \in Caller : SpawnInsert(t, id)
           \/ \E id \in GrantId, t \in Caller :
                 \/ ReadLookup(t, id) \/ WriteBegin(t, id)
                 \/ CancelProcess(t, id) \/ DropPty(t, id)
           \/ \E t \in Caller :
                 WriteLock(t) \/ WriteFails(t) \/ WriteEnd(t) \/ Kill(t) \/ DropCancel(t)
           \/ \E t \in Caller : ReadEnter(t)
           \/ \E t \in Caller : ReadCheck(t)
           \/ \E t \in Caller : ReadPoll(t)
           \/ \E t \in Caller : ReadTake(t)
BY DEF ProcessNext, CallStep, ReadStep

\* The registry's own steps touch no terminal, and no step takes a number back.
LEMMA ProcessFrame ==
    ASSUME ProcessNext
    PROVE  issued \subseteq issued'
BY ProcessSteps
   DEF AcquireProcess, Acquire, ReleaseProfile, WithdrawProcess, ShellWrites, ShellReads,
       ShellExits, SpawnAccept, Accept, SpawnCount, SpawnRefused, SpawnRecord, SpawnInsert,
       ReadLookup, WriteBegin, CancelProcess, DropPty, WriteLock, WriteFails, WriteEnd, Kill,
       DropCancel, ReadEnter, ReadCheck, ReadPoll, ReadTake, grantVars

\* No call and no shell, in whatever order they run, disturbs the invariant.
LEMMA ProcessStepKeeps ==
    ASSUME ProcessInv, [ProcessNext]_processVars
    PROVE  ProcessInv'
<1> USE DEF ProcessInv
<1>1. CASE UNCHANGED <<pty, call>> /\ issued \subseteq issued'
  BY <1>1 DEF ProcessTypeOK, ReadInv, OneReader, ReaderFlagged, OnlyReadersCollect, StreamKept,
              InRead, Reads, MyPty, Spawned, PtysIssued
<1>2. CASE ProcessNext /\ ~ UNCHANGED <<pty, call>>
  <2>1. ProcessTypeOK' /\ ReadInv'
    <3>1. \A id \in GrantId :
             ~ (AcquireProcess(id) \/ ReleaseProfile(id) \/ WithdrawProcess(id))
      BY <1>2 DEF AcquireProcess, ReleaseProfile, WithdrawProcess
    <3> QED
      BY <1>2, <3>1, ProcessSteps, ShellWritesKeeps, ShellKeeps, SpawnKeeps, SpawnInsertKeeps,
         EnterKeeps, LeaveKeeps, ReadEnterKeeps, ReadCheckKeeps, ReadPollKeeps, ReadTakeKeeps
         DEF PtysIssued
  <2>2. PtysIssued'
    <3>1. CASE \E id \in GrantId, t \in Caller : SpawnInsert(t, id)
      BY <3>1 DEF PtysIssued, SpawnInsert, Spawned
    <3>2. CASE \A id \in GrantId, t \in Caller : ~ SpawnInsert(t, id)
      <4>1. Spawned' = Spawned
        BY <1>2, <3>2, ProcessSteps
           DEF ProcessTypeOK, Spawned, AcquireProcess, ReleaseProfile, WithdrawProcess,
               ShellWrites, ShellReads, ShellExits, SpawnAccept, SpawnCount, SpawnRefused,
               SpawnRecord, ReadLookup, WriteBegin, CancelProcess, DropPty, WriteLock,
               WriteFails, WriteEnd, Kill, DropCancel, ReadEnter, ReadCheck, ReadPoll, ReadTake,
               Deliver, GiveUp
      <4> QED
        BY <1>2, <4>1, ProcessFrame DEF PtysIssued
    <3> QED
      BY <3>1, <3>2
  <2> QED
    BY <2>1, <2>2
<1>3. CASE UNCHANGED processVars
  BY <1>1, <1>3 DEF processVars, grantVars
<1> QED
  BY <1>1, <1>2, <1>3, ProcessFrame

\* At any time a terminal has one reader, who has what was taken out of it and no
\* read has delivered or given up.
THEOREM ProcessInductive == ProcessSpec => []ProcessInv
<1>1. ProcessInit => ProcessInv
  BY InitialProcess
<1>2. ProcessInv /\ [ProcessNext]_processVars => ProcessInv'
  BY ProcessStepKeeps
<1> QED
  BY <1>1, <1>2, PTL DEF ProcessSpec

\* What the properties call collected is what the terminal's reader has.
LEMMA CollectedByReader ==
    ASSUME ProcessTypeOK, ReadInv, NEW id \in Spawned
    PROVE  Kept(pty[id], IF Collected(id) = {} THEN <<>> ELSE CHOOSE c \in Collected(id) : TRUE)
<1>1. \A c \in Collected(id) : \E t \in Caller : Reads(t, id) /\ c = call[t].collected
  BY DEF Collected, ReadInv, OnlyReadersCollect, Reads
<1>2. CASE \E t \in Caller : Reads(t, id)
  <2> PICK t \in Caller : Reads(t, id)
    BY <1>2
  <2>1. Collected(id) \subseteq {call[t].collected}
    BY <1>1 DEF ReadInv, OneReader, Reads
  <2>2. Kept(pty[id], call[t].collected)
    BY DEF ReadInv, StreamKept
  <2>3. CASE Collected(id) = {}
    <3>1. call[t].collected = <<>>
      BY <2>3 DEF Collected, Reads
    <3> QED
      BY <2>2, <2>3, <3>1
  <2>4. CASE Collected(id) # {}
    <3>1. Collected(id) = {call[t].collected}
      BY <2>1, <2>4
    <3>2. (CHOOSE c \in Collected(id) : TRUE) = call[t].collected
      BY <3>1
    <3> QED
      BY <2>2, <2>4, <3>2
  <2> QED
    BY <2>3, <2>4
<1>3. CASE \A t \in Caller : ~ Reads(t, id)
  <2>1. Collected(id) = {}
    BY <1>1, <1>3
  <2> QED
    BY <1>3, <2>1 DEF ReadInv, StreamKept
<1> QED
  BY <1>2, <1>3

\* read, wait_readable and the shell: what the shell wrote is delivered once and in
\* order, but for what reads held that ended with an error or were cancelled.
THEOREM OutputKeptHolds == ProcessSpec => []OutputKept
<1>1. ProcessInv => OutputKept
  BY CollectedByReader DEF ProcessInv, OutputKept, Kept, Stream
<1> QED
  BY <1>1, ProcessInductive, PTL

-----------------------------------------------------------------------------
(* The registry under the calls.  The number of a terminal is given out    *)
(* before its grant is recorded, so that the record is made under a number *)
(* that is no longer fresh: nothing may descend from it by then.           *)

Deriving == {"accepted", "counted", "inserted"}

CopyHeld == \A t \in Caller : call[t].pc \in Deriving => copy[t] # NoGrant
HandleUnrooted ==
    \A t \in Caller : In(t, "inserted") => call[t].id \in issued /\ Unrooted(call[t].id)

SpawnInv == RegistryInv /\ CopyHeld /\ HandleUnrooted

\* A step that makes no number given out before a root, and inserts no terminal.
LEMMA HandlesStay ==
    ASSUME HandleUnrooted, issued \subseteq issued',
           \A id \in issued : Unrooted(id) => Unrooted(id)',
           \A t \in Caller : In(t, "inserted")' => In(t, "inserted") /\ call'[t].id = call[t].id
    PROVE  HandleUnrooted'
BY DEF HandleUnrooted

\* A step of the registry that records nothing new, while no call derives more
\* than before.
LEMMA RecordsShrink ==
    ASSUME SpawnInv, RegistryInv', UNCHANGED <<issued, copy>>,
           \A i \in GrantId : Recorded(i)' => Recorded(i) /\ grants'[i].root = grants[i].root,
           \A t \in Caller : call'[t].pc \in Deriving => call'[t] = call[t]
    PROVE  SpawnInv'
<1>1. CopyHeld'
  BY DEF SpawnInv, CopyHeld
<1>2. \A id \in issued : Unrooted(id) => Unrooted(id)'
  BY DEF Unrooted
<1>3. HandleUnrooted'
  BY <1>2, HandlesStay DEF SpawnInv, In, Deriving
<1> QED
  BY <1>1, <1>3 DEF SpawnInv

\* A step that leaves the registry alone, and derives nothing.
LEMMA RegistryAlone ==
    ASSUME SpawnInv, UNCHANGED grantVars,
           \A t \in Caller : call'[t].pc \in Deriving => call'[t] = call[t]
    PROVE  SpawnInv'
<1>1. RegistryInv'
  BY RegistryFrame DEF SpawnInv, grantVars, RegistryInv, GrantsTypeOK
<1> QED
  BY <1>1, RecordsShrink DEF grantVars, registryVars, Recorded

\* What one call's step does to the others.
LEMMA OthersCalls ==
    ASSUME ProcessTypeOK, NEW t \in Caller
    PROVE  /\ Leaves(t) => \A u \in Caller : call'[u].pc \in Deriving => call'[u] = call[u]
           /\ \A pc \in CallPC : \A id :
                 Enters(t, pc, id) => /\ call'[t].pc = pc /\ call'[t].id = id
                                      /\ \A u \in Caller : u # t => call'[u] = call[u]
           /\ \A pc \in CallPC :
                 Moves(t, pc) => /\ call'[t].pc = pc /\ call'[t].id = call[t].id
                                 /\ \A u \in Caller : u # t => call'[u] = call[u]
<1>1. Leaves(t) => \A u \in Caller : call'[u].pc \in Deriving => call'[u] = call[u]
  BY DEF ProcessTypeOK, Leaves, NoCall, Deriving
<1>2. ASSUME NEW pc \in CallPC, NEW id, Enters(t, pc, id)
      PROVE  /\ call'[t].pc = pc /\ call'[t].id = id
             /\ \A u \in Caller : u # t => call'[u] = call[u]
  BY <1>2 DEF ProcessTypeOK, Enters
<1>3. ASSUME NEW pc \in CallPC, Moves(t, pc)
      PROVE  /\ call'[t].pc = pc /\ call'[t].id = call[t].id
             /\ \A u \in Caller : u # t => call'[u] = call[u]
  <2>1. call[t] \in CallRecord
    BY DEF ProcessTypeOK
  <2> QED
    BY <1>3, <2>1 DEF ProcessTypeOK, Moves, CallRecord
<1> QED
  BY <1>1, <1>2, <1>3

\* The threads that call are clients of the registry.
LEMMA CallersAreClients == \A t \in Caller : t \in Client
BY ProcessAssumption

\* acquire, the release of a profile or a terminal, and a withdrawal.
LEMMA RegistryStepsKeep ==
    ASSUME ProcessTypeOK, SpawnInv, NEW id \in GrantId,
           \/ AcquireProcess(id) \/ ReleaseProfile(id) \/ WithdrawProcess(id)
           \/ \E t \in Caller : DropPty(t, id)
    PROVE  SpawnInv'
<1> USE DEF SpawnInv
<1>1. CASE AcquireProcess(id)
  <2>1. RegistryInv'
    BY <1>1, AcquireKeeps DEF AcquireProcess, Origin
  <2>2. /\ id \notin issued /\ issued' = issued \union {id} /\ UNCHANGED <<copy, call>>
        /\ \A i \in GrantId : i # id => grants'[i] = grants[i]
        /\ grants'[id].root = id
    BY <1>1 DEF AcquireProcess, Acquire, RecordRoot, Fresh, RegistryInv, GrantsTypeOK
  <2>3. \A j \in issued : Unrooted(j) => Unrooted(j)'
    BY <2>2 DEF Unrooted, Recorded
  <2>4. HandleUnrooted'
    BY <2>2, <2>3, HandlesStay DEF In
  <2> QED
    BY <2>1, <2>2, <2>4 DEF CopyHeld
<1>2. CASE ReleaseProfile(id) \/ \E t \in Caller : DropPty(t, id)
  <2>1. Release(id) /\ UNCHANGED <<issued, copy>>
    BY <1>2 DEF ReleaseProfile, DropPty
  <2>2. RegistryInv'
    BY <2>1, ReleaseKeeps
  <2>3. \A i \in GrantId : Recorded(i)' => Recorded(i) /\ grants'[i].root = grants[i].root
    BY <2>1 DEF Release, RegistryInv, GrantsTypeOK, Recorded
  <2>4. \A u \in Caller : call'[u].pc \in Deriving => call'[u] = call[u]
    <3>1. CASE call' = call
      BY <3>1
    <3>2. ASSUME NEW t \in Caller, Enters(t, "dropped", id)
          PROVE  \A u \in Caller : call'[u].pc \in Deriving => call'[u] = call[u]
      BY <3>2, OthersCalls DEF CallPC, Deriving
    <3> QED
      BY <1>2, <3>1, <3>2 DEF ReleaseProfile, DropPty
  <2> QED
    BY <2>1, <2>2, <2>3, <2>4, RecordsShrink
<1>3. CASE WithdrawProcess(id)
  <2>1. /\ Recorded(id) /\ Revoke(id) /\ UNCHANGED <<issued, copy, call>>
        /\ grants' = Flagged({grants[id].root})
    BY <1>3 DEF WithdrawProcess, Revoke
  <2>2. RegistryInv'
    BY <2>1, RevokeKeeps
  <2>3. \A i \in GrantId : Recorded(i) => grants[i] \in Grant
    BY DEF RegistryInv, GrantsTypeOK, Recorded
  <2>4. \A i \in GrantId : Recorded(i)' => Recorded(i) /\ grants'[i].root = grants[i].root
    BY <2>1, <2>3 DEF Flagged, Recorded, Grant
  <2> QED
    BY <2>1, <2>2, <2>4, RecordsShrink
<1> QED
  BY <1>1, <1>2, <1>3

\* grant_profile: the copy is of a recorded grant, whose root is in use.
LEMMA SpawnAcceptKeeps ==
    ASSUME ProcessTypeOK, SpawnInv, NEW t \in Caller, NEW id \in GrantId, SpawnAccept(t, id)
    PROVE  SpawnInv'
<1> USE DEF SpawnInv
<1>1. RegistryInv'
  BY AcceptKeeps, CallersAreClients DEF SpawnAccept
<1>2. /\ Recorded(id) /\ UNCHANGED <<grants, issued>>
      /\ copy' = [copy EXCEPT ![t] = grants[id]]
  BY DEF SpawnAccept, Accept, Accepted, registryVars
<1>3. \A c \in Client : copy'[c] = IF c = t THEN grants[id] ELSE copy[c]
  BY <1>2 DEF RegistryInv, GrantsTypeOK
<1>4. /\ call'[t].pc = "accepted"
      /\ \A u \in Caller : u # t => call'[u] = call[u]
  BY OthersCalls DEF SpawnAccept, CallPC
<1>5. CopyHeld'
  BY <1>2, <1>3, <1>4, CallersAreClients DEF CopyHeld, Recorded
<1>6. \A i \in issued : Unrooted(i) => Unrooted(i)'
  BY <1>2, <1>3 DEF Unrooted, Recorded
<1>7. HandleUnrooted'
  BY <1>2, <1>4, <1>6, HandlesStay DEF In
<1> QED
  BY <1>1, <1>5, <1>7

\* A spawn that goes on, or is given up with its copy.
LEMMA SpawnGoesOnKeeps ==
    ASSUME ProcessTypeOK, SpawnInv, NEW t \in Caller, SpawnCount(t) \/ SpawnRefused(t)
    PROVE  SpawnInv'
<1> USE DEF SpawnInv
<1>1. /\ UNCHANGED <<registryVars, issued>>
      /\ call[t].pc \in Deriving
      /\ \/ Leaves(t) /\ copy' = [copy EXCEPT ![t] = NoGrant]
         \/ Moves(t, "counted") /\ UNCHANGED copy
  BY DEF SpawnCount, SpawnRefused, In, Deriving
<1>2. /\ copy' \in [Client -> Grant \union {NoGrant}]
      /\ \A c \in Client : /\ copy'[c] \in {copy[c], NoGrant}
                           /\ c # t => copy'[c] = copy[c]
  BY <1>1, CallersAreClients DEF RegistryInv, GrantsTypeOK
<1>3. RegistryInv'
  BY <1>1, <1>2, RegistryFrame DEF RegistryInv, GrantsTypeOK
<1>4. CopyHeld'
  <2>1. CASE Leaves(t) /\ copy' = [copy EXCEPT ![t] = NoGrant]
    <3>1. call'[t].pc \notin Deriving /\ \A u \in Caller : u # t => call'[u] = call[u]
      BY <2>1 DEF Leaves, NoCall, Deriving, ProcessTypeOK
    <3> QED
      BY <1>2, <3>1, CallersAreClients DEF CopyHeld
  <2>2. CASE Moves(t, "counted") /\ UNCHANGED copy
    <3>1. \A u \in Caller : u # t => call'[u] = call[u]
      BY <2>2, OthersCalls DEF CallPC
    <3> QED
      BY <1>1, <2>2, <3>1 DEF CopyHeld
  <2> QED
    BY <1>1, <2>1, <2>2
<1>5. \A id \in issued : Unrooted(id) => Unrooted(id)'
  BY <1>1, <1>2 DEF Unrooted, Recorded, registryVars
<1>6. \A u \in Caller : In(u, "inserted")' => In(u, "inserted") /\ call'[u].id = call[u].id
  BY <1>1, OthersCalls DEF In, CallPC, Deriving
<1>7. HandleUnrooted'
  BY <1>1, <1>5, <1>6, HandlesStay
<1> QED
  BY <1>3, <1>4, <1>7

\* Terminal::spawn: the number is given out, and nothing descends from it.
LEMMA SpawnInsertRecords ==
    ASSUME ProcessTypeOK, SpawnInv, NEW t \in Caller, NEW id \in GrantId, SpawnInsert(t, id)
    PROVE  SpawnInv'
<1> USE DEF SpawnInv
<1>1. /\ UNCHANGED <<registryVars, copy>> /\ issued' = issued \union {id} /\ id \notin issued
      /\ call[t].pc \in Deriving
  BY DEF SpawnInsert, Fresh, In, Deriving
<1>2. RegistryInv'
  BY <1>1, RegistryFrame DEF RegistryInv, GrantsTypeOK
<1>3. /\ call'[t].id = id /\ \A u \in Caller : u # t => call'[u] = call[u]
  BY OthersCalls DEF SpawnInsert, CallPC
<1>4. CopyHeld'
  BY <1>1, <1>3 DEF CopyHeld
<1>5. \A i \in GrantId : Unrooted(i) => Unrooted(i)'
  BY <1>1 DEF Unrooted, Recorded, registryVars
<1>6. Unrooted(id)
  BY <1>1, FreshUnrooted
<1>7. HandleUnrooted'
  <2>1. \A u \in Caller : u # t /\ In(u, "inserted") => call[u].id \in GrantId
    BY DEF ProcessTypeOK, In, OnPty, CallPC
  <2> QED
    BY <1>1, <1>3, <1>5, <1>6, <2>1 DEF HandleUnrooted, In
<1> QED
  BY <1>2, <1>4, <1>7

\* The grant of the terminal is recorded, unless its root was withdrawn meanwhile.
LEMMA SpawnRecordKeeps ==
    ASSUME ProcessTypeOK, SpawnInv, NEW t \in Caller, SpawnRecord(t)
    PROVE  SpawnInv'
<1> USE DEF SpawnInv
<1> DEFINE id == call[t].id
<1>1. /\ In(t, "inserted") /\ RecordDescendant(id, {"read"}, copy[t]) /\ Leaves(t)
      /\ copy' = [copy EXCEPT ![t] = NoGrant] /\ issued' = issued
  BY DEF SpawnRecord
<1>2. /\ id \in GrantId /\ id \in issued /\ Unrooted(id) /\ copy[t] # NoGrant
      /\ t \in Client /\ {"read"} \in SUBSET Right
  BY <1>1, CallersAreClients, OnPtyTypes
     DEF In, HandleUnrooted, CopyHeld, Deriving, OnPty, CallPC, Right
<1>3. issued' = issued \union {id}
  BY <1>1, <1>2
<1> HIDE DEF id
<1>4. RegistryInv'
  BY <1>1, <1>2, <1>3, DescendantKeeps
<1>5. \A c \in Client : copy'[c] = IF c = t THEN NoGrant ELSE copy[c]
  BY <1>1, <1>2 DEF RegistryInv, GrantsTypeOK
<1>6. call'[t].pc \notin Deriving /\ \A u \in Caller : u # t => call'[u] = call[u]
  BY <1>1 DEF Leaves, NoCall, Deriving, ProcessTypeOK
<1>7. CopyHeld'
  BY <1>5, <1>6, CallersAreClients DEF CopyHeld
<1>8. copy[t] \in Grant
  BY <1>2 DEF RegistryInv, GrantsTypeOK
<1>9. \A i \in GrantId : /\ i # id => grants'[i] = grants[i]
                         /\ grants'[id] \in {grants[id]} \union
                              {g \in Grant : g.root = copy[t].root}
  <2>1. [copy[t] EXCEPT !.id = id, !.rights = {"read"}, !.parent = copy[t].id,
                        !.revoked = FALSE] \in {g \in Grant : g.root = copy[t].root}
    BY <1>2, <1>8 DEF Grant
  <2> QED
    BY <1>1, <1>2, <2>1 DEF RecordDescendant, RegistryInv, GrantsTypeOK
<1>10. \A i \in issued : Unrooted(i) => Unrooted(i)'
  BY <1>2, <1>5, <1>9 DEF Unrooted, Recorded
<1>11. HandleUnrooted'
  BY <1>1, <1>6, <1>10, HandlesStay DEF In, Deriving
<1> QED
  BY <1>4, <1>7, <1>11

\* A terminal that exists is read, written to, cancelled or ended without the registry.
LEMMA TerminalStepsKeep ==
    ASSUME ProcessTypeOK, SpawnInv,
           \/ \E id \in GrantId : ShellWrites(id) \/ ShellReads(id) \/ ShellExits(id)
           \/ \E id \in GrantId, t \in Caller :
                 ReadLookup(t, id) \/ WriteBegin(t, id) \/ CancelProcess(t, id)
           \/ \E t \in Caller :
                 WriteLock(t) \/ WriteFails(t) \/ WriteEnd(t) \/ Kill(t) \/ DropCancel(t)
           \/ \E t \in Caller : ReadEnter(t) \/ ReadCheck(t) \/ ReadPoll(t) \/ ReadTake(t)
    PROVE  SpawnInv'
<1>1. UNCHANGED grantVars
  BY DEF ShellWrites, ShellReads, ShellExits, ReadLookup, WriteBegin, CancelProcess, WriteLock,
         WriteFails, WriteEnd, Kill, DropCancel, ReadEnter, ReadCheck, ReadPoll, ReadTake
<1>2. \A u \in Caller : call'[u].pc \in Deriving => call'[u] = call[u]
  <2>1. CASE call' = call
    BY <2>1
  <2>2. ASSUME NEW t \in Caller, Leaves(t)
        PROVE  \A u \in Caller : call'[u].pc \in Deriving => call'[u] = call[u]
    BY <2>2, OthersCalls
  <2>3. ASSUME NEW t \in Caller, NEW pc \in CallPC \ Deriving,
               Moves(t, pc) \/ \E id : Enters(t, pc, id)
        PROVE  \A u \in Caller : call'[u].pc \in Deriving => call'[u] = call[u]
    BY <2>3, OthersCalls
  <2>4. ASSUME NEW t \in Caller, ReadTake(t), ~ Leaves(t)
        PROVE  \A u \in Caller : call'[u].pc \in Deriving => call'[u] = call[u]
    <3>1. \E taken : call' = [call EXCEPT ![t].pc = "check", ![t].collected = @ \o taken]
      BY <2>4 DEF ReadTake, Deliver, GiveUp
    <3>2. call[t] \in CallRecord
      BY DEF ProcessTypeOK
    <3>3. call'[t].pc = "check" /\ \A u \in Caller : u # t => call'[u] = call[u]
      BY <3>1, <3>2 DEF ProcessTypeOK, CallRecord
    <3> QED
      BY <3>3 DEF Deriving
  <2>5. {"looked up", "check", "poll", "take", "lock", "write", "kill"} \subseteq CallPC \ Deriving
    BY DEF CallPC, Deriving
  <2>6. CASE \E id \in GrantId : ShellWrites(id) \/ ShellReads(id) \/ ShellExits(id)
    BY <2>1, <2>6 DEF ShellWrites, ShellReads, ShellExits
  <2>7. CASE \E id \in GrantId, t \in Caller :
                ReadLookup(t, id) \/ WriteBegin(t, id) \/ CancelProcess(t, id)
    BY <2>3, <2>5, <2>7 DEF ReadLookup, WriteBegin, CancelProcess
  <2>8. CASE \E t \in Caller :
                WriteLock(t) \/ WriteFails(t) \/ WriteEnd(t) \/ Kill(t) \/ DropCancel(t)
    BY <2>2, <2>3, <2>5, <2>8 DEF WriteLock, WriteFails, WriteEnd, Kill, DropCancel
  <2>9. CASE \E t \in Caller : ReadEnter(t) \/ ReadCheck(t) \/ ReadPoll(t) \/ ReadTake(t)
    BY <2>2, <2>3, <2>4, <2>5, <2>9 DEF ReadEnter, ReadCheck, ReadPoll, Deliver, GiveUp
  <2> QED
    BY <2>6, <2>7, <2>8, <2>9
<1> QED
  BY <1>1, <1>2, RegistryAlone

\* No step of a spawn, a withdrawal or a release disturbs what the registry rests on.
LEMMA SpawnStepKeeps ==
    ASSUME ProcessInv, SpawnInv, [ProcessNext]_processVars
    PROVE  SpawnInv'
<1> USE DEF ProcessInv
<1>1. CASE UNCHANGED processVars
  BY <1>1, RegistryAlone DEF processVars
<1>2. CASE ProcessNext
  BY <1>2, ProcessSteps, RegistryStepsKeep, SpawnAcceptKeeps, SpawnGoesOnKeeps,
     SpawnInsertRecords, SpawnRecordKeeps, TerminalStepsKeep
<1> QED
  BY <1>1, <1>2

\* A spawn records its terminal under a number nothing descends from, with a copy
\* that knows its root, however long after its number was given out.
THEOREM SpawnInductive == ProcessSpec => []SpawnInv
<1>1. ProcessInit => SpawnInv
  <2> SUFFICES ASSUME ProcessInit PROVE SpawnInv
    OBVIOUS
  <2>1. RegistryInv
    BY InitialRegistry DEF ProcessInit
  <2>2. \A t \in Caller : call[t].pc \notin Deriving
    BY DEF ProcessInit, NoCall, Deriving
  <2> QED
    BY <2>1, <2>2 DEF SpawnInv, CopyHeld, HandleUnrooted, In, Deriving
<1>2. ProcessInv /\ SpawnInv /\ [ProcessNext]_processVars => SpawnInv'
  BY SpawnStepKeeps
<1> QED
  BY <1>1, <1>2, ProcessInductive, PTL DEF ProcessSpec

\* spawn and revoke: a withdrawal reaches a terminal whose spawn was under way, and
\* what is derived names the arrival of its root.
THEOREM SpawnRevocationReaches == ProcessSpec => [](RevocationReaches /\ OriginKept)
<1>1. SpawnInv => RevocationReaches /\ OriginKept
  BY DEF SpawnInv, RegistryInv
<1> QED
  BY <1>1, SpawnInductive, PTL
=============================================================================

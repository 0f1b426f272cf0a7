------------------------------- MODULE Grants -------------------------------
(***************************************************************************)
(* The grant registry (grant.rs): who holds which authority, from which    *)
(* root it descends, and which roots a person has withdrawn.  Every        *)
(* operation below is one critical section of the registry's mutex.  A     *)
(* call that exercises a grant works on the copy `accept` gave it: between *)
(* that and the record of what it derived, anything else may happen.       *)
(*                                                                         *)
(* The counters are evidence only and are left out.                        *)
(***************************************************************************)

EXTENDS Naturals

CONSTANTS GrantId,    \* pairs of a resource family and a number local to it
          Client,     \* threads that call into the host
          NoGrant     \* the absence of a grant

KindOf(id) == id[1]
Kind == {KindOf(id) : id \in GrantId}

\* A handle is named by its family and its number, and is not the null value.
ASSUME GrantAssumption ==
    /\ NoGrant \notin GrantId
    /\ \A id \in GrantId : id = <<id[1], id[2]>> /\ id[2] \in Nat

VARIABLES grants,        \* the recorded grants
          revokedRoots,  \* the durable record of withdrawals
          withdrawn,     \* remembered roots the recent list must forget
          issued,        \* the handle numbers the families have given out
          copy           \* the grant a call in flight was accepted against

registryVars == <<grants, revokedRoots, withdrawn>>
grantVars == <<registryVars, issued, copy>>

\* "chosen" stands for what came by a person's choice, by provision or by a
\* drop, which the registry treats alike.
Right == {"read", "derive"}
Origin == {"chosen", "automatic"}
Lifetime == {"session", "remembered"}
Grant == [id : GrantId, rights : SUBSET Right, origin : Origin,
          lifetime : Lifetime, parent : GrantId \union {NoGrant},
          root : GrantId, revoked : BOOLEAN]

\* The absence of a grant is not taken for one.
ASSUME NoGrantAssumption == NoGrant \notin Grant

Recorded(id) == grants[id] # NoGrant
IsRoot(g) == g.parent = NoGrant

GrantsInit ==
    /\ grants = [id \in GrantId |-> NoGrant]
    /\ revokedRoots = {} /\ withdrawn = {} /\ issued = {}
    /\ copy = [c \in Client |-> NoGrant]

-----------------------------------------------------------------------------
(* The operations of the registry.                                         *)

\* record_root: authority that arrived from outside.
RecordRoot(id, rights, origin, lifetime) ==
    /\ grants' = [grants EXCEPT ![id] =
                    [id |-> id, rights |-> rights, origin |-> origin,
                     lifetime |-> lifetime, parent |-> NoGrant, root |-> id,
                     revoked |-> FALSE]]
    /\ UNCHANGED <<revokedRoots, withdrawn>>

\* Mutant: a copy accepted before a withdrawal derives after it.
MayDeriveStale(parent) == "derive" \in parent.rights

\* What record_descendant asks: the right to derive of the copy, and the root
\* of the registry as it is now.
MayDerive(parent) == "derive" \in parent.rights /\ parent.root \notin revokedRoots

\* record_descendant: FALSE, and nothing recorded, unless MayDerive.
RecordDescendant(id, rights, parent) ==
    /\ grants' = IF MayDerive(parent)
                   THEN [grants EXCEPT ![id] =
                           [parent EXCEPT !.id = id, !.rights = rights,
                                          !.parent = parent.id,
                                          !.revoked = FALSE]]
                   ELSE grants
    /\ UNCHANGED <<revokedRoots, withdrawn>>

\* is_revoked, is_held.
IsRevoked(id) ==
    Recorded(id) /\ (grants[id].revoked \/ grants[id].root \in revokedRoots)
IsHeld(id) == Recorded(id)

\* accept, as the refusal or "ok".
Accepted(id, needs) ==
    IF ~ Recorded(id) THEN "unknown"
    ELSE IF IsRevoked(id) THEN "revoked"
    ELSE IF ~ (needs \subseteq grants[id].rights) THEN "rights" ELSE "ok"

\* Every grant of the roots R becomes revoked.
Flagged(R) ==
    [id \in GrantId |-> IF Recorded(id) /\ grants[id].root \in R
                          THEN [grants[id] EXCEPT !.revoked = TRUE]
                          ELSE grants[id]]

\* revoke, its critical section: what follows is the business of the watches
\* and of the recent list.
Revoke(id) ==
    IF Recorded(id)
      THEN /\ revokedRoots' = revokedRoots \union {grants[id].root}
           /\ withdrawn' = IF grants[id].lifetime = "remembered"
                             THEN withdrawn \union {grants[id].root}
                             ELSE withdrawn
           /\ grants' = Flagged({grants[id].root})
      ELSE UNCHANGED registryVars

\* revoke_kind: every root of one family.
RevokeKind(k) ==
    LET roots == {grants[id].root : id \in {i \in GrantId :
                     Recorded(i) /\ KindOf(grants[i].root) = k}}
    IN  /\ revokedRoots' = revokedRoots \union roots
        /\ withdrawn' = withdrawn \union
             {id \in GrantId : /\ Recorded(id) /\ IsRoot(grants[id])
                               /\ KindOf(id) = k /\ ~ grants[id].revoked
                               /\ grants[id].lifetime = "remembered"}
        /\ grants' = Flagged(roots)

\* release: the application dropped the handle.
Release(id) ==
    /\ grants' = [grants EXCEPT ![id] = NoGrant]
    /\ UNCHANGED <<revokedRoots, withdrawn>>

\* grant::remember, as the refusal or "ok".
Rememberable(id) ==
    IF ~ Recorded(id) THEN "unknown"
    ELSE IF IsRevoked(id) THEN "revoked"
    ELSE IF ~ IsRoot(grants[id]) \/ grants[id].origin = "automatic" THEN "rights"
    ELSE "ok"

\* The root and all that was derived from it so far share the lifetime.
Remember(id) ==
    /\ grants' = IF Rememberable(id) = "ok"
                   THEN [i \in GrantId |->
                           IF Recorded(i) /\ grants[i].root = grants[id].root
                             THEN [grants[i] EXCEPT !.lifetime = "remembered"]
                             ELSE grants[i]]
                   ELSE grants
    /\ UNCHANGED <<revokedRoots, withdrawn>>

\* forget_kind: a new configuration; what referred to the old one ceases to
\* exist, and so do the withdrawals of its roots.
ForgetKind(k) ==
    /\ grants' = [id \in GrantId |->
                    IF Recorded(id) /\ (KindOf(id) = k \/ KindOf(grants[id].root) = k)
                      THEN NoGrant ELSE grants[id]]
    /\ revokedRoots' = {id \in revokedRoots : KindOf(id) # k}
    /\ UNCHANGED withdrawn

-----------------------------------------------------------------------------
(* The calls that use it: a family numbers its handles upwards, a call     *)
(* accepts, works, and records what it derived.                            *)

Fresh(id) == id \notin issued /\ \A i \in issued : KindOf(i) = KindOf(id) => i[2] < id[2]

Acquire(id, origin) ==
    /\ Fresh(id) /\ issued' = issued \union {id}
    /\ RecordRoot(id, Right, origin, "session")
    /\ UNCHANGED copy

Accept(c, id, needs) ==
    /\ copy[c] = NoGrant /\ Accepted(id, needs) = "ok"
    /\ copy' = [copy EXCEPT ![c] = grants[id]]
    /\ UNCHANGED <<registryVars, issued>>

Derive(c, id, rights) ==
    /\ copy[c] # NoGrant /\ Fresh(id) /\ issued' = issued \union {id}
    /\ RecordDescendant(id, rights, copy[c])
    /\ copy' = [copy EXCEPT ![c] = NoGrant]

GrantsNext ==
    \/ \E id \in GrantId :
          \/ \E o \in Origin : Acquire(id, o)
          \/ \E c \in Client, needs \in {{"read"}, {"derive"}} : Accept(c, id, needs)
          \/ \E c \in Client, rights \in {{"read"}, Right} : Derive(c, id, rights)
          \/ (Revoke(id) \/ Release(id) \/ Remember(id)) /\ UNCHANGED <<issued, copy>>
    \/ \E k \in Kind : (RevokeKind(k) \/ ForgetKind(k)) /\ UNCHANGED <<issued, copy>>

GrantsSpec == GrantsInit /\ [][GrantsNext]_grantVars

-----------------------------------------------------------------------------
(* Properties.                                                             *)

GrantsTypeOK ==
    /\ grants \in [GrantId -> Grant \union {NoGrant}]
    /\ revokedRoots \subseteq GrantId /\ withdrawn \subseteq GrantId
    /\ issued \subseteq GrantId
    /\ copy \in [Client -> Grant \union {NoGrant}]

\* A withdrawal reaches every grant of its root, whatever its family and
\* however stale the copy it is derived from afterwards, and nothing else: a
\* grant is revoked exactly when the registry remembers its root as withdrawn.
RevocationReaches ==
    \A id \in GrantId :
        Recorded(id) => (grants[id].revoked <=> grants[id].root \in revokedRoots)

\* What is derived never claims to have arrived otherwise than its root.
OriginKept ==
    \A id \in GrantId :
        /\ Recorded(id) => grants[id].id = id
        /\ Recorded(id) /\ Recorded(grants[id].root)
             => /\ grants[id].origin = grants[grants[id].root].origin
                /\ IsRoot(grants[grants[id].root])

\* Withdrawing is final: a withdrawn grant stays withdrawn while its handle is
\* held, and no handle number comes back with fresh authority.
WithdrawalFinal ==
    [][\A id \in GrantId :
         /\ Recorded(id) /\ IsRevoked(id) => IsRevoked(id)' \/ ~ Recorded(id)'
         /\ id \in issued /\ ~ Recorded(id) => ~ Recorded(id)']_grantVars
=============================================================================

------------------------------- MODULE Recents ------------------------------
(***************************************************************************)
(* The list of recent files and folders (recents.rs) over the grant        *)
(* registry: a record a person's choice leaves behind, by which a later    *)
(* run of the program may reopen the place.  A call is a thread's, and its *)
(* critical sections of the registry and of the list's store, its looks at *)
(* the file system and the steps of its save are separate steps; the       *)
(* process may be killed between any two of them.                          *)
(*                                                                         *)
(* The file at a place may be replaced, deleted or restored at any time,   *)
(* so each look at it may find what it looks for or not, whatever the one  *)
(* before has found.  The saved list is an inode the store's name refers   *)
(* to; the staging file is an inode too, which two saves of one process    *)
(* share, as its name is the process's.                                    *)
(***************************************************************************)

EXTENDS Grants, Sequences, FiniteSets

CONSTANTS Thread,      \* threads that call into the host
          Place,       \* places of files
          Nowhere,     \* the absence of a place
          MaxEntries,  \* MAX_ENTRIES
          MaxKey,      \* bound: entry keys ever given out
          MaxRuns,     \* bound: runs of the program
          SavesFail    \* whether the file system may refuse a save

ASSUME RecentsAssumption ==
    /\ MaxEntries \in Nat \ {0} /\ MaxKey \in Nat /\ MaxRuns \in Nat
    /\ Nowhere \notin Place /\ SavesFail \in BOOLEAN

VARIABLES entries,  \* the list, most recent first
          nextKey,
          held,     \* the entry's key of each grant remembered or reopened, or 0
          sources,  \* the place each root grant came from
          inode,    \* the names "stored" and "staging", as inodes, 0 for none
          content,  \* the list each inode holds
          op,       \* what each thread is doing
          run,      \* which run of the program this is
          crossed,  \* history: the saves under way, or the last, overlapped
          lapsed,   \* history: a save has failed or overlapped another, and no
                    \* save that overlapped none has succeeded since
          missed,   \* history: withdrawn roots that were dropped, or in use by
                    \* another call, when the withdrawal looked for their entries
          makers,   \* history: by which grants each entry is kept
          before    \* history: the list before its last change

listVars == <<entries, nextKey, held, sources>>
saved == <<inode, content>>
history == <<crossed, lapsed, missed, makers, before>>
recentsVars == <<grantVars, listVars, saved, op, run, history>>

Inode == 1 .. Cardinality(Thread) + 1
Idle == [pc |-> "idle", id |-> NoGrant, entry |-> <<>>, list |-> <<>>, fd |-> 0,
         roots |-> {}, keys |-> {}]
Entry(k, p, o) == [key |-> k, place |-> p, origin |-> o]
Elements(list) == {list[i] : i \in DOMAIN list}
KeysOf(list) == {e.key : e \in Elements(list)}
PlacesOf(list) == {e.place : e \in Elements(list)}
Bounded(list) == SubSeq(list, 1, IF Len(list) < MaxEntries THEN Len(list) ELSE MaxEntries)

\* The list without some of its entries.
Without(list, gone) ==
    LET kept[n \in 0 .. Len(list)] ==
            IF n = 0 THEN <<>>
            ELSE IF list[n] \in gone THEN kept[n - 1] ELSE Append(kept[n - 1], list[n])
    IN  kept[Len(list)]

\* decode: a line whose key or place an earlier one has is left out.
Known(list, e) == e.key \in KeysOf(list) \/ e.place \in PlacesOf(list)
Decoded(list) ==
    LET seen[n \in 0 .. Len(list)] ==
            IF n = 0 THEN <<>>
            ELSE IF Known(seen[n - 1], list[n]) THEN seen[n - 1] ELSE Append(seen[n - 1], list[n])
    IN  Bounded(seen[Len(list)])

\* load and configure, from what is stored.
Loaded == IF inode["stored"] = 0 THEN <<>> ELSE Decoded(content[inode["stored"]])
\* Mutant: a run numbers its entries from the start.
NextKeyAfresh(list) == 1

NextKeyOf(list) == CHOOSE k \in 1 .. MaxKey + 1 :
                      /\ \A j \in KeysOf(list) : j < k
                      /\ k = 1 \/ k - 1 \in KeysOf(list)

RecentsInit ==
    /\ GrantsInit
    /\ entries = <<>> /\ nextKey = 1
    /\ held = [id \in GrantId |-> 0] /\ sources = [id \in GrantId |-> Nowhere]
    /\ inode = [stored |-> 0, staging |-> 0] /\ content = [i \in Inode |-> <<>>]
    /\ op = [t \in Thread |-> Idle] /\ run = 1
    /\ crossed = FALSE /\ lapsed = FALSE /\ missed = {} /\ makers = {} /\ before = <<>>

Returns(t) == op' = [op EXCEPT ![t] = Idle]
At(t, pc) == op[t].pc = pc
Goto(t, pc) == op' = [op EXCEPT ![t].pc = pc]
Free(t) == op[t].pc \in {"idle", "withdrawn"}
Saving(t) == op[t].pc \in {"create", "write", "rename"}

\* The application has a handle once the call that makes it has returned.
HandedOut(id) == \A t \in Thread : ~ (At(t, "granted") /\ op[t].id = id)

-----------------------------------------------------------------------------
(* A person's choice, the release of a handle, and a kill.                 *)

\* A person chooses the file at a place: capability, with its note_source.
Choose(id, p) ==
    /\ Acquire(id, "chosen")
    /\ sources' = [sources EXCEPT ![id] = p]
    /\ UNCHANGED <<entries, nextKey, held, saved, op, run, history>>

\* route_dealloc: the handle is gone, and with it its place.
Drop(t, id) ==
    /\ Free(t) /\ Recorded(id) /\ HandedOut(id) /\ Release(id) /\ UNCHANGED <<issued, copy>>
    /\ sources' = [sources EXCEPT ![id] = Nowhere]
    /\ held' = [held EXCEPT ![id] = 0]
    /\ UNCHANGED <<entries, nextKey, saved, op, run, history>>

\* The process is killed at any point, and the program started again: the
\* registry and the store are empty, the list is what was saved.  Its staging
\* file has the new process's number.
Restart ==
    /\ run < MaxRuns /\ run' = run + 1
    /\ grants' = [id \in GrantId |-> NoGrant] /\ issued' = {}
    /\ revokedRoots' = {} /\ withdrawn' = {} /\ copy' = [c \in Client |-> NoGrant]
    /\ entries' = Loaded /\ nextKey' = NextKeyOf(Loaded) /\ before' = Loaded
    /\ held' = [id \in GrantId |-> 0] /\ sources' = [id \in GrantId |-> Nowhere]
    /\ op' = [t \in Thread |-> Idle] /\ inode' = [inode EXCEPT !.staging = 0]
    /\ crossed' = FALSE /\ lapsed' = FALSE /\ missed' = {} /\ makers' = {}
    /\ UNCHANGED content

-----------------------------------------------------------------------------
(* save: create or truncate the staging file, write it, rename it.         *)

\* A critical section that changes the list, with the save that follows it.
Changed(t, o, list, made) ==
    /\ entries' = list /\ before' = entries
    /\ crossed' = (\E u \in Thread \ {t} : Saving(u)) /\ lapsed' = (lapsed \/ crossed')
    /\ op' = [op EXCEPT ![t] = [o EXCEPT !.pc = "create", !.list = list]]
    /\ makers' = {m \in makers \union made : m[1] \in KeysOf(list)}

\* After a save a withdrawal goes on to its next entry.
SaveDone(t) == op' = [op EXCEPT ![t] = IF @.roots = {} THEN Idle
                                       ELSE [@ EXCEPT !.pc = "forget", !.list = <<>>, !.fd = 0]]

\* Mutant: the list is saved over the old one, without a staging file.
SaveCreateInPlace(t) ==
    LET i == IF inode["stored"] # 0 THEN inode["stored"] ELSE 1
    IN  /\ At(t, "create")
        /\ inode' = [inode EXCEPT !["staging"] = i]
        /\ content' = [content EXCEPT ![i] = <<>>]
        /\ op' = [op EXCEPT ![t].pc = "write", ![t].fd = i]
        /\ UNCHANGED <<grantVars, listVars, run, history>>

\* An inode that no name and no save in progress refers to.
Unused(i) == i # inode["stored"] /\ \A u \in Thread : op[u].fd # i

SaveCreate(t) ==
    /\ At(t, "create")
    /\ \E i \in Inode :
          /\ IF inode["staging"] # 0 THEN i = inode["staging"]
             ELSE Unused(i) /\ \A j \in Inode : Unused(j) => i <= j
          /\ inode' = [inode EXCEPT !["staging"] = i]
          /\ content' = [content EXCEPT ![i] = <<>>]
          /\ op' = [op EXCEPT ![t].pc = "write", ![t].fd = i]
    /\ UNCHANGED <<grantVars, listVars, run, history>>

\* A list written over a longer one another save wrote leaves its end.
SaveWrite(t) ==
    LET list == op[t].list
        old == content[op[t].fd]
    IN  /\ At(t, "write") /\ Goto(t, "rename")
        /\ content' = [content EXCEPT ![op[t].fd] =
                          list \o SubSeq(old, Len(list) + 1, Len(old))]
        /\ UNCHANGED <<grantVars, listVars, inode, run, history>>

SaveRename(t) ==
    /\ At(t, "rename") /\ SaveDone(t)
    /\ IF inode["staging"] = 0 THEN UNCHANGED <<saved, lapsed>>
       ELSE /\ inode' = [stored |-> inode["staging"], staging |-> 0]
            /\ content' = [i \in Inode |-> IF i = inode["stored"] THEN <<>> ELSE content[i]]
            /\ lapsed' = crossed
    /\ UNCHANGED <<grantVars, listVars, run, crossed, missed, makers, before>>

\* The file system refuses one of them: the list is still this run's list.
SaveFail(t) ==
    /\ SavesFail /\ Saving(t)
    /\ SaveDone(t) /\ lapsed' = TRUE
    /\ inode' = IF At(t, "rename") THEN [inode EXCEPT !["staging"] = 0] ELSE inode
    /\ UNCHANGED <<grantVars, listVars, content, run, crossed, missed, makers, before>>

-----------------------------------------------------------------------------
(* remember, reopen and forget.  A refused call changes only counters.     *)

\* grant::remember first; then the place and what is there; then the entry.
RememberMark(t, id) ==
    /\ Free(t) /\ HandedOut(id) /\ Rememberable(id) = "ok" /\ Remember(id)
    /\ op' = [op EXCEPT ![t] = [Idle EXCEPT !.pc = "marked", !.id = id,
                               !.entry = Entry(0, Nowhere, grants[id].origin)]]
    /\ UNCHANGED <<issued, copy, listVars, saved, run, history>>

RememberFind(t) ==
    LET p == sources[op[t].id]
    IN  /\ At(t, "marked")
        /\ \/ Returns(t)
           \/ /\ p # Nowhere
              /\ op' = [op EXCEPT ![t].pc = "found", ![t].entry.place = p]
        /\ UNCHANGED <<grantVars, listVars, saved, run, history>>

\* An entry of the place keeps its key and moves to the front.
RememberInsert(t) ==
    LET e == op[t].entry
        same == {x \in Elements(entries) : x.place = e.place}
        key == IF same = {} THEN nextKey ELSE (CHOOSE x \in same : TRUE).key
        list == Bounded(<<[e EXCEPT !.key = key]>> \o Without(entries, same))
    IN  /\ At(t, "found") /\ key <= MaxKey
        /\ Changed(t, Idle, list, {<<key, op[t].id>>})
        /\ nextKey' = IF same = {} THEN nextKey + 1 ELSE nextKey
        /\ held' = [held EXCEPT ![op[t].id] = key]
        /\ UNCHANGED <<grantVars, sources, saved, run, missed>>

\* check: the entry's place holds what was there when it was remembered.
Reopen(t, i) ==
    /\ Free(t) /\ i \in DOMAIN entries
    /\ op' = [op EXCEPT ![t] = [Idle EXCEPT !.pc = "checked", !.entry = entries[i]]]
    /\ UNCHANGED <<grantVars, listVars, saved, run, history>>

\* The place is opened and becomes a root grant, of the origin it had.
ReopenGrant(t, id) ==
    LET e == op[t].entry
    IN  /\ At(t, "checked")
        /\ \/ Returns(t) /\ UNCHANGED <<registryVars, issued, sources>>
           \/ /\ Fresh(id) /\ issued' = issued \union {id}
              /\ RecordRoot(id, Right, e.origin, "remembered")
              /\ sources' = [sources EXCEPT ![id] = e.place]
              /\ op' = [op EXCEPT ![t].pc = "granted", ![t].id = id]
        /\ UNCHANGED <<copy, entries, nextKey, held, saved, run, history>>

\* Mutant: the grant of a reopened place is not noted against its entry.
ReopenedUnheld(t) ==
    LET key == op[t].entry.key
    IN  /\ At(t, "granted") /\ Returns(t)
        /\ makers' = IF key \in KeysOf(entries)
                       THEN makers \union {<<key, op[t].id>>} ELSE makers
        /\ UNCHANGED <<grantVars, listVars, saved, run, crossed, lapsed, missed, before>>

Reopened(t) ==
    LET key == op[t].entry.key
    IN  /\ At(t, "granted") /\ Returns(t)
        /\ held' = [held EXCEPT ![op[t].id] = key]
        /\ makers' = IF key \in KeysOf(entries)
                       THEN makers \union {<<key, op[t].id>>} ELSE makers
        /\ UNCHANGED <<grantVars, entries, nextKey, sources, saved, run,
                       crossed, lapsed, missed, before>>

WithoutKey(key) == Without(entries, {e \in Elements(entries) : e.key = key})

\* Mutant: the list without the entry is not saved.
ForgetUnsaved(t, o, key) ==
    /\ entries' = WithoutKey(key) /\ before' = entries
    /\ op' = [op EXCEPT ![t] = o] /\ makers' = {m \in makers : m[1] # key}
    /\ UNCHANGED <<crossed, lapsed>>
    /\ held' = [id \in GrantId |-> IF held[id] = key THEN 0 ELSE held[id]]

\* forget: the entry, and what is held by it.
Forget(t, o, key) ==
    /\ Changed(t, o, WithoutKey(key), {})
    /\ held' = [id \in GrantId |-> IF held[id] = key THEN 0 ELSE held[id]]

ForgetEntry(t, i) ==
    /\ Free(t) /\ i \in DOMAIN entries /\ Forget(t, Idle, entries[i].key)
    /\ UNCHANGED <<grantVars, nextKey, sources, saved, run, missed>>

-----------------------------------------------------------------------------
(* A person withdraws a grant, or a family: revoke and revoke_kind up to   *)
(* the end of forget_withdrawn.                                            *)

Withdraw(t) ==
    /\ Free(t)
    /\ \/ \E id \in GrantId : Recorded(id) /\ Revoke(id)
       \/ \E k \in Kind : RevokeKind(k)
    /\ op' = [op EXCEPT ![t] = [Idle EXCEPT !.pc = "revoked"]]
    /\ UNCHANGED <<issued, copy, listVars, saved, run, history>>

\* take_withdrawn_remembered.
WithdrawTake(t) ==
    /\ At(t, "revoked") /\ withdrawn' = {}
    /\ op' = [op EXCEPT ![t] = IF withdrawn = {} THEN Idle
                               ELSE [@ EXCEPT !.pc = "taken", !.roots = withdrawn]]
    /\ UNCHANGED <<grants, revokedRoots, issued, copy, listVars, saved, run,
                   history>>

\* A call that is about to note an entry against a grant.
Uses(t, id) == op[t].pc \in {"marked", "found", "granted"} /\ op[t].id = id

\* The entries the roots hold now.
WithdrawFind(t) ==
    /\ At(t, "taken")
    /\ op' = [op EXCEPT ![t].pc = "forget", ![t].keys = {held[id] : id \in op[t].roots} \ {0}]
    /\ missed' = missed \union {id \in op[t].roots :
                                  ~ Recorded(id) \/ \E u \in Thread : Uses(u, id)}
    /\ UNCHANGED <<grantVars, listVars, saved, run, crossed, lapsed, makers, before>>

WithdrawForget(t) ==
    /\ At(t, "forget")
    /\ \/ /\ op[t].keys = {} /\ Goto(t, "withdrawn")
          /\ UNCHANGED <<entries, held, crossed, lapsed, before, makers>>
       \/ \E key \in op[t].keys :
            IF key \in KeysOf(entries)
              THEN Forget(t, [op[t] EXCEPT !.keys = @ \ {key}], key)
              ELSE /\ op' = [op EXCEPT ![t].keys = @ \ {key}]
                   /\ UNCHANGED <<entries, held, crossed, lapsed, before, makers>>
    /\ UNCHANGED <<grantVars, nextKey, sources, saved, run, missed>>

-----------------------------------------------------------------------------

RecentsStep(t) ==
    \/ SaveCreate(t) \/ SaveWrite(t) \/ SaveRename(t) \/ SaveFail(t)
    \/ RememberFind(t) \/ RememberInsert(t) \/ Reopened(t)
    \/ Withdraw(t) \/ WithdrawTake(t) \/ WithdrawFind(t) \/ WithdrawForget(t)
    \/ \E id \in GrantId : RememberMark(t, id) \/ ReopenGrant(t, id) \/ Drop(t, id)
    \/ \E i \in DOMAIN entries : Reopen(t, i) \/ ForgetEntry(t, i)

RecentsNext ==
    \/ \E id \in GrantId, p \in Place : Choose(id, p)
    \/ Restart
    \/ \E t \in Thread : RecentsStep(t)

RecentsSpec == RecentsInit /\ [][RecentsNext]_recentsVars

-----------------------------------------------------------------------------
(* Properties.                                                             *)

\* The list is bounded and names every place once, under a key of its own; what
\* a grant holds is the entry of its own place, so that withdrawing the grant
\* never forgets another's.
ListSound ==
    /\ Len(entries) <= MaxEntries
    /\ \A i, j \in DOMAIN entries :
          entries[i].key = entries[j].key \/ entries[i].place = entries[j].place => i = j
    /\ \A i \in DOMAIN entries :
          /\ entries[i].key < nextKey
          /\ \A id \in GrantId :
                held[id] = entries[i].key /\ sources[id] # Nowhere
                    => sources[id] = entries[i].place

\* A place whose grant a person withdrew is not in the list any more when the
\* withdrawal returns, nor later, by whichever grants it had been kept; unless
\* the grant was dropped, or a call was about to note an entry against it, when
\* the withdrawal looked.
WithdrawnForgotten ==
    \A t \in Thread : At(t, "withdrawn") =>
        \A id \in op[t].roots \ missed : \A key \in KeysOf(entries) : <<key, id>> \notin makers

\* recents.rs says of the list that an entry "whose grant a person withdraws" is
\* forgotten, "so a withdrawn file does not come back at the next start".
WithdrawnGone ==
    \A t \in Thread : At(t, "withdrawn") =>
        \A id \in op[t].roots : \A key \in KeysOf(entries) : <<key, id>> \notin makers

\* Every change is written back, and no error lasts: between saves the stored
\* list is the list, whatever refused or overlapping saves left, as soon as one
\* save has succeeded that overlapped none.
StoredCurrent ==
    (\A t \in Thread : ~ Saving(t)) /\ ~ lapsed => Loaded = entries

\* A run that starts after a kill at any point of a save that overlaps none
\* finds the list as it was before the last change or after it, never half of
\* either, unless what was stored had lapsed already.
CrashKeepsList ==
    [][run' # run /\ ~ lapsed => entries' \in {entries, before}]_recentsVars
=============================================================================

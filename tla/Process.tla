------------------------------- MODULE Process ------------------------------
(***************************************************************************)
(* Pseudo-terminals spawned from a process grant (process.rs): threads     *)
(* that spawn, read, write, cancel and drop, over the grant registry, with *)
(* the shell behind the terminal.  A step ends where the code gives up the *)
(* registry's, the store's or the master's lock or sets one of the flags,  *)
(* so a cancel or a withdrawal may fall anywhere in a spawn or a read.     *)
(*                                                                         *)
(* A chunk of output is its number.  Sizes, resize and the counters are    *)
(* left out, and so is the 500 ms hold, which ends a read at once on Unix. *)
(* `delivered` and `lost` are history: what reads have returned, and what  *)
(* each read had collected that ended with an error or was cancelled.      *)
(***************************************************************************)

EXTENDS Grants, Sequences, FiniteSets

CONSTANTS Caller,     \* threads that call
          NoCaller,   \* the absence of a caller
          MaxActive,  \* MAX_ACTIVE
          MaxRead,    \* chunks a read asks for
          MaxOutput,  \* bound: chunks a shell ever writes
          OutBuffer,  \* chunks the terminal holds for the reader
          InBuffer    \* chunks it holds for the shell

ASSUME ProcessAssumption ==
    /\ Caller \subseteq Client /\ NoCaller \notin Caller
    /\ {MaxActive, MaxRead, MaxOutput, OutBuffer, InBuffer} \subseteq Nat \ {0}

VARIABLES pty,   \* the terminals ever spawned, by the number of their grant
          call   \* what each thread is doing

processVars == <<grantVars, pty, call>>

Pty == [output : Seq(Nat), written : Nat, input : Nat, alive : BOOLEAN,
        canceled : BOOLEAN, exited : BOOLEAN, reading : BOOLEAN,
        master : Caller \union {NoCaller}, stored : BOOLEAN, delivered : Seq(Nat),
        lost : SUBSET Seq(Nat)]
NewPty == [output |-> <<>>, written |-> 0, input |-> 0, alive |-> TRUE,
           canceled |-> FALSE, exited |-> FALSE, reading |-> FALSE,
           master |-> NoCaller, stored |-> TRUE, delivered |-> <<>>, lost |-> {}]
NoCall == [pc |-> "idle", id |-> NoGrant, collected |-> <<>>]

Spawned == DOMAIN pty
In(t, pc) == call[t].pc = pc
MyPty(t) == pty[call[t].id]
Moves(t, pc) == call' = [call EXCEPT ![t].pc = pc]
Leaves(t) == call' = [call EXCEPT ![t] = NoCall]
Enters(t, pc, id) == call' = [call EXCEPT ![t] = [pc |-> pc, id |-> id, collected |-> <<>>]]

ProcessInit ==
    /\ GrantsInit
    /\ pty = [i \in {} |-> NewPty] /\ call = [t \in Caller |-> NoCall]

-----------------------------------------------------------------------------
(* acquire, the release of a profile, and a withdrawal.                    *)

AcquireProcess(id) ==
    /\ Acquire(id, "chosen") /\ UNCHANGED <<pty, call>>

ReleaseProfile(id) ==
    /\ Recorded(id) /\ id \notin Spawned /\ Release(id)
    /\ UNCHANGED <<issued, copy, pty, call>>

WithdrawProcess(id) ==
    /\ Recorded(id) /\ Revoke(id) /\ UNCHANGED <<issued, copy, pty, call>>

-----------------------------------------------------------------------------
(* spawn.                                                                  *)

\* grant_profile: the copy that the terminal is derived from.
SpawnAccept(t, id) ==
    /\ In(t, "idle") /\ id \notin Spawned /\ Accept(t, id, {"derive"})
    /\ Enters(t, "accepted", NoGrant) /\ UNCHANGED pty

\* active_count: a shell that has exited counts no more.
Active(p) == p.stored /\ ~ p.canceled /\ ~ p.exited
SpawnCount(t) ==
    /\ In(t, "accepted")
    /\ pty' = [id \in Spawned |->
                 IF Active(pty[id]) THEN [pty[id] EXCEPT !.exited = ~ pty[id].alive]
                                    ELSE pty[id]]
    /\ IF Cardinality({id \in Spawned : Active(pty'[id])}) >= MaxActive
         THEN Leaves(t) /\ copy' = [copy EXCEPT ![t] = NoGrant]
         ELSE Moves(t, "counted") /\ UNCHANGED copy
    /\ UNCHANGED <<registryVars, issued>>

\* Terminal::spawn and the entry, or the operating system's refusal.
SpawnInsert(t, id) ==
    /\ In(t, "counted") /\ Fresh(id) /\ issued' = issued \union {id}
    /\ pty' = [i \in Spawned \union {id} |-> IF i = id THEN NewPty ELSE pty[i]]
    /\ Enters(t, "inserted", id)
    /\ UNCHANGED <<registryVars, copy>>

SpawnRefused(t) ==
    /\ In(t, "counted") /\ Leaves(t) /\ copy' = [copy EXCEPT ![t] = NoGrant]
    /\ UNCHANGED <<registryVars, issued, pty>>

\* The handle is returned whether or not the registry recorded it.
SpawnRecord(t) ==
    /\ In(t, "inserted") /\ Leaves(t)
    /\ RecordDescendant(call[t].id, {"read"}, copy[t])
    /\ copy' = [copy EXCEPT ![t] = NoGrant]
    /\ UNCHANGED <<issued, pty>>

-----------------------------------------------------------------------------
(* read.  The application has a handle once its spawn has returned.        *)

Returned(id) == id \in Spawned /\ \A t \in Caller : ~ (In(t, "inserted") /\ call[t].id = id)
\* lookup.
Usable(id) == Returned(id) /\ pty[id].stored /\ Accepted(id, {"read"}) = "ok"

ReadLookup(t, id) ==
    /\ In(t, "idle") /\ Usable(id) /\ Enters(t, "looked up", id)
    /\ UNCHANGED <<grantVars, pty>>

\* Mutant: a second reader is let in.
ReadEnterBeside(t) ==
    /\ In(t, "looked up") /\ Moves(t, "check")
    /\ pty' = [pty EXCEPT ![call[t].id].reading = TRUE] /\ UNCHANGED grantVars

\* One reader: the others are told it is busy.
ReadEnter(t) ==
    /\ In(t, "looked up")
    /\ IF MyPty(t).reading THEN Leaves(t) /\ UNCHANGED pty
       ELSE Moves(t, "check") /\ pty' = [pty EXCEPT ![call[t].id].reading = TRUE]
    /\ UNCHANGED grantVars

\* The reader returns Canceled or an error: what it has collected is lost.
GiveUp(t) ==
    /\ Leaves(t)
    /\ pty' = [pty EXCEPT ![call[t].id].reading = FALSE,
                          ![call[t].id].lost = @ \union ({call[t].collected} \ {<<>>})]

ReadCheck(t) ==
    /\ In(t, "check")
    /\ IF MyPty(t).canceled THEN GiveUp(t) ELSE Moves(t, "poll") /\ UNCHANGED pty
    /\ UNCHANGED grantVars

\* The reader returns what it has collected.
Deliver(t, collected) ==
    /\ Leaves(t)
    /\ pty' = [pty EXCEPT ![call[t].id].reading = FALSE,
                          ![call[t].id].delivered = @ \o collected,
                          ![call[t].id].output = SubSeq(@, Len(collected)
                                    - Len(call[t].collected) + 1, Len(@))]

\* wait_readable: the lock of the master is taken for its descriptor, and the
\* poll ends with something to read, a hang-up, its 20 ms, or an error.
ReadPoll(t) ==
    /\ In(t, "poll") /\ MyPty(t).master = NoCaller
    /\ \/ GiveUp(t)
       \/ IF MyPty(t).output # <<>> \/ ~ MyPty(t).alive THEN Moves(t, "take") /\ UNCHANGED pty
          ELSE IF call[t].collected = <<>> THEN Moves(t, "check") /\ UNCHANGED pty
          ELSE Deliver(t, call[t].collected)
    /\ UNCHANGED grantVars

\* The read itself: an error, nothing left of a shell that is gone, all that the
\* read asked for, or once more round.
ReadTake(t) ==
    LET p == MyPty(t)
        room == MaxRead - Len(call[t].collected)
        taken == SubSeq(p.output, 1, IF Len(p.output) < room THEN Len(p.output) ELSE room)
    IN  /\ In(t, "take") /\ p.master = NoCaller
        /\ \/ GiveUp(t)
           \/ IF taken = <<>> /\ call[t].collected = <<>>
                THEN /\ Leaves(t)
                     /\ pty' = [pty EXCEPT ![call[t].id].reading = FALSE,
                                           ![call[t].id].exited = TRUE]
              ELSE IF taken = <<>> \/ Len(taken) = room
                THEN Deliver(t, call[t].collected \o taken)
              ELSE /\ call' = [call EXCEPT ![t].pc = "check", ![t].collected = @ \o taken]
                   /\ pty' = [pty EXCEPT ![call[t].id].output = SubSeq(@, Len(taken) + 1, Len(@))]
        /\ UNCHANGED grantVars

ReadStep(t) == ReadEnter(t) \/ ReadCheck(t) \/ ReadPoll(t) \/ ReadTake(t)

-----------------------------------------------------------------------------
(* write, cancel and the release of a terminal.                            *)

WriteBegin(t, id) ==
    /\ In(t, "idle") /\ Usable(id) /\ ~ pty[id].canceled /\ ~ pty[id].exited
    /\ Enters(t, "lock", id) /\ UNCHANGED <<pty, grantVars>>

\* The lock of the master is held while the terminal has no room.
WriteLock(t) ==
    /\ In(t, "lock") /\ MyPty(t).master = NoCaller /\ Moves(t, "write")
    /\ pty' = [pty EXCEPT ![call[t].id].master = t] /\ UNCHANGED grantVars

WriteFails(t) ==
    /\ In(t, "write") /\ Leaves(t)
    /\ pty' = [pty EXCEPT ![call[t].id].master = NoCaller] /\ UNCHANGED grantVars

WriteEnd(t) ==
    /\ In(t, "write") /\ (MyPty(t).input < InBuffer \/ ~ MyPty(t).alive)
    /\ pty' = [pty EXCEPT ![call[t].id].master = NoCaller,
                          ![call[t].id].input = IF MyPty(t).alive THEN @ + 1 ELSE @]
    /\ Leaves(t) /\ UNCHANGED grantVars

\* Cancelling a terminal whose end has been seen, or twice, does nothing.
CancelProcess(t, id) ==
    /\ In(t, "idle") /\ Usable(id) /\ ~ pty[id].exited /\ ~ pty[id].canceled
    /\ pty' = [pty EXCEPT ![id].canceled = TRUE] /\ Enters(t, "kill", id)
    /\ UNCHANGED grantVars

\* Mutant: a cancel only sets the flag.
KillNothing(t) == In(t, "kill") /\ Leaves(t) /\ UNCHANGED <<pty, grantVars>>

Kill(t) ==
    /\ In(t, "kill") /\ Leaves(t)
    /\ pty' = [pty EXCEPT ![call[t].id].alive = FALSE] /\ UNCHANGED grantVars

\* route_dealloc: out of the store and the registry; then it is cancelled.
DropPty(t, id) ==
    /\ In(t, "idle") /\ Returned(id) /\ pty[id].stored
    /\ pty' = [pty EXCEPT ![id].stored = FALSE] /\ Release(id)
    /\ Enters(t, "dropped", id) /\ UNCHANGED <<issued, copy>>

DropCancel(t) ==
    /\ In(t, "dropped") /\ Moves(t, "kill")
    /\ pty' = [pty EXCEPT ![call[t].id].canceled = TRUE] /\ UNCHANGED grantVars

-----------------------------------------------------------------------------
(* The shell.                                                              *)

ShellWrites(id) ==
    /\ id \in Spawned /\ pty[id].alive
    /\ Len(pty[id].output) < OutBuffer /\ pty[id].written < MaxOutput
    /\ pty' = [pty EXCEPT ![id].written = @ + 1, ![id].output = Append(@, pty[id].written + 1)]
    /\ UNCHANGED <<grantVars, call>>

ShellReads(id) ==
    /\ id \in Spawned /\ pty[id].alive /\ pty[id].input > 0
    /\ pty' = [pty EXCEPT ![id].input = @ - 1] /\ UNCHANGED <<grantVars, call>>

ShellExits(id) ==
    /\ id \in Spawned /\ pty[id].alive
    /\ pty' = [pty EXCEPT ![id].alive = FALSE] /\ UNCHANGED <<grantVars, call>>

-----------------------------------------------------------------------------

CallStep(t) == ReadStep(t) \/ WriteLock(t) \/ WriteEnd(t) \/ Kill(t) \/ DropCancel(t)

ProcessNext ==
    \/ \E id \in GrantId :
          \/ AcquireProcess(id) \/ ReleaseProfile(id) \/ WithdrawProcess(id)
          \/ ShellWrites(id) \/ ShellReads(id) \/ ShellExits(id)
          \/ \E t \in Caller : \/ SpawnAccept(t, id) \/ SpawnInsert(t, id)
                               \/ ReadLookup(t, id) \/ WriteBegin(t, id)
                               \/ CancelProcess(t, id) \/ DropPty(t, id)
    \/ \E t \in Caller : \/ SpawnCount(t) \/ SpawnRefused(t) \/ SpawnRecord(t)
                         \/ WriteFails(t) \/ CallStep(t)

\* Threads run; neither the shell nor the application need do anything.
ProcessFairness == \A t \in Caller : WF_processVars(CallStep(t))

ProcessSpec == ProcessInit /\ [][ProcessNext]_processVars /\ ProcessFairness

-----------------------------------------------------------------------------
(* Properties.                                                             *)

\* What the shell wrote is delivered once and in order, whoever reads, writes,
\* cancels or drops, and whether the shell goes on or not.  What is missing was
\* in the hands of a read that ended with an error or was cancelled, and such a
\* read held less than it asked for.
Chunks(s) == {s[i] : i \in DOMAIN s}
Rising(s) == \A i, j \in DOMAIN s : i < j => s[i] < s[j]
Lost(p) == UNION {Chunks(s) : s \in p.lost}
Collected(id) == {call[t].collected : t \in {u \in Caller : call[u].id = id}} \ {<<>>}
OutputKept ==
    \A id \in Spawned :
        LET kept == pty[id].delivered
                    \o (IF Collected(id) = {} THEN <<>> ELSE CHOOSE c \in Collected(id) : TRUE)
                    \o pty[id].output
        IN  /\ Rising(kept)
            /\ Chunks(kept) \intersect Lost(pty[id]) = {}
            /\ Chunks(kept) \union Lost(pty[id]) = 1 .. pty[id].written
            /\ \A s \in pty[id].lost : Len(s) < MaxRead

\* A cancel or the drop of the handle ends the wait of its reader, even while
\* a writer holds the terminal's lock because the shell reads nothing.
CancelWakes ==
    \A id \in GrantId :
        id \in Spawned /\ pty[id].canceled /\ pty[id].reading
            ~> id \in Spawned /\ ~ pty[id].reading
=============================================================================

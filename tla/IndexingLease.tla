----------------------------- MODULE IndexingLease -----------------------------
(***************************************************************************)
(* scripts/index_policy_documents.py builds one collection under a         *)
(* MaintainedIndexingLease: acquire the lease, start the heartbeat, read   *)
(* the stored entries, write the difference in one fenced transaction,     *)
(* release.  The build and its heartbeat thread are separate connections   *)
(* and interleave; a builder may crash in any step and start again under   *)
(* the same owner_id.                                                      *)
(***************************************************************************)
EXTENDS VectorTables

CONSTANTS
    TTL,            \* ttl_seconds
    MaxDelay        \* environment: how long a guarded statement may run after
                    \* the BEGIN of its transaction (GuardedStatementsPrompt)

ASSUME LeaseAssumption ==
    /\ TTL \in Nat \ {0}
    /\ MaxDelay \in Nat

VARIABLES
    session,        \* the build of each builder
    beat,           \* its heartbeat thread
    overrun         \* history: collections a late guard let through (PassGuard)

leaseVars == <<session, beat, overrun>>

Phases ==
    {"idle",
     "acquireBegun", "acquireLocked", "acquireChecked",  \* acquire
     "leased",                                           \* inside the with block
     "listed",                                           \* list_entries has returned
     "writeBegun", "writeLocked",                        \* apply_changes_guarded
     "written",
     "releaseBegun"}                                     \* __exit__, release

SessionRow == [phase : Phases, collection : Collections \cup {None},
               wanted : Manifests, view : Manifests, fence : Nat, begun : Times,
               healthy : BOOLEAN, failed : BOOLEAN]
IdleSession == [phase |-> "idle", collection |-> None, wanted |-> EmptyManifest,
                view |-> EmptyManifest, fence |-> 0, begun |-> 0,
                healthy |-> TRUE, failed |-> FALSE]

BeatRow == [stage : {"off", "waiting", "begun"}, begun : Times]
NoBeat == [stage |-> "off", begun |-> 0]

LeaseTypeOK ==
    /\ session \in [Builders -> SessionRow]
    /\ beat \in [Builders -> BeatRow]
    /\ overrun \subseteq Collections

LeaseInit ==
    /\ session = [b \in Builders |-> IdleSession]
    /\ beat = [b \in Builders |-> NoBeat]
    /\ overrun = {}

Target(b) == session[b].collection
InPhase(b, phase) == session[b].phase = phase
GoTo(b, phase) == session' = [session EXCEPT ![b].phase = phase]

\* WHERE owner_id = .. AND lease_token = .. AND fencing_token = ..
Owns(b) ==
    /\ lease[Target(b)].owner = b
    /\ lease[Target(b)].fence = session[b].fence

\* lock_for_write and renew compare expires_at with the time of their BEGIN.  One
\* that passes although the lease has expired at present is late; overrun keeps its
\* collection until the next generation.  No action reads it.
PassGuard(c) == overrun' = IF Active(c, now) THEN overrun ELSE overrun \cup {c}

-----------------------------------------------------------------------------
(* acquire                                                                  *)

AcquireBegin(b, c) ==
    /\ InPhase(b, "idle")
    /\ lease[c].fence < MaxFence
    /\ session' = [session EXCEPT ![b] =
           [IdleSession EXCEPT !.phase = "acquireBegun", !.collection = c,
                               !.begun = now]]
    /\ UNCHANGED <<tables, beat, overrun>>

\* Mutant: the live lease of another builder is not looked at.
AcquireLockBlind(b) ==
    /\ InPhase(b, "acquireBegun")
    /\ LockLease(b, Target(b))
    /\ GoTo(b, "acquireLocked")
    /\ UNCHANGED <<now, rows, lease, pointer, pointerLock, history, mark, beat, overrun>>

AcquireLock(b) ==
    /\ InPhase(b, "acquireBegun")
    /\ LockLease(b, Target(b))
    /\ ~Active(Target(b), session[b].begun)
    /\ GoTo(b, "acquireLocked")
    /\ UNCHANGED <<now, rows, lease, pointer, pointerLock, history, mark, beat, overrun>>

AcquireCheckReferences(b) ==
    /\ InPhase(b, "acquireLocked")
    /\ ~Referenced(Target(b))
    /\ GoTo(b, "acquireChecked")
    /\ UNCHANGED <<tables, beat, overrun>>

\* Mutant: a released row is started afresh.
FenceRestarts(c) == IF lease[c].owner = None THEN 1 ELSE lease[c].fence + 1

NextFence(c) == lease[c].fence + 1

\* UPDATE the row and commit; __enter__ keeps the lease and starts the heartbeat.
AcquireCommit(b) ==
    LET c == Target(b)
        ts == session[b].begun
        fence == NextFence(c)
    IN /\ InPhase(b, "acquireChecked")
       /\ lease' = [lease EXCEPT ![c] =
              [owner |-> b, fence |-> fence, acquired |-> ts, renewed |-> ts,
               expires |-> ts + TTL, released |-> 0]]
       /\ UnlockLeases(b)
       /\ session' = [session EXCEPT ![b] =
              [@ EXCEPT !.phase = "leased", !.fence = fence, !.begun = 0]]
       /\ beat' = [beat EXCEPT ![b] = [stage |-> "waiting", begun |-> 0]]
       /\ overrun' = overrun \ {c}
       /\ UNCHANGED <<now, rows, pointer, pointerLock, history, mark>>

\* A live lease, a referenced collection or a database error: the transaction
\* rolls back and the build is over before it started.
AcquireFails(b) ==
    /\ session[b].phase \in {"acquireBegun", "acquireLocked", "acquireChecked"}
    /\ session' = [session EXCEPT ![b] = IdleSession]
    /\ UnlockLeases(b)
    /\ UNCHANGED <<now, rows, lease, pointer, pointerLock, history, mark, beat, overrun>>

-----------------------------------------------------------------------------
(* The build inside the with block                                          *)

\* index_policy_documents: the documents are read and chunked under the lease,
\* then list_entries asks for what is stored.
ListEntries(b, m) ==
    /\ InPhase(b, "leased")
    /\ session' = [session EXCEPT ![b] = [@ EXCEPT !.phase = "listed", !.wanted = m,
                                                   !.view = Manifest(Target(b))]]
    /\ UNCHANGED <<tables, beat, overrun>>

\* lock_for_write asks require_healthy first; BEGIN goes with its SELECT.
WriteBegin(b) ==
    /\ InPhase(b, "listed")
    /\ session[b].healthy
    /\ session' = [session EXCEPT ![b] = [@ EXCEPT !.phase = "writeBegun", !.begun = now]]
    /\ UNCHANGED <<tables, beat, overrun>>

\* Mutant: the row's owner and generation are not compared.
WriteLockAnyOwner(b) ==
    /\ InPhase(b, "writeBegun")
    /\ LockLease(b, Target(b))
    /\ Active(Target(b), session[b].begun)
    /\ GoTo(b, "writeLocked")
    /\ PassGuard(Target(b))
    /\ UNCHANGED <<now, rows, lease, pointer, pointerLock, history, mark, beat>>

WriteLock(b) ==
    /\ InPhase(b, "writeBegun")
    /\ LockLease(b, Target(b))
    /\ Owns(b)
    /\ Active(Target(b), session[b].begun)
    /\ GoTo(b, "writeLocked")
    /\ PassGuard(Target(b))
    /\ UNCHANGED <<now, rows, lease, pointer, pointerLock, history, mark, beat>>

WriteCommit(b) ==
    LET s == session[b]
    IN /\ InPhase(b, "writeLocked")
       /\ rows' = [rows EXCEPT ![s.collection] =
              Applied(s.collection, s.view, s.wanted, s.begun)]
       /\ UnlockLeases(b)
       /\ session' = [session EXCEPT ![b] = [@ EXCEPT !.phase = "written", !.begun = 0,
                                                      !.view = EmptyManifest]]
       /\ UNCHANGED <<now, lease, pointer, pointerLock, history, mark, beat, overrun>>

\* An exception leaves the with block: a parser or embedding error, an unhealthy
\* heartbeat, a rejected fence (the SELECT returned no row) or a database error.
\* What the block had read is gone.  __exit__ stops the heartbeat loop, waits for
\* it no longer than the join timeout, and starts the release.
StoppedBeat(b) == IF beat[b].stage = "begun" THEN beat[b] ELSE NoBeat

BuildFails(b) ==
    /\ session[b].phase \in {"leased", "listed", "writeBegun", "writeLocked"}
    /\ session' = [session EXCEPT ![b] =
           [@ EXCEPT !.phase = "releaseBegun", !.begun = now, !.failed = TRUE,
                     !.wanted = EmptyManifest, !.view = EmptyManifest]]
    /\ beat' = [beat EXCEPT ![b] = StoppedBeat(b)]
    /\ UnlockLeases(b)
    /\ UNCHANGED <<now, rows, lease, pointer, pointerLock, history, mark, overrun>>

\* The block ended: require_healthy, then __exit__ as above.
BuildDone(b) ==
    /\ InPhase(b, "written")
    /\ session' = [session EXCEPT ![b] =
           [@ EXCEPT !.phase = "releaseBegun", !.begun = now,
                     !.failed = ~session[b].healthy]]
    /\ beat' = [beat EXCEPT ![b] = StoppedBeat(b)]
    /\ UNCHANGED <<tables, overrun>>

-----------------------------------------------------------------------------
(* release and the heartbeat: one UPDATE each, which waits for the row lock  *)

Release(b) ==
    LET c == Target(b)
    IN /\ InPhase(b, "releaseBegun")
       /\ leaseLock[c] = None
       /\ Owns(b)
       /\ lease' = [lease EXCEPT ![c] = [@ EXCEPT !.owner = None, !.expires = 0,
                                                  !.released = session[b].begun]]
       /\ session' = [session EXCEPT ![b] = IdleSession]
       /\ beat' = [beat EXCEPT ![b] = NoBeat]
       /\ UNCHANGED <<now, rows, leaseLock, pointer, pointerLock, history, mark, overrun>>

\* The row belongs to another generation: IndexingLeaseLostError, exit.
ReleaseLost(b) ==
    /\ InPhase(b, "releaseBegun")
    /\ leaseLock[Target(b)] = None
    /\ ~Owns(b)
    /\ session' = [session EXCEPT ![b] = IdleSession]
    /\ beat' = [beat EXCEPT ![b] = NoBeat]
    /\ UNCHANGED <<tables, overrun>>

HeartbeatBegin(b) ==
    /\ beat[b].stage = "waiting"
    /\ beat' = [beat EXCEPT ![b] = [stage |-> "begun", begun |-> now]]
    /\ UNCHANGED <<tables, session, overrun>>

Renew(b) ==
    LET c == Target(b)
        ts == beat[b].begun
    IN /\ beat[b].stage = "begun"
       /\ leaseLock[c] = None
       /\ Owns(b)
       /\ Active(c, ts)
       /\ lease' = [lease EXCEPT ![c] = [@ EXCEPT !.renewed = ts, !.expires = ts + TTL]]
       /\ beat' = [beat EXCEPT ![b] =
              IF InPhase(b, "releaseBegun") THEN NoBeat
              ELSE [stage |-> "waiting", begun |-> 0]]
       /\ PassGuard(c)
       /\ UNCHANGED <<now, rows, leaseLock, pointer, pointerLock, history, mark, session>>

\* No row matched, or the connection failed: the thread records the failure for
\* require_healthy and ends.
HeartbeatFails(b) ==
    /\ beat[b].stage = "begun"
    /\ session' = [session EXCEPT ![b].healthy = FALSE]
    /\ beat' = [beat EXCEPT ![b] = NoBeat]
    /\ UNCHANGED <<tables, overrun>>

\* The process dies: its transactions roll back, its lease row stays.
BuilderCrash(b) ==
    /\ ~InPhase(b, "idle")
    /\ session' = [session EXCEPT ![b] = IdleSession]
    /\ beat' = [beat EXCEPT ![b] = NoBeat]
    /\ UnlockLeases(b)
    /\ UNCHANGED <<now, rows, lease, pointer, pointerLock, history, mark, overrun>>

-----------------------------------------------------------------------------
(* The clock.  lock_for_write and renew compare expires_at with the time of  *)
(* BEGIN; MaxDelay bounds how far the clock runs between that BEGIN and the  *)
(* statement.  PostgreSQL promises no bound, and no property assumes one: they *)
(* hold for every MaxDelay, and say what a late guard (overrun) excepts.     *)

GuardedStatementsPrompt ==
    \A b \in Builders :
        /\ InPhase(b, "writeBegun") => now < session[b].begun + MaxDelay
        /\ beat[b].stage = "begun" => now < beat[b].begun + MaxDelay

Tick ==
    /\ now < MaxTime
    /\ GuardedStatementsPrompt
    /\ now' = now + 1
    /\ UNCHANGED <<rows, lease, leaseLock, pointer, pointerLock, history, mark, leaseVars>>

Builder(b) ==
    \/ \E c \in Collections : AcquireBegin(b, c)
    \/ AcquireLock(b)
    \/ AcquireCheckReferences(b)
    \/ AcquireCommit(b)
    \/ AcquireFails(b)
    \/ \E m \in Corpora : ListEntries(b, m)
    \/ WriteBegin(b)
    \/ WriteLock(b)
    \/ WriteCommit(b)
    \/ BuildFails(b)
    \/ BuildDone(b)
    \/ Release(b)
    \/ ReleaseLost(b)
    \/ HeartbeatBegin(b)
    \/ Renew(b)
    \/ HeartbeatFails(b)
    \/ BuilderCrash(b)

LeaseNext == Tick \/ \E b \in Builders : Builder(b)

BuildInit == TablesInit /\ LeaseInit

LeaseSpec == BuildInit /\ [][LeaseNext]_<<tables, leaseVars>>

-----------------------------------------------------------------------------
(* Properties                                                               *)

\* Fencing (lock_for_write): whoever is about to write a collection holds its
\* control row locked and is the generation that row names, however long ago its
\* transaction began and whoever took the lease over in between.
WriterIsCurrentGeneration ==
    \A b \in Builders : InPhase(b, "writeLocked") =>
        Owns(b) /\ leaseLock[Target(b)] = b

\* fencing_token survives release, expiry and crash: two builds of one
\* collection never carry the same generation (the acquire and release UPDATEs).
GenerationsAreUnique ==
    \A b1, b2 \in Builders :
        /\ b1 # b2
        /\ session[b1].fence > 0
        /\ Target(b1) = Target(b2)
        => session[b1].fence # session[b2].fence

\* A generation has one builder, and only the current one writes.
FencingIsExact == WriterIsCurrentGeneration /\ GenerationsAreUnique

\* acquire's test uses the time its transaction began, which may be long past;
\* still no lease that is live at present is ever taken over.
LiveLeaseIsNeverTaken ==
    [][\A c \in Collections :
          lease'[c].fence # lease[c].fence => ~Active(c, now)]_<<lease, now>>

\* A build that has written finds in the collection, while its lease is live,
\* exactly the corpus it indexed, although it read the stored entries in one
\* transaction and wrote the difference in a later one (synchronize), and builds
\* of other generations, before and after it, and sweeps write there too.  Only
\* after a late renewal has revived its expired lease may it be wrong.
Built(b) ==
    \/ InPhase(b, "written")
    \/ InPhase(b, "releaseBegun") /\ ~session[b].failed
BuildIsExact ==
    \A b \in Builders :
        Built(b) /\ Owns(b) /\ Active(Target(b), now) /\ Target(b) \notin overrun
        => Manifest(Target(b)) = session[b].wanted
=============================================================================

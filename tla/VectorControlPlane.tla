--------------------------- MODULE VectorControlPlane ---------------------------
(***************************************************************************)
(* Builders, release operators and garbage collectors on the shared        *)
(* tables: the coordination of Phases 35 to 37, in which every vector      *)
(* write goes through a lease.                                             *)
(***************************************************************************)
EXTENDS IndexingLease, CollectionRelease, CollectionGC

vars == <<tables, session, beat, overrun, release, gc>>

Init == TablesInit /\ LeaseInit /\ ReleaseInit /\ GCInit

\* A release validates the collection it makes referenced: a guard that was late
\* before it no longer counts.
Revalidated == overrun' = {c \in overrun : Referenced(c) \/ ~Referenced(c)'}

Next ==
    \/ Tick /\ UNCHANGED <<release, gc>>
    \/ \E b \in Builders : Builder(b) /\ UNCHANGED <<release, gc>>
    \/ \E o \in Operators : Operator(o) /\ Revalidated /\ UNCHANGED <<session, beat, gc>>
    \/ \E k \in Collectors : Collector(k) /\ UNCHANGED <<session, beat, overrun, release>>

Spec == Init /\ [][Next]_vars

-----------------------------------------------------------------------------
(* Properties of the composition                                            *)

TypeOK == TablesTypeOK /\ LeaseTypeOK /\ ReleaseTypeOK /\ GCTypeOK

\* What an alias serves is, at all times, exactly the snapshot that was
\* validated when it was released: no builder, earlier or later, and no sweep
\* touches it (docs/distributed_indexing_lease.md).
PublishedSnapshotIntact ==
    \A a \in Aliases :
        pointer[a].generation > 0 =>
            Manifest(pointer[a].active) = pointer[a].snapshot

\* The same of every collection that no late guard has reached since its release
\* (lease test in publish, reference tests in acquire and sweep, all under the
\* control row): a late lock_for_write or renew is the only way to change it.
ReleasedContentIntact ==
    \A a \in Aliases :
        pointer[a].generation > 0 /\ pointer[a].active \notin overrun =>
            Manifest(pointer[a].active) = pointer[a].snapshot

\* The collection kept for rollback has a history row, and still has the content
\* recorded when the alias last released it, so that the rollback's validation
\* fails on content only after a late guard.
RollbackTargetIntact ==
    \A a \in Aliases :
        LET c == pointer[a].previous
        IN c # None =>
             /\ HistoryRows(a, c) # {}
             /\ c \notin overrun => Manifest(c) = LatestHistory(a, c).snapshot

\* The history of an alias tells what it served, and what it can return to.
HistoryIsTrue == AuditTrailMatchesPointer /\ RollbackTargetIntact

\* No lease is live on a collection an alias serves or can roll back to, unless
\* a late renewal has revived it.
ReferencedCollectionsUnleased ==
    \A c \in Collections : Referenced(c) /\ c \notin overrun => ~Active(c, now)

-----------------------------------------------------------------------------
(* The abstract specification.  The two newest snapshots of an alias are the *)
(* rows its active and previous collections hold now, unless a late guard    *)
(* reached them; these and older ones are what the history recorded.         *)

ReleaseAt(a, g) == CHOOSE h \in history[a] : h.generation = g

ServedSnapshot(a, g) ==
    LET c == IF g = pointer[a].generation THEN pointer[a].active
             ELSE pointer[a].previous
    IN IF g < pointer[a].generation - 1 \/ c \in overrun
       THEN ReleaseAt(a, g).snapshot
       ELSE Manifest(c)

ServedLog ==
    [a \in Aliases |-> [g \in 1 .. pointer[a].generation |->
        [action |-> ReleaseAt(a, g).action, snapshot |-> ServedSnapshot(a, g)]]]

Promise == INSTANCE ReleaseLog WITH Snapshots <- Manifests, log <- ServedLog

\* Builders, operators, collectors and their crashes together look like the log:
\* what an alias serves and what a rollback would restore change only by a
\* release (or under a late guard), and a rollback restores precisely the content
\* served before, late guards or not.
ImplementsReleaseLog == Promise!Spec

-----------------------------------------------------------------------------
(* Why the published snapshots stay intact: the inductive invariant.  Who    *)
(* has passed a test keeps the control row locked until it commits, so that  *)
(* the answer to the test cannot change.                                     *)

LeasedPhases ==
    {"leased", "listed", "writeBegun", "writeLocked", "written", "releaseBegun"}

WellFormed ==
    /\ \A b \in Builders :
          /\ ~InPhase(b, "idle") => Target(b) \in Collections
          /\ beat[b].stage # "off" => session[b].phase \in LeasedPhases
    /\ \A o \in Operators : ~ReleaseIn(o, "idle") =>
          /\ release[o].alias \in Aliases
          /\ release[o].begun <= now
          /\ release[o].action = "publish" \/ ~ReleaseIn(o, "begun")
             => release[o].target \in Collections
    /\ \A k \in Collectors : ~GCIn(k, "idle") => Candidate(k) \in Collections
    /\ \A a \in Aliases : pointer[a].generation > 0 => pointer[a].active \in Collections

Excludes(x, c) == leaseLock[c] = x /\ ~Referenced(c)

WriterExcludes(b) ==
    /\ leaseLock[Target(b)] = b
    /\ Target(b) \notin overrun => ~Referenced(Target(b))

BuildersExclude ==
    \A b \in Builders :
        /\ InPhase(b, "acquireLocked") => leaseLock[Target(b)] = b
        /\ InPhase(b, "acquireChecked") => Excludes(b, Target(b))
        /\ InPhase(b, "writeLocked") => WriterExcludes(b)

CollectorsExclude ==
    \A k \in Collectors :
        /\ GCIn(k, "sweepLocked") => leaseLock[Candidate(k)] = k
        /\ GCIn(k, "sweepChecked") \/ GCIn(k, "sweepReady") => Excludes(k, Candidate(k))

HoldsTarget(o) ==
    LET c == release[o].target
    IN /\ ReleaseIn(o, "leaseLocked") \/ ReleaseIn(o, "validated")
          => leaseLock[c] = o /\ ~Active(c, now)
       /\ ReleaseIn(o, "validated") => Manifest(c) = release[o].snapshot

OperatorsExclude == \A o \in Operators : HoldsTarget(o)

Protection ==
    /\ WellFormed
    /\ ReferencedCollectionsUnleased
    /\ BuildersExclude
    /\ CollectorsExclude
    /\ OperatorsExclude
    /\ ReleasedContentIntact
=============================================================================

----------------------------- MODULE VectorTables -----------------------------
(***************************************************************************)
(* The PostgreSQL tables that index builders, release operators and the    *)
(* collection garbage collector share: vector rows, indexing-lease control *)
(* rows, release pointers with their history, and GC marks, together with  *)
(* the row locks SELECT ... FOR UPDATE takes on the first two.             *)
(*                                                                         *)
(* A transaction is several steps of one client.  CURRENT_TIMESTAMP is the *)
(* time its BEGIN was executed, so a client records `now' when it begins   *)
(* and every later test of that transaction uses the recorded time.        *)
(* Isolation is READ COMMITTED: each step reads the committed tables, and  *)
(* what a transaction writes appears in the step that commits it.          *)
(***************************************************************************)
EXTENDS Integers, FiniteSets, FiniteSetsExt

CONSTANTS
    Collections,    \* physical collection names
    RecordIds,      \* chunk ids
    Fingerprints,   \* values of a record's index_fingerprint
    Aliases,        \* release aliases
    Builders,       \* indexing processes: an owner_id each
    Operators,      \* connections running publish or rollback
    Collectors,     \* connections running GC mark or sweep
    None,           \* SQL NULL, no owner, no row
    MaxTime,        \* bound: the clock stops here
    MaxFence,       \* bound: acquisitions of one collection
    MaxGeneration   \* bound: releases of one alias

Clients == Builders \cup Operators \cup Collectors

ASSUME TablesAssumption ==
    /\ IsFiniteSet(RecordIds)
    /\ RecordIds # {}
    /\ None \notin Collections \cup Fingerprints \cup Clients \cup Aliases
    /\ Builders \cap Operators = {}
    /\ Builders \cap Collectors = {}
    /\ Operators \cap Collectors = {}
    /\ MaxTime \in Nat \ {0}
    /\ MaxFence \in Nat
    /\ MaxGeneration \in Nat

VARIABLES
    now,          \* the database clock
    rows,         \* rag_policy_vectors
    lease,        \* rag_vector_indexing_leases
    leaseLock,    \* who holds a lease control row FOR UPDATE
    pointer,      \* rag_vector_collection_releases
    pointerLock,  \* who holds a pointer row FOR UPDATE
    history,      \* rag_vector_collection_release_history
    mark          \* rag_vector_collection_gc_marks

tables == <<now, rows, lease, leaseLock, pointer, pointerLock, history, mark>>

-----------------------------------------------------------------------------
(* Rows.  Time 0 is a NULL timestamp: the clock starts at 1.  A digest is   *)
(* modelled as the manifest it digests.                                     *)

Times == 0 .. MaxTime
Manifests == [RecordIds -> Fingerprints \cup {None}]
EmptyManifest == [r \in RecordIds |-> None]
Corpora == Manifests \ {EmptyManifest}

VectorRow == [fingerprint : Fingerprints \cup {None}, updated : Times]
NoRow == [fingerprint |-> None, updated |-> 0]

\* lease_token is drawn afresh by every acquire, as fence is: fence stands for both.
\* Expiry may lie beyond the last instant of the clock.
LeaseRow == [owner : Builders \cup {None}, fence : Nat,
             acquired : Times, renewed : Times, expires : Nat, released : Times]
FreshLease == [owner |-> None, fence |-> 0, acquired |-> 0, renewed |-> 0,
               expires |-> 0, released |-> 0]

PointerRow == [generation : Nat, active : Collections \cup {None},
               previous : Collections \cup {None}, snapshot : Manifests]
NoPointer == [generation |-> 0, active |-> None, previous |-> None,
              snapshot |-> EmptyManifest]

HistoryRow == [generation : Nat, action : {"publish", "rollback"},
               collection : Collections, replaced : Collections \cup {None},
               snapshot : Manifests]

MarkRow == [token : Nat, fence : Nat, count : Nat, activity : Nat,
            marked : Times, sweepAfter : Nat, swept : Times]
NoMark == [token |-> 0, fence |-> 0, count |-> 0, activity |-> 0,
           marked |-> 0, sweepAfter |-> 0, swept |-> 0]

TablesTypeOK ==
    /\ now \in 1 .. MaxTime
    /\ rows \in [Collections -> [RecordIds -> VectorRow]]
    /\ lease \in [Collections -> LeaseRow]
    /\ leaseLock \in [Collections -> Clients \cup {None}]
    /\ pointer \in [Aliases -> PointerRow]
    /\ pointerLock \in [Aliases -> Operators \cup {None}]
    /\ history \in [Aliases -> SUBSET HistoryRow]
    /\ mark \in [Collections -> MarkRow]

TablesInit ==
    /\ now = 1
    /\ rows = [c \in Collections |-> [r \in RecordIds |-> NoRow]]
    /\ lease = [c \in Collections |-> FreshLease]
    /\ leaseLock = [c \in Collections |-> None]
    /\ pointer = [a \in Aliases |-> NoPointer]
    /\ pointerLock = [a \in Aliases |-> None]
    /\ history = [a \in Aliases |-> {}]
    /\ mark = [c \in Collections |-> NoMark]

-----------------------------------------------------------------------------
(* What the statements of every component read.                             *)

\* (expires_at IS NOT NULL AND expires_at > CURRENT_TIMESTAMP) in a
\* transaction that began at ts.
Active(c, ts) == lease[c].expires > ts

\* Mutant: only the active collection counts as referenced.
ReferencedAsActive(c) == \E a \in Aliases : c = pointer[a].active

\* Some alias names c as its active or its previous collection.
Referenced(c) ==
    \E a \in Aliases : c \in {pointer[a].active, pointer[a].previous}

Manifest(c) == [r \in RecordIds |-> rows[c][r].fingerprint]
LiveRecords(c) == {r \in RecordIds : rows[c][r].fingerprint # None}
RecordCount(c) == Cardinality(LiveRecords(c))

\* MAX(updated_at) of the collection, NULL when it is empty.
VectorsUpdated(c) == Max({0} \cup {rows[c][r].updated : r \in LiveRecords(c)})

\* GREATEST(updated, acquired_at, renewed_at, released_at), which skips NULLs.
LastActivity(c) ==
    Max({VectorsUpdated(c), lease[c].acquired, lease[c].renewed, lease[c].released})

-----------------------------------------------------------------------------
(* What the statements of every component do.                               *)

\* lock_indexing_lease_row: insert the control row if it is missing (an absent
\* row reads as FreshLease) and lock it.
LockLease(x, c) ==
    /\ leaseLock[c] = None
    /\ leaseLock' = [leaseLock EXCEPT ![c] = x]

\* The locks a transaction of x holds go when it commits or rolls back.
UnlockLeases(x) ==
    leaseLock' = [c \in Collections |-> IF leaseLock[c] = x THEN None ELSE leaseLock[c]]

\* PolicyDocumentIndexer.synchronize followed by apply_changes: only the
\* difference between the manifest read earlier and the wanted one is written.
\* Mutant: a record that exists is never rewritten.
InsertsOnly(view, wanted) == {r \in RecordIds : wanted[r] # None /\ view[r] = None}

Upserts(view, wanted) ==
    {r \in RecordIds : wanted[r] # None /\ view[r] # wanted[r]}
StaleIds(view, wanted) ==
    {r \in RecordIds : view[r] # None /\ wanted[r] = None}
Applied(c, view, wanted, ts) ==
    [r \in RecordIds |->
        IF r \in Upserts(view, wanted)
        THEN [fingerprint |-> wanted[r], updated |-> ts]
        ELSE IF r \in StaleIds(view, wanted) THEN NoRow ELSE rows[c][r]]
=============================================================================

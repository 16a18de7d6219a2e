--------------------------- MODULE CollectionRelease ---------------------------
(***************************************************************************)
(* PgVectorCollectionReleaseManager: publish and rollback move a release   *)
(* alias in one transaction that locks the pointer row, compares the       *)
(* generation the operator saw, locks the lease control row of the target  *)
(* and validates the target's manifest.  Any failed test raises and rolls  *)
(* the transaction back.                                                   *)
(***************************************************************************)
EXTENDS VectorTables

VARIABLE release    \* the transaction of each operator

releaseVars == release

ReleasePhases ==
    {"idle", "begun", "pointerLocked", "leaseLocked", "validated"}

ReleaseRow == [phase : ReleasePhases, action : {"publish", "rollback"},
               alias : Aliases \cup {None}, target : Collections \cup {None},
               expected : Nat, snapshot : Manifests, begun : Times]
IdleRelease == [phase |-> "idle", action |-> "publish", alias |-> None,
                target |-> None, expected |-> 0, snapshot |-> EmptyManifest,
                begun |-> 0]

ReleaseTypeOK == release \in [Operators -> ReleaseRow]
ReleaseInit == release = [o \in Operators |-> IdleRelease]

ReleaseIn(o, phase) == release[o].phase = phase
HistoryRows(a, c) == {h \in history[a] : h.collection = c}
\* ORDER BY generation DESC LIMIT 1
LatestHistory(a, c) ==
    CHOOSE h \in HistoryRows(a, c) :
        \A g \in HistoryRows(a, c) : g.generation <= h.generation

-----------------------------------------------------------------------------
(* The operator reads status, then starts the command with the generation it *)
(* saw: another release may commit in between.                               *)

PublishBegin(o, a, c, m) ==
    /\ ReleaseIn(o, "idle")
    /\ pointer[a].generation < MaxGeneration
    /\ release' = [release EXCEPT ![o] =
           [phase |-> "begun", action |-> "publish", alias |-> a, target |-> c,
            expected |-> pointer[a].generation, snapshot |-> m, begun |-> now]]
    /\ UNCHANGED tables

\* expected_generation must be at least 1.
RollbackBegin(o, a) ==
    /\ ReleaseIn(o, "idle")
    /\ pointer[a].generation \in 1 .. MaxGeneration - 1
    /\ release' = [release EXCEPT ![o] =
           [IdleRelease EXCEPT !.phase = "begun", !.action = "rollback", !.alias = a,
                               !.expected = pointer[a].generation, !.begun = now]]
    /\ UNCHANGED tables

\* SELECT the pointer row FOR UPDATE and compare the generation.  A missing row
\* (generation 0) leaves nothing to lock.
LockPointer(o) ==
    LET a == release[o].alias
    IN /\ ReleaseIn(o, "begun")
       /\ pointerLock[a] = None
       /\ pointer[a].generation = release[o].expected
       /\ pointerLock' = IF pointer[a].generation = 0 THEN pointerLock
                         ELSE [pointerLock EXCEPT ![a] = o]

PublishLockPointer(o) ==
    /\ release[o].action = "publish"
    /\ LockPointer(o)
    /\ pointer[release[o].alias].active # release[o].target
    /\ release' = [release EXCEPT ![o].phase = "pointerLocked"]
    /\ UNCHANGED <<now, rows, lease, leaseLock, pointer, history, mark>>

RollbackLockPointer(o) ==
    LET target == pointer[release[o].alias].previous
    IN /\ release[o].action = "rollback"
       /\ LockPointer(o)
       /\ target # None
       /\ release' = [release EXCEPT ![o] = [@ EXCEPT !.phase = "pointerLocked",
                                                      !.target = target]]
       /\ UNCHANGED <<now, rows, lease, leaseLock, pointer, history, mark>>

\* Mutant: the row is locked and its lease not looked at.
LockTargetRow(o) ==
    LET c == release[o].target
    IN /\ ReleaseIn(o, "pointerLocked")
       /\ LockLease(o, c)
       /\ release' = [release EXCEPT ![o].phase = "leaseLocked"]
       /\ UNCHANGED <<now, rows, lease, pointer, pointerLock, history, mark>>

\* assert_collection_has_no_active_lease
LockTargetLease(o) ==
    LET c == release[o].target
    IN /\ ReleaseIn(o, "pointerLocked")
       /\ LockLease(o, c)
       /\ ~Active(c, release[o].begun)
       /\ release' = [release EXCEPT ![o].phase = "leaseLocked"]
       /\ UNCHANGED <<now, rows, lease, pointer, pointerLock, history, mark>>

\* What the target must contain: the snapshot the caller expects, or for a
\* rollback the one recorded when the target was last released.
ExpectedSnapshot(o) ==
    IF release[o].action = "publish" THEN release[o].snapshot
    ELSE LatestHistory(release[o].alias, release[o].target).snapshot

Validate(o) ==
    LET c == release[o].target
    IN /\ ReleaseIn(o, "leaseLocked")
       /\ release[o].action = "rollback" => HistoryRows(release[o].alias, c) # {}
       /\ Manifest(c) = ExpectedSnapshot(o)
       /\ release' = [release EXCEPT ![o] = [@ EXCEPT !.phase = "validated",
                                                      !.snapshot = ExpectedSnapshot(o)]]
       /\ UNCHANGED tables

\* What the transaction writes.  Both actions move active to the target and previous
\* to the old active collection.
\* Mutants: previous is written while NULL only; the history names the collection before the replaced one.
MovedKeepingPrevious(o) ==
    LET p == pointer[release[o].alias]
    IN [generation |-> release[o].expected + 1, active |-> release[o].target,
        previous |-> IF p.previous = None THEN p.active ELSE p.previous,
        snapshot |-> release[o].snapshot]
RecordedReplacingPrevious(o) ==
    [generation |-> release[o].expected + 1, action |-> release[o].action,
     collection |-> release[o].target, replaced |-> pointer[release[o].alias].previous,
     snapshot |-> release[o].snapshot]

Moved(o) ==
    [generation |-> release[o].expected + 1, active |-> release[o].target,
     previous |-> pointer[release[o].alias].active, snapshot |-> release[o].snapshot]
Recorded(o) ==
    [generation |-> release[o].expected + 1, action |-> release[o].action,
     collection |-> release[o].target, replaced |-> pointer[release[o].alias].active,
     snapshot |-> release[o].snapshot]

\* Mutant: both tables are written with ON CONFLICT DO UPDATE.
ReleaseUpserts(o) ==
    LET a == release[o].alias
    IN /\ ReleaseIn(o, "validated")
       /\ pointer' = [pointer EXCEPT ![a] = Moved(o)]
       /\ history' = [history EXCEPT ![a] =
              {h \in @ : h.generation # Recorded(o).generation} \cup {Recorded(o)}]
       /\ pointerLock' = [pointerLock EXCEPT ![a] = None]
       /\ UnlockLeases(o)
       /\ release' = [release EXCEPT ![o] = IdleRelease]
       /\ UNCHANGED <<now, rows, lease, mark>>

\* Insert the pointer (a primary key violation if somebody was faster) or update
\* it WHERE generation = expected, insert the history row (its primary key is the
\* generation), commit.
ReleaseCommit(o) ==
    LET a == release[o].alias
    IN /\ ReleaseIn(o, "validated")
       /\ pointer[a].generation = release[o].expected
       /\ \A h \in history[a] : h.generation # release[o].expected + 1
       /\ pointer' = [pointer EXCEPT ![a] = Moved(o)]
       /\ history' = [history EXCEPT ![a] = @ \cup {Recorded(o)}]
       /\ pointerLock' = [pointerLock EXCEPT ![a] = None]
       /\ UnlockLeases(o)
       /\ release' = [release EXCEPT ![o] = IdleRelease]
       /\ UNCHANGED <<now, rows, lease, mark>>

\* A failed test, a lost connection or a dead process: roll back.
ReleaseAborts(o) ==
    /\ ~ReleaseIn(o, "idle")
    /\ pointerLock' =
           [a \in Aliases |-> IF pointerLock[a] = o THEN None ELSE pointerLock[a]]
    /\ UnlockLeases(o)
    /\ release' = [release EXCEPT ![o] = IdleRelease]
    /\ UNCHANGED <<now, rows, lease, pointer, history, mark>>

Operator(o) ==
    \/ \E a \in Aliases, c \in Collections, m \in Corpora : PublishBegin(o, a, c, m)
    \/ \E a \in Aliases : RollbackBegin(o, a)
    \/ PublishLockPointer(o)
    \/ RollbackLockPointer(o)
    \/ LockTargetLease(o)
    \/ Validate(o)
    \/ ReleaseCommit(o)
    \/ ReleaseAborts(o)

-----------------------------------------------------------------------------
(* Properties of the pointer and its history                                *)

\* The audit trail is complete and in order: one row for each generation up to
\* the pointer's, each naming the collection the generation before it released
\* as the one it replaced; the last one is the pointer (publish and rollback
\* commit both tables together, and two first publishes race on a missing row).
AuditTrailMatchesPointer ==
    \A a \in Aliases :
        LET p == pointer[a]
        IN /\ {h.generation : h \in history[a]} = 1 .. p.generation
           /\ Cardinality(history[a]) = p.generation
           /\ \A h \in history[a] :
                 h.generation = p.generation =>
                     /\ p.active = h.collection
                     /\ p.previous = h.replaced
                     /\ p.snapshot = h.snapshot
           /\ \A h, g \in history[a] :
                 g.generation = h.generation + 1 => g.replaced = h.collection

\* Compare-and-swap: the release that moves an alias was started by an operator
\* who saw the very generation it replaces, so no release overwrites a decision
\* its operator had not seen.
ReleaseSawItsPredecessor ==
    [][\A a \in Aliases, o \in Operators :
          pointer'[a] # pointer[a] /\ release'[o] # release[o]
          => /\ release[o].alias = a
             /\ release[o].expected = pointer[a].generation
             /\ pointer'[a].generation = pointer[a].generation + 1]_<<pointer, release>>
=============================================================================

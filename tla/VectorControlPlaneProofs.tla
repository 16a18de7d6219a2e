------------------------ MODULE VectorControlPlaneProofs ------------------------
(***************************************************************************)
(* Type correctness of the composition.  TypeOK is inductive only together *)
(* with WellFormed (whoever is past the first step of a transaction names  *)
(* a real collection or alias), so the two are proved as one.  The frame   *)
(* lemmas state once what each kind of client leaves alone.  From there:   *)
(* what holding a control row gives, and what follows for leases, fences,  *)
(* sweeps and releases.                                                    *)
(***************************************************************************)
EXTENDS VectorControlPlane, FiniteSetTheorems, SequenceTheorems, TLAPS

\* A finite nonempty set of integers has a maximum: Max chooses it.
LEMMA MaxOfFinite ==
    ASSUME NEW S \in SUBSET Int, IsFiniteSet(S), S # {}
    PROVE  /\ Max(S) \in S
           /\ \A y \in S : Max(S) >= y
<1> DEFINE Above(x) == {y \in S : y > x}
           R == StrictSubsetOrdering(S)
           T == {Above(x) : x \in S}
<1>1. IsWellFoundedOn(R, FiniteSubsetsOf(S))
  BY FS_StrictSubsetOrderingWellFounded
<1>2. T \subseteq FiniteSubsetsOf(S)
  BY FS_Subset DEF FiniteSubsetsOf
<1>3. T # {}
  OBVIOUS
<1>4. PICK A \in T : \A B \in T : <<B, A>> \notin R
  <2> HIDE DEF R, T
  <2> QED BY <1>1, <1>2, <1>3, WFMin
<1>5. PICK x \in S : A = Above(x)
  BY <1>4
<1>6. \A y \in S : x >= y
  <2>1. SUFFICES ASSUME NEW y \in S, y > x PROVE FALSE
    BY DEF Above
  <2>2. x \in Int /\ y \in Int /\ y \in Above(x) /\ y \notin Above(y)
    BY <2>1
  <2>3. Above(y) \subseteq Above(x)
    <3>1. SUFFICES ASSUME NEW z \in S, z > y PROVE z > x
      BY DEF Above
    <3> QED BY <3>1, <2>1, <2>2, z \in Int
  <2>4. Above(y) \in T
    BY <2>1
  <2>5. <<Above(y), A>> \in R
    BY <2>2, <2>3, <1>5 DEF StrictSubsetOrdering
  <2> QED BY <2>4, <2>5, <1>4
<1> QED BY <1>6 DEF Max

\* A set of two elements is finite (the sets whose maximum the timestamps take).
LEMMA PairFinite ==
    ASSUME NEW x, NEW y
    PROVE  IsFiniteSet({x, y})
<1>1. {x, y} = {x} \cup {y}
  OBVIOUS
<1>2. IsFiniteSet({x}) /\ IsFiniteSet({y})
  BY FS_Singleton
<1>3. IsFiniteSet({x} \cup {y})
  BY <1>2, FS_Union
<1> QED BY <1>1, <1>3

\* What mark records of a collection is a number.
LEMMA ActivityTypes ==
    ASSUME TablesTypeOK, NEW c \in Collections
    PROVE  RecordCount(c) \in Nat /\ VectorsUpdated(c) \in Nat /\ LastActivity(c) \in Nat
<1>1. IsFiniteSet(LiveRecords(c))
  BY TablesAssumption, FS_Subset DEF LiveRecords
<1>2. RecordCount(c) \in Nat
  BY <1>1, FS_CardinalityType DEF RecordCount
<1>3. VectorsUpdated(c) \in Nat
  <2> DEFINE U == {rows[c][r].updated : r \in LiveRecords(c)}
  <2>1. U \subseteq 0 .. MaxTime
    BY DEF TablesTypeOK, LiveRecords, VectorRow, Times
  <2>2. IsFiniteSet(U) /\ U \subseteq Nat
    <3>1. IsFiniteSet(0 .. MaxTime)
      BY TablesAssumption, FS_Interval
    <3>2. U \subseteq Nat
      BY <2>1
    <3>3. IsFiniteSet(U)
      <4> HIDE DEF U
      <4> QED BY <2>1, <3>1, FS_Subset
    <3> QED BY <3>2, <3>3
  <2>3. IsFiniteSet({0} \cup U)
    <3>1. IsFiniteSet({0})
      BY FS_Singleton
    <3> HIDE DEF U
    <3> QED BY <2>2, <3>1, FS_Union
  <2>4. {0} \cup U \in SUBSET Int /\ {0} \cup U # {}
    BY <2>2
  <2>5. Max({0} \cup U) \in {0} \cup U
    BY <2>3, <2>4, MaxOfFinite
  <2> QED BY <2>2, <2>5 DEF VectorsUpdated
<1>4. LastActivity(c) \in Nat
  <2> DEFINE L == {VectorsUpdated(c), lease[c].acquired, lease[c].renewed, lease[c].released}
  <2>1. L \subseteq Nat
    BY <1>3 DEF TablesTypeOK, LeaseRow, Times
  <2>2. IsFiniteSet(L)
    <3> DEFINE L1 == {VectorsUpdated(c), lease[c].acquired}
               L2 == {lease[c].renewed, lease[c].released}
    <3>4. IsFiniteSet(L1) /\ IsFiniteSet(L2)
      BY PairFinite
    <3>3. L = L1 \cup L2
      OBVIOUS
    <3> HIDE DEF L, L1, L2
    <3> QED BY <3>3, <3>4, FS_Union
  <2>3. L \in SUBSET Int /\ L # {}
    BY <2>1
  <2>4. Max(L) \in L
    <3> HIDE DEF L
    <3> QED BY <2>2, <2>3, MaxOfFinite
  <2> QED BY <2>1, <2>4 DEF LastActivity
<1> QED BY <1>2, <1>3, <1>4

\* The records of an idle session, heartbeat, release and collection are typed.
LEMMA IdleTypes ==
    /\ EmptyManifest \in Manifests
    /\ IdleSession \in SessionRow
    /\ NoBeat \in BeatRow
    /\ IdleRelease \in ReleaseRow
    /\ IdleGC \in GCRow
    /\ NoRow \in VectorRow
<1>1. EmptyManifest \in Manifests
  BY DEF EmptyManifest, Manifests
<1>2. 0 \in Times
  BY TablesAssumption DEF Times
<1>3. IdleSession \in SessionRow
  BY <1>1, <1>2 DEF IdleSession, SessionRow, Phases
<1>4. NoBeat \in BeatRow
  BY <1>2 DEF NoBeat, BeatRow
<1>5. IdleRelease \in ReleaseRow
  BY <1>1, <1>2 DEF IdleRelease, ReleaseRow, ReleasePhases
<1>6. IdleGC \in GCRow
  BY <1>2 DEF IdleGC, GCRow, GCPhases
<1>7. NoRow \in VectorRow
  BY <1>2 DEF NoRow, VectorRow
<1> QED BY <1>1, <1>3, <1>4, <1>5, <1>6, <1>7

\* Locking or unlocking a control row keeps the table of its holders typed.
LEMMA LockTypes ==
    ASSUME TablesTypeOK, NEW x \in Clients, NEW c,
           LockLease(x, c) \/ UnlockLeases(x) \/ UNCHANGED leaseLock
    PROVE  leaseLock' \in [Collections -> Clients \cup {None}]
BY DEF TablesTypeOK, LockLease, UnlockLeases


\* Every step of a builder keeps the tables and its own records typed.
LEMMA BuilderTypes ==
    ASSUME TypeOK, WellFormed, NEW b \in Builders, Builder(b), UNCHANGED <<release, gc>>
    PROVE  TypeOK'
<1>a. b \in Clients
  BY DEF Clients
<1>b. /\ session \in [Builders -> SessionRow] /\ session[b] \in SessionRow
      /\ beat \in [Builders -> BeatRow] /\ beat[b] \in BeatRow
      /\ rows \in [Collections -> [RecordIds -> VectorRow]]
      /\ lease \in [Collections -> LeaseRow]
  BY DEF TypeOK, TablesTypeOK, LeaseTypeOK
<1>c. now \in Times /\ 0 \in Times /\ session[b].begun \in Times /\ beat[b].begun \in Times
  BY <1>b, TablesAssumption DEF TypeOK, TablesTypeOK, Times, SessionRow, BeatRow
<1>d. ~InPhase(b, "idle") \/ beat[b].stage # "off"
      => Target(b) \in Collections /\ lease[Target(b)] \in LeaseRow
  BY <1>b DEF WellFormed, InPhase, LeasedPhases
<1>e. TTL \in Nat
  BY LeaseAssumption
<1>f. overrun \subseteq Collections
  BY DEF TypeOK, LeaseTypeOK
<1>1. ASSUME NEW c \in Collections, AcquireBegin(b, c)
      PROVE  TypeOK'
  <2>1. session' \in [Builders -> SessionRow]
    BY <1>b, <1>1, <1>c, IdleTypes DEF AcquireBegin, SessionRow, Phases, Corpora, IdleSession
  <2> QED BY <1>1, <2>1 DEF AcquireBegin, tables,
    TypeOK, TablesTypeOK, LeaseTypeOK, ReleaseTypeOK, GCTypeOK
<1>2. ASSUME AcquireLock(b) PROVE TypeOK'
  <2>1. session' \in [Builders -> SessionRow]
    BY <1>b, <1>2 DEF GoTo, AcquireLock, SessionRow, Phases
  <2> QED BY <1>2, <2>1, <1>a, LockTypes DEF AcquireLock,
    GoTo, TypeOK, TablesTypeOK, LeaseTypeOK, ReleaseTypeOK, GCTypeOK
<1>3. ASSUME AcquireCheckReferences(b) PROVE TypeOK'
  <2>1. session' \in [Builders -> SessionRow]
    BY <1>b, <1>3 DEF GoTo, AcquireCheckReferences, SessionRow, Phases
  <2> QED BY <1>3, <2>1 DEF AcquireCheckReferences, tables,
    GoTo, TypeOK, TablesTypeOK, LeaseTypeOK, ReleaseTypeOK, GCTypeOK
<1>4. ASSUME AcquireCommit(b) PROVE TypeOK'
  <2>1. lease[Target(b)].fence + 1 \in Nat
    BY <1>b, <1>4, <1>d DEF NextFence, AcquireCommit, InPhase, LeaseRow
  <2>2. session' \in [Builders -> SessionRow]
    BY <1>b, <1>4, <1>c, <2>1 DEF NextFence, AcquireCommit, SessionRow, Phases
  <2>3. beat' \in [Builders -> BeatRow]
    BY <1>b, <1>4, <1>c DEF NextFence, AcquireCommit, BeatRow
  <2>4. session[b].begun + TTL \in Nat
    BY <1>c, <1>e DEF Times
  <2>5. lease' \in [Collections -> LeaseRow]
    BY <1>b, <1>4, <1>c, <2>1, <2>4 DEF NextFence, AcquireCommit, LeaseRow
  <2> QED BY <1>4, <2>2, <2>3, <2>5, <1>a, LockTypes DEF NextFence, AcquireCommit,
    TypeOK, TablesTypeOK, LeaseTypeOK, ReleaseTypeOK, GCTypeOK
<1>5. ASSUME AcquireFails(b) PROVE TypeOK'
  <2>1. session' \in [Builders -> SessionRow]
    BY <1>b, <1>5, IdleTypes DEF AcquireFails
  <2> QED BY <1>5, <2>1, <1>a, LockTypes DEF AcquireFails,
    TypeOK, TablesTypeOK, LeaseTypeOK, ReleaseTypeOK, GCTypeOK
<1>6. ASSUME NEW m \in Corpora, ListEntries(b, m) PROVE TypeOK'
  <2>1. Manifest(Target(b)) \in Manifests
    BY <1>b, <1>6, <1>d DEF ListEntries, Manifest, Manifests, InPhase, VectorRow
  <2>2. session' \in [Builders -> SessionRow]
    BY <1>b, <1>6, <2>1 DEF ListEntries, SessionRow, Phases, Corpora
  <2> QED BY <1>6, <2>2 DEF ListEntries, tables,
    TypeOK, TablesTypeOK, LeaseTypeOK, ReleaseTypeOK, GCTypeOK
<1>7. ASSUME WriteBegin(b) PROVE TypeOK'
  <2>1. session' \in [Builders -> SessionRow]
    BY <1>b, <1>7, <1>c DEF WriteBegin, SessionRow, Phases
  <2> QED BY <1>7, <2>1 DEF WriteBegin, tables,
    TypeOK, TablesTypeOK, LeaseTypeOK, ReleaseTypeOK, GCTypeOK
<1>8. ASSUME WriteLock(b) PROVE TypeOK'
  <2>1. session' \in [Builders -> SessionRow]
    BY <1>b, <1>8 DEF GoTo, WriteLock, SessionRow, Phases
  <2>2. overrun' \subseteq Collections
    BY <1>8, <1>b, <1>d, <1>f DEF WriteLock, PassGuard, InPhase
  <2> QED BY <1>8, <2>1, <2>2, <1>a, LockTypes DEF WriteLock,
    GoTo, TypeOK, TablesTypeOK, LeaseTypeOK, ReleaseTypeOK, GCTypeOK
<1>9. ASSUME WriteCommit(b) PROVE TypeOK'
  <2>1. session' \in [Builders -> SessionRow]
    BY <1>b, <1>9, <1>c, IdleTypes DEF WriteCommit, SessionRow, Phases
  <2>2. Target(b) \in Collections
    BY <1>b, <1>9, <1>d DEF WriteCommit, InPhase
  <2>3. session[b].view \in Manifests /\ session[b].wanted \in Manifests
    BY <1>b DEF SessionRow
  <2>4. Applied(Target(b), session[b].view, session[b].wanted, session[b].begun)
          \in [RecordIds -> VectorRow]
    BY <1>b, <2>2, <2>3, <1>c, IdleTypes DEF Applied, Upserts, Manifests, VectorRow
  <2>5. rows' \in [Collections -> [RecordIds -> VectorRow]]
    BY <1>b, <1>9, <2>4 DEF WriteCommit, Target
  <2> QED BY <1>9, <2>1, <2>5, <1>a, LockTypes DEF WriteCommit,
    TypeOK, TablesTypeOK, LeaseTypeOK, ReleaseTypeOK, GCTypeOK
<1>10. ASSUME BuildFails(b) \/ BuildDone(b) PROVE TypeOK'
  <2>1. ASSUME BuildFails(b) PROVE session' \in [Builders -> SessionRow]
    BY <1>b, <2>1, <1>c, IdleTypes DEF BuildFails, SessionRow, Phases
  <2>2. ASSUME BuildDone(b) PROVE session' \in [Builders -> SessionRow]
    <3>1. [session[b] EXCEPT !.phase = "releaseBegun", !.begun = now,
                             !.failed = ~session[b].healthy] \in SessionRow
      BY <1>b, <1>c DEF SessionRow, Phases
    <3> QED BY <1>b, <2>2, <3>1 DEF BuildDone
  <2>3. beat' \in [Builders -> BeatRow]
    BY <1>10, <1>b, IdleTypes DEF BuildFails, BuildDone, StoppedBeat
  <2> QED BY <1>10, <2>1, <2>2, <2>3, <1>a, LockTypes DEF BuildFails, BuildDone, tables,
    TypeOK, TablesTypeOK, LeaseTypeOK, ReleaseTypeOK, GCTypeOK
<1>11. ASSUME Release(b) PROVE TypeOK'
  <2>1. lease' \in [Collections -> LeaseRow]
    BY <1>b, <1>11, <1>c, <1>d DEF Release, LeaseRow, InPhase
  <2> QED BY <1>11, <2>1, IdleTypes DEF Release,
    TypeOK, TablesTypeOK, LeaseTypeOK, ReleaseTypeOK, GCTypeOK
<1>12. ASSUME ReleaseLost(b) PROVE TypeOK'
  BY IdleTypes, <1>12 DEF ReleaseLost, tables,
     TypeOK, TablesTypeOK, LeaseTypeOK, ReleaseTypeOK, GCTypeOK
<1>13. ASSUME HeartbeatBegin(b) PROVE TypeOK'
  <2>1. beat' \in [Builders -> BeatRow]
    BY <1>b, <1>13, <1>c DEF HeartbeatBegin, BeatRow
  <2> QED BY <1>13, <2>1 DEF HeartbeatBegin, tables,
    TypeOK, TablesTypeOK, LeaseTypeOK, ReleaseTypeOK, GCTypeOK
<1>14. ASSUME Renew(b) PROVE TypeOK'
  <2>1. beat[b].begun + TTL \in Nat
    BY <1>c, <1>e DEF Times
  <2>2. lease' \in [Collections -> LeaseRow]
    <3>1. lease[Target(b)] \in LeaseRow
      BY <1>14, <1>d DEF Renew
    <3> QED BY <1>b, <1>14, <1>c, <2>1, <3>1 DEF Renew, LeaseRow
  <2>3. beat' \in [Builders -> BeatRow]
    <3>1. [stage |-> "waiting", begun |-> 0] \in BeatRow
      BY <1>c DEF BeatRow
    <3> QED BY <1>b, <1>14, <3>1, IdleTypes DEF Renew
  <2>4. overrun' \subseteq Collections
    BY <1>14, <1>d, <1>f DEF Renew, PassGuard
  <2> QED BY <1>14, <2>2, <2>3, <2>4 DEF Renew,
    TypeOK, TablesTypeOK, LeaseTypeOK, ReleaseTypeOK, GCTypeOK
<1>15. ASSUME HeartbeatFails(b) PROVE TypeOK'
  <2>1. session' \in [Builders -> SessionRow]
    BY <1>b, <1>15 DEF HeartbeatFails, SessionRow
  <2> QED BY <1>15, <2>1, IdleTypes DEF HeartbeatFails, tables,
    TypeOK, TablesTypeOK, LeaseTypeOK, ReleaseTypeOK, GCTypeOK
<1>16. ASSUME BuilderCrash(b) PROVE TypeOK'
  BY IdleTypes, <1>16, <1>a, LockTypes DEF BuilderCrash,
     TypeOK, TablesTypeOK, LeaseTypeOK, ReleaseTypeOK, GCTypeOK
<1> QED
  BY <1>1, <1>2, <1>3, <1>4, <1>5, <1>6, <1>7, <1>8, <1>9, <1>10, <1>11, <1>12,
     <1>13, <1>14, <1>15, <1>16 DEF Builder

\* Every step of publish or rollback keeps the tables and its own record typed.
LEMMA OperatorTypes ==
    ASSUME TypeOK, WellFormed, NEW o \in Operators, Operator(o),
           Revalidated, UNCHANGED <<session, beat, gc>>
    PROVE  TypeOK'
<1>a. o \in Clients
  BY DEF Clients
<1>b. /\ release \in [Operators -> ReleaseRow] /\ release[o] \in ReleaseRow
      /\ pointer \in [Aliases -> PointerRow]
      /\ pointerLock \in [Aliases -> Operators \cup {None}]
      /\ history \in [Aliases -> SUBSET HistoryRow]
      /\ rows \in [Collections -> [RecordIds -> VectorRow]]
  BY DEF TypeOK, TablesTypeOK, ReleaseTypeOK
<1>c. now \in Times
  BY TablesAssumption DEF TypeOK, TablesTypeOK, Times
<1>d. \A a \in Aliases : pointer[a] \in PointerRow
  BY <1>b
<1>e. overrun' \subseteq Collections
  BY DEF Revalidated, TypeOK, LeaseTypeOK
<1> USE <1>e
<1>1. ASSUME NEW a \in Aliases, NEW c \in Collections, NEW m \in Corpora,
             PublishBegin(o, a, c, m)
      PROVE  TypeOK'
  <2>1. release' \in [Operators -> ReleaseRow]
    BY <1>b, <1>1, <1>c, <1>d DEF PublishBegin, ReleaseRow, ReleasePhases, Corpora, PointerRow
  <2> QED BY <1>1, <2>1 DEF PublishBegin, tables,
    TypeOK, TablesTypeOK, LeaseTypeOK, ReleaseTypeOK, GCTypeOK
<1>2. ASSUME NEW a \in Aliases, RollbackBegin(o, a) PROVE TypeOK'
  <2>1. release' \in [Operators -> ReleaseRow]
    BY <1>b, <1>2, <1>c, <1>d, IdleTypes
       DEF RollbackBegin, ReleaseRow, ReleasePhases, IdleRelease, PointerRow
  <2> QED BY <1>2, <2>1 DEF RollbackBegin, tables,
    TypeOK, TablesTypeOK, LeaseTypeOK, ReleaseTypeOK, GCTypeOK
<1>3. ASSUME LockPointer(o)
      PROVE  pointerLock' \in [Aliases -> Operators \cup {None}]
  BY <1>b, <1>3 DEF LockPointer
<1>4. ASSUME PublishLockPointer(o) PROVE TypeOK'
  <2>1. release' \in [Operators -> ReleaseRow]
    BY <1>b, <1>4 DEF PublishLockPointer, ReleaseRow, ReleasePhases
  <2> QED BY <1>4, <2>1, <1>3 DEF PublishLockPointer,
    TypeOK, TablesTypeOK, LeaseTypeOK, ReleaseTypeOK, GCTypeOK
<1>5. ASSUME RollbackLockPointer(o) PROVE TypeOK'
  <2>1. release[o].alias \in Aliases
    BY <1>5 DEF RollbackLockPointer, LockPointer, WellFormed, ReleaseIn
  <2>2. pointer[release[o].alias].previous \in Collections \cup {None}
    BY <1>b, <2>1, <1>d DEF PointerRow
  <2>3. release' \in [Operators -> ReleaseRow]
    BY <1>b, <1>5, <2>2 DEF RollbackLockPointer, ReleaseRow, ReleasePhases
  <2> QED BY <1>5, <2>3, <1>3 DEF RollbackLockPointer,
    TypeOK, TablesTypeOK, LeaseTypeOK, ReleaseTypeOK, GCTypeOK
<1>6. ASSUME LockTargetLease(o) PROVE TypeOK'
  <2>1. release' \in [Operators -> ReleaseRow]
    BY <1>b, <1>6 DEF LockTargetLease, ReleaseRow, ReleasePhases
  <2> QED BY <1>6, <2>1, <1>a, LockTypes DEF LockTargetLease,
    TypeOK, TablesTypeOK, LeaseTypeOK, ReleaseTypeOK, GCTypeOK
<1>7. ASSUME Validate(o) PROVE TypeOK'
  <2>1. release[o].target \in Collections
    BY <1>7 DEF Validate, WellFormed, ReleaseIn
  <2>2. ExpectedSnapshot(o) \in Manifests
    BY <1>b, <1>7, <2>1 DEF Validate, Manifest, Manifests, VectorRow
  <2>3. release' \in [Operators -> ReleaseRow]
    BY <1>b, <1>7, <2>2 DEF Validate, ReleaseRow, ReleasePhases
  <2> QED BY <1>7, <2>3 DEF Validate, tables,
    TypeOK, TablesTypeOK, LeaseTypeOK, ReleaseTypeOK, GCTypeOK
<1>8. ASSUME ReleaseCommit(o) PROVE TypeOK'
  <2> DEFINE a == release[o].alias
  <2>1. a \in Aliases /\ release[o].target \in Collections
    BY <1>8 DEF Moved, Recorded, ReleaseCommit, WellFormed, ReleaseIn
  <2>2. release[o].expected + 1 \in Nat
    BY <1>b DEF ReleaseRow
  <2>3. pointer[a].active \in Collections \cup {None}
    BY <1>b, <2>1, <1>d DEF PointerRow
  <2>4. pointer' \in [Aliases -> PointerRow]
    BY <1>8, <1>b, <2>1, <2>2, <2>3 DEF Moved, Recorded, ReleaseCommit, PointerRow, ReleaseRow
  <2>5. [generation |-> release[o].expected + 1, action |-> release[o].action,
         collection |-> release[o].target, replaced |-> pointer[a].active,
         snapshot |-> release[o].snapshot] \in HistoryRow
    BY <1>b, <2>1, <2>2, <2>3 DEF HistoryRow, ReleaseRow
  <2>6. history' \in [Aliases -> SUBSET HistoryRow]
    BY <1>b, <1>8, <2>5 DEF Moved, Recorded, ReleaseCommit
  <2>7. pointerLock' \in [Aliases -> Operators \cup {None}]
    BY <1>b, <1>8 DEF Moved, Recorded, ReleaseCommit
  <2>8. release' \in [Operators -> ReleaseRow]
    BY <1>b, <1>8, IdleTypes DEF Moved, Recorded, ReleaseCommit
  <2> QED BY <1>8, <2>4, <2>6, <2>7, <2>8, <1>a, LockTypes DEF Moved, Recorded, ReleaseCommit,
    TypeOK, TablesTypeOK, LeaseTypeOK, ReleaseTypeOK, GCTypeOK
<1>9. ASSUME ReleaseAborts(o) PROVE TypeOK'
  <2>1. pointerLock' \in [Aliases -> Operators \cup {None}]
    BY <1>b, <1>9 DEF ReleaseAborts
  <2>2. release' \in [Operators -> ReleaseRow]
    BY <1>b, <1>9, IdleTypes DEF ReleaseAborts
  <2> QED BY <1>9, <2>1, <2>2, <1>a, LockTypes DEF ReleaseAborts,
    TypeOK, TablesTypeOK, LeaseTypeOK, ReleaseTypeOK, GCTypeOK
<1> QED
  BY <1>1, <1>2, <1>4, <1>5, <1>6, <1>7, <1>8, <1>9 DEF Operator

\* Every step of mark or sweep keeps the tables and its own record typed.
LEMMA CollectorTypes ==
    ASSUME TypeOK, WellFormed, NEW k \in Collectors, Collector(k),
           UNCHANGED <<session, beat, overrun, release>>
    PROVE  TypeOK'
<1>a. k \in Clients
  BY DEF Clients
<1>b. /\ gc \in [Collectors -> GCRow] /\ gc[k] \in GCRow
      /\ mark \in [Collections -> MarkRow]
      /\ lease \in [Collections -> LeaseRow]
      /\ rows \in [Collections -> [RecordIds -> VectorRow]]
  BY DEF TypeOK, TablesTypeOK, GCTypeOK
<1>c. now \in Times /\ gc[k].begun \in Times
  BY <1>b, TablesAssumption DEF TypeOK, TablesTypeOK, Times, GCRow
<1>d. \A c \in Collections : mark[c] \in MarkRow
  BY <1>b
<1>e. ASSUME NEW phase \in GCPhases, GCGoTo(k, phase)
      PROVE  gc' \in [Collectors -> GCRow]
  BY <1>b, <1>e DEF GCGoTo, GCRow
<1>1. ASSUME NEW c \in Collections, MarkBegin(k, c) PROVE TypeOK'
  <2>1. gc' \in [Collectors -> GCRow]
    BY <1>b, <1>1, <1>c DEF MarkBegin, GCRow, GCPhases
  <2> QED BY <1>1, <2>1 DEF MarkBegin, tables,
    TypeOK, TablesTypeOK, LeaseTypeOK, ReleaseTypeOK, GCTypeOK
<1>2. ASSUME MarkLock(k) \/ SweepLock(k) PROVE TypeOK'
  <2>1. gc' \in [Collectors -> GCRow]
    BY <1>2, <1>e DEF MarkLock, SweepLock, GCPhases
  <2> QED BY <1>2, <2>1, <1>a, LockTypes DEF MarkLock, SweepLock,
    TypeOK, TablesTypeOK, LeaseTypeOK, ReleaseTypeOK, GCTypeOK
<1>3. ASSUME MarkCheckReferences(k) \/ SweepCheckReferences(k) \/ SweepCheckVectors(k)
      PROVE  TypeOK'
  <2>1. gc' \in [Collectors -> GCRow]
    BY <1>3, <1>e DEF MarkCheckReferences, SweepCheckReferences, SweepCheckVectors, GCPhases
  <2> QED
    BY <1>3, <2>1 DEF MarkCheckReferences, SweepCheckReferences, SweepCheckVectors, tables,
    TypeOK, TablesTypeOK, LeaseTypeOK, ReleaseTypeOK, GCTypeOK
<1>4. ASSUME MarkCommit(k) PROVE TypeOK'
  <2> DEFINE c == Candidate(k)
  <2>1. c \in Collections
    BY <1>4 DEF Marked, MarkCommit, WellFormed, GCIn
  <2>2. RecordCount(c) \in Nat /\ LastActivity(c) \in Nat
    BY <2>1, ActivityTypes DEF TypeOK
  <2>3. mark[c].token + 1 \in Nat /\ lease[c].fence \in Nat
    BY <1>b, <2>1, <1>d DEF MarkRow, LeaseRow
  <2>4. gc[k].begun + Grace \in Nat /\ 0 \in Times
    BY <1>c, GCAssumption, TablesAssumption DEF Times
  <2>5. [token |-> mark[c].token + 1, fence |-> lease[c].fence,
         count |-> RecordCount(c), activity |-> LastActivity(c),
         marked |-> gc[k].begun, sweepAfter |-> gc[k].begun + Grace,
         swept |-> 0] \in MarkRow
    BY <1>b, <1>c, <2>2, <2>3, <2>4 DEF MarkRow
  <2>6. mark' \in [Collections -> MarkRow]
    BY <1>b, <1>4, <2>5 DEF Marked, MarkCommit
  <2>7. gc' \in [Collectors -> GCRow]
    BY <1>b, <1>4, IdleTypes DEF Marked, MarkCommit
  <2> QED BY <1>4, <2>6, <2>7, <1>a, LockTypes DEF Marked, MarkCommit,
    TypeOK, TablesTypeOK, LeaseTypeOK, ReleaseTypeOK, GCTypeOK
<1>5. ASSUME NEW c \in Collections, SweepBegin(k, c) PROVE TypeOK'
  <2>1. PICK token \in 1 .. mark[c].token :
           gc' = [gc EXCEPT ![k] = [phase |-> "sweepBegun", collection |-> c,
                                    token |-> token, begun |-> now]]
    BY <1>b, <1>5 DEF SweepBegin
  <2>2. token \in Nat
    BY <1>b, <2>1, <1>d DEF MarkRow
  <2>3. gc' \in [Collectors -> GCRow]
    BY <1>b, <2>1, <2>2, <1>c DEF GCRow, GCPhases
  <2> QED BY <1>5, <2>3 DEF SweepBegin, tables,
    TypeOK, TablesTypeOK, LeaseTypeOK, ReleaseTypeOK, GCTypeOK
<1>6. ASSUME SweepReplay(k) PROVE TypeOK'
  <2>1. gc' \in [Collectors -> GCRow]
    BY <1>b, <1>6, IdleTypes DEF SweepReplay
  <2> QED BY <1>6, <2>1 DEF SweepReplay, tables,
    TypeOK, TablesTypeOK, LeaseTypeOK, ReleaseTypeOK, GCTypeOK
<1>7. ASSUME SweepCommit(k) PROVE TypeOK'
  <2>1. mark' \in [Collections -> MarkRow]
    BY <1>b, <1>7, <1>c, <1>d DEF SweepCommit, MarkRow
  <2>2. rows' \in [Collections -> [RecordIds -> VectorRow]]
    BY <1>b, <1>7, IdleTypes DEF SweepCommit
  <2>3. gc' \in [Collectors -> GCRow]
    BY <1>b, <1>7, IdleTypes DEF SweepCommit
  <2> QED BY <1>7, <2>1, <2>2, <2>3, <1>a, LockTypes DEF SweepCommit,
    TypeOK, TablesTypeOK, LeaseTypeOK, ReleaseTypeOK, GCTypeOK
<1>8. ASSUME GCAborts(k) PROVE TypeOK'
  <2>1. gc' \in [Collectors -> GCRow]
    BY <1>b, <1>8, IdleTypes DEF GCAborts
  <2> QED BY <1>8, <2>1, <1>a, LockTypes DEF GCAborts,
    TypeOK, TablesTypeOK, LeaseTypeOK, ReleaseTypeOK, GCTypeOK
<1> QED
  BY <1>1, <1>2, <1>3, <1>4, <1>5, <1>6, <1>7, <1>8 DEF Collector

-----------------------------------------------------------------------------
(* Steps of one client leave alone what another one holds.                  *)

\* A builder leaves releases and marks, other builders and their locks alone.
LEMMA BuilderFrame ==
    ASSUME TypeOK, NEW b \in Builders, Builder(b)
    PROVE  /\ UNCHANGED <<now, pointer, pointerLock, history, mark>>
           /\ \A d \in Builders : d # b => session'[d] = session[d] /\ beat'[d] = beat[d]
           /\ \A c \in Collections : leaseLock[c] \notin {b, None} => leaseLock'[c] = leaseLock[c]
<1> USE DEF TypeOK, TablesTypeOK, LeaseTypeOK, GoTo
<1>1. ASSUME \/ \E c \in Collections : AcquireBegin(b, c)
             \/ \E m \in Corpora : ListEntries(b, m)
      PROVE  /\ UNCHANGED <<tables, beat>>
             /\ \A d \in Builders : d # b => session'[d] = session[d]
  BY <1>1 DEF AcquireBegin, ListEntries
<1>2. UNCHANGED <<now, pointer, pointerLock, history, mark>>
  BY <1>1 DEF tables, Builder, AcquireLock, AcquireCheckReferences, AcquireCommit,
     AcquireFails, WriteBegin, WriteLock, WriteCommit, BuildFails, BuildDone,
     Release, ReleaseLost, HeartbeatBegin, Renew, HeartbeatFails, BuilderCrash
<1>3. ASSUME NEW d \in Builders, d # b PROVE session'[d] = session[d] /\ beat'[d] = beat[d]
  BY <1>1, <1>3 DEF tables, Builder, AcquireLock, AcquireCheckReferences, AcquireCommit,
     AcquireFails, WriteBegin, WriteLock, WriteCommit, BuildFails, BuildDone,
     Release, ReleaseLost, HeartbeatBegin, Renew, HeartbeatFails, BuilderCrash
<1>4. ASSUME NEW c \in Collections, leaseLock[c] \notin {b, None}
      PROVE  leaseLock'[c] = leaseLock[c]
  BY <1>1, <1>4 DEF tables, Builder, AcquireLock, AcquireCheckReferences, AcquireCommit,
     AcquireFails, WriteBegin, WriteLock, WriteCommit, BuildFails, BuildDone,
     Release, ReleaseLost, HeartbeatBegin, Renew, HeartbeatFails, BuilderCrash,
     LockLease, UnlockLeases
<1> QED BY <1>2, <1>3, <1>4

\* An operator leaves rows, leases and marks, other operators and their locks
\* alone, and moves a pointer only in ReleaseCommit.
LEMMA OperatorFrame ==
    ASSUME TypeOK, WellFormed, NEW o \in Operators, Operator(o)
    PROVE  /\ UNCHANGED <<now, rows, lease, mark>>
           /\ \A p \in Operators : p # o => release'[p] = release[p]
           /\ \A c \in Collections : leaseLock[c] \notin {o, None} => leaseLock'[c] = leaseLock[c]
           /\ ~ReleaseCommit(o) => UNCHANGED pointer
<1> USE DEF TypeOK, TablesTypeOK, ReleaseTypeOK
<1>1. ASSUME \/ \E a \in Aliases, c \in Collections, m \in Corpora : PublishBegin(o, a, c, m)
             \/ \E a \in Aliases : RollbackBegin(o, a)
      PROVE  /\ UNCHANGED tables
             /\ \A p \in Operators : p # o => release'[p] = release[p]
  BY <1>1 DEF PublishBegin, RollbackBegin
<1>2. UNCHANGED <<now, rows, lease, mark>>
  BY <1>1 DEF tables, Operator, PublishLockPointer, RollbackLockPointer, LockTargetLease,
     Validate, ReleaseCommit, ReleaseAborts
<1>3. ASSUME NEW p \in Operators, p # o PROVE release'[p] = release[p]
  BY <1>1, <1>3 DEF tables, Operator, PublishLockPointer, RollbackLockPointer,
     LockTargetLease, Validate, ReleaseCommit, ReleaseAborts
<1>4. ASSUME NEW c \in Collections, leaseLock[c] \notin {o, None}
      PROVE  leaseLock'[c] = leaseLock[c]
  BY <1>1, <1>4 DEF tables, Operator, PublishLockPointer, RollbackLockPointer,
     LockTargetLease, Validate, ReleaseCommit, ReleaseAborts, LockLease, UnlockLeases
<1>5. ~ReleaseCommit(o) => UNCHANGED pointer
  BY <1>1 DEF tables, Operator, PublishLockPointer, RollbackLockPointer, LockTargetLease,
     Validate, ReleaseAborts
<1> QED BY <1>2, <1>3, <1>4, <1>5

\* A collector leaves leases and releases, other collectors and their locks alone,
\* and deletes rows only in SweepCommit.
LEMMA CollectorFrame ==
    ASSUME TypeOK, NEW k \in Collectors, Collector(k)
    PROVE  /\ UNCHANGED <<now, lease, pointer, pointerLock, history>>
           /\ \A j \in Collectors : j # k => gc'[j] = gc[j]
           /\ \A c \in Collections : leaseLock[c] \notin {k, None} => leaseLock'[c] = leaseLock[c]
           /\ ~SweepCommit(k) => UNCHANGED rows
<1> USE DEF TypeOK, TablesTypeOK, GCTypeOK, GCGoTo
<1>1. ASSUME \E c \in Collections : MarkBegin(k, c) \/ SweepBegin(k, c)
      PROVE  /\ UNCHANGED tables
             /\ \A j \in Collectors : j # k => gc'[j] = gc[j]
  BY <1>1 DEF MarkBegin, SweepBegin
<1>2. UNCHANGED <<now, lease, pointer, pointerLock, history>>
  BY <1>1 DEF tables, Collector, MarkLock, MarkCheckReferences, MarkCommit, SweepLock,
     SweepReplay, SweepCheckReferences, SweepCheckVectors, SweepCommit, GCAborts
<1>3. ASSUME NEW j \in Collectors, j # k PROVE gc'[j] = gc[j]
  BY <1>1, <1>3 DEF tables, Collector, MarkLock, MarkCheckReferences, MarkCommit, SweepLock,
     SweepReplay, SweepCheckReferences, SweepCheckVectors, SweepCommit, GCAborts
<1>4. ASSUME NEW c \in Collections, leaseLock[c] \notin {k, None}
      PROVE  leaseLock'[c] = leaseLock[c]
  BY <1>1, <1>4 DEF tables, Collector, MarkLock, MarkCheckReferences, MarkCommit, SweepLock,
     SweepReplay, SweepCheckReferences, SweepCheckVectors, SweepCommit, GCAborts,
     LockLease, UnlockLeases
<1>5. ~SweepCommit(k) => UNCHANGED rows
  BY <1>1 DEF tables, Collector, MarkLock, MarkCheckReferences, MarkCommit, SweepLock,
     SweepReplay, SweepCheckReferences, SweepCheckVectors, GCAborts
<1> QED BY <1>2, <1>3, <1>4, <1>5

-----------------------------------------------------------------------------
(* Transactions name rows that exist.                                       *)

\* A builder step keeps the records of all clients well formed.
LEMMA BuilderWellFormed ==
    ASSUME TypeOK, WellFormed, NEW b \in Builders, Builder(b), UNCHANGED <<release, gc>>
    PROVE  WellFormed'
<1> USE DEF TypeOK, LeaseTypeOK, GoTo
<1> DEFINE Formed == /\ ~InPhase(b, "idle")' => Target(b)' \in Collections
                     /\ (beat[b].stage # "off")' => session'[b].phase \in LeasedPhases
<1>a. /\ ~InPhase(b, "idle") => Target(b) \in Collections
      /\ beat[b].stage # "off" => session[b].phase \in LeasedPhases
  BY DEF WellFormed
<1>1. ASSUME NEW c \in Collections, AcquireBegin(b, c)
      PROVE  Formed
  BY <1>1, <1>a DEF AcquireBegin, IdleSession, Target, InPhase, LeasedPhases
<1>2. ASSUME AcquireLock(b) PROVE Formed
  BY <1>2, <1>a DEF AcquireLock, InPhase, Target, LeasedPhases
<1>3. ASSUME AcquireCheckReferences(b) PROVE Formed
  BY <1>3, <1>a DEF AcquireCheckReferences, InPhase, Target, LeasedPhases
<1>4. ASSUME AcquireCommit(b) PROVE Formed
  BY <1>4, <1>a DEF NextFence, AcquireCommit, InPhase, Target, LeasedPhases
<1>5. ASSUME AcquireFails(b) PROVE Formed
  BY <1>5, <1>a DEF AcquireFails, InPhase, Target, LeasedPhases, IdleSession
<1>6. ASSUME NEW m \in Corpora, ListEntries(b, m) PROVE Formed
  BY <1>6, <1>a DEF ListEntries, InPhase, Target, LeasedPhases
<1>7. ASSUME WriteBegin(b) PROVE Formed
  BY <1>7, <1>a DEF WriteBegin, InPhase, Target, LeasedPhases
<1>8. ASSUME WriteLock(b) PROVE Formed
  BY <1>8, <1>a DEF WriteLock, InPhase, Target, LeasedPhases
<1>9. ASSUME WriteCommit(b) PROVE Formed
  BY <1>9, <1>a DEF WriteCommit, InPhase, Target, LeasedPhases
<1>10. ASSUME BuildFails(b) PROVE Formed
  BY <1>10, <1>a DEF BuildFails, InPhase, Target, LeasedPhases
<1>11. ASSUME BuildDone(b) PROVE Formed
  BY <1>11, <1>a DEF BuildDone, InPhase, Target, LeasedPhases
<1>12. ASSUME Release(b) PROVE Formed
  BY <1>12, <1>a DEF Release, InPhase, Target, LeasedPhases, IdleSession, NoBeat
<1>13. ASSUME ReleaseLost(b) PROVE Formed
  BY <1>13, <1>a DEF ReleaseLost, InPhase, Target, LeasedPhases, IdleSession, NoBeat
<1>14. ASSUME HeartbeatBegin(b) PROVE Formed
  BY <1>14, <1>a DEF HeartbeatBegin, InPhase, Target, LeasedPhases
<1>15. ASSUME Renew(b) PROVE Formed
  BY <1>15, <1>a DEF Renew, InPhase, Target, LeasedPhases
<1>16. ASSUME HeartbeatFails(b) PROVE Formed
  BY <1>16, <1>a DEF HeartbeatFails, InPhase, Target, LeasedPhases, NoBeat
<1>17. ASSUME BuilderCrash(b) PROVE Formed
  BY <1>17, <1>a DEF BuilderCrash, InPhase, Target, LeasedPhases, IdleSession, NoBeat
<1>18. Formed
  <2> HIDE DEF Formed
  <2> QED
    BY <1>1, <1>2, <1>3, <1>4, <1>5, <1>6, <1>7, <1>8, <1>9, <1>10, <1>11, <1>12, <1>13,
       <1>14, <1>15, <1>16, <1>17 DEF Builder
<1> QED
  BY <1>18, BuilderFrame DEF WellFormed, InPhase, Target, ReleaseIn, GCIn, Candidate

\* An operator step keeps the records of all clients well formed.
LEMMA OperatorWellFormed ==
    ASSUME TypeOK, WellFormed, NEW o \in Operators, Operator(o),
           Revalidated, UNCHANGED <<session, beat, gc>>
    PROVE  WellFormed'
<1> USE DEF TypeOK, TablesTypeOK, ReleaseTypeOK
<1> DEFINE Formed ==
       ~ReleaseIn(o, "idle")' =>
          /\ release'[o].alias \in Aliases
          /\ release'[o].begun <= now'
          /\ release'[o].action = "publish" \/ ~ReleaseIn(o, "begun")'
             => release'[o].target \in Collections
<1>a. ~ReleaseIn(o, "idle") =>
         /\ release[o].alias \in Aliases
         /\ release[o].begun <= now
         /\ release[o].action = "publish" \/ ~ReleaseIn(o, "begun")
            => release[o].target \in Collections
  BY DEF WellFormed
<1>b. now' = now /\ now <= now
  BY OperatorFrame
<1>1. ASSUME NEW a \in Aliases, NEW c \in Collections, NEW m \in Corpora,
             PublishBegin(o, a, c, m)
      PROVE  Formed
  BY <1>1, <1>b DEF PublishBegin, ReleaseIn
<1>2. ASSUME NEW a \in Aliases, RollbackBegin(o, a) PROVE Formed
  BY <1>2, <1>b DEF RollbackBegin, ReleaseIn, IdleRelease
<1>3. ASSUME PublishLockPointer(o) PROVE Formed
  BY <1>3, <1>a, <1>b DEF PublishLockPointer, LockPointer, ReleaseIn
<1>4. ASSUME RollbackLockPointer(o) PROVE Formed
  <2>1. release[o].alias \in Aliases
    BY <1>4, <1>a DEF RollbackLockPointer, LockPointer, ReleaseIn
  <2>2. pointer[release[o].alias].previous \in Collections
    BY <1>4, <2>1 DEF RollbackLockPointer, PointerRow
  <2> QED BY <1>4, <2>2, <1>a, <1>b DEF RollbackLockPointer, LockPointer, ReleaseIn
<1>5. ASSUME LockTargetLease(o) PROVE Formed
  BY <1>5, <1>a, <1>b DEF LockTargetLease, ReleaseIn
<1>6. ASSUME Validate(o) PROVE Formed
  BY <1>6, <1>a, <1>b DEF Validate, ReleaseIn
<1>7. ASSUME ReleaseCommit(o) \/ ReleaseAborts(o) PROVE Formed
  BY <1>7 DEF Moved, Recorded, ReleaseCommit, ReleaseAborts, ReleaseIn, IdleRelease
<1>8. Formed
  <2> HIDE DEF Formed
  <2> QED BY <1>1, <1>2, <1>3, <1>4, <1>5, <1>6, <1>7 DEF Operator
<1>9. \A a \in Aliases : pointer'[a].generation > 0 => pointer'[a].active \in Collections
  <2>1. CASE ReleaseCommit(o)
    <3>1. release[o].target \in Collections
      BY <2>1, <1>a DEF Moved, Recorded, ReleaseCommit, ReleaseIn
    <3> QED BY <2>1, <3>1 DEF Moved, Recorded, ReleaseCommit, WellFormed
  <2>2. CASE ~ReleaseCommit(o)
    BY <2>2, OperatorFrame DEF WellFormed
  <2> QED BY <2>1, <2>2
<1> QED
  BY <1>8, <1>9, OperatorFrame DEF WellFormed, InPhase, Target, ReleaseIn, GCIn, Candidate

\* A collector step keeps the records of all clients well formed.
LEMMA CollectorWellFormed ==
    ASSUME TypeOK, WellFormed, NEW k \in Collectors, Collector(k),
           UNCHANGED <<session, beat, overrun, release>>
    PROVE  WellFormed'
<1> USE DEF TypeOK, TablesTypeOK, GCTypeOK, GCGoTo
<1> DEFINE Formed == ~GCIn(k, "idle")' => Candidate(k)' \in Collections
<1>a. ~GCIn(k, "idle") => Candidate(k) \in Collections
  BY DEF WellFormed
<1>1. ASSUME NEW c \in Collections, MarkBegin(k, c) \/ SweepBegin(k, c) PROVE Formed
  BY <1>1 DEF MarkBegin, SweepBegin, Candidate
<1>2. ASSUME MarkLock(k) PROVE Formed
  BY <1>2, <1>a DEF MarkLock, GCIn, Candidate
<1>3. ASSUME MarkCheckReferences(k) PROVE Formed
  BY <1>3, <1>a DEF MarkCheckReferences, GCIn, Candidate
<1>4. ASSUME SweepLock(k) PROVE Formed
  BY <1>4, <1>a DEF SweepLock, GCIn, Candidate
<1>5. ASSUME SweepCheckReferences(k) PROVE Formed
  BY <1>5, <1>a DEF SweepCheckReferences, GCIn, Candidate
<1>6. ASSUME SweepCheckVectors(k) PROVE Formed
  BY <1>6, <1>a DEF SweepCheckVectors, GCIn, Candidate
<1>7. ASSUME MarkCommit(k) \/ SweepReplay(k) \/ SweepCommit(k) \/ GCAborts(k) PROVE Formed
  BY <1>7 DEF Marked, MarkCommit, SweepReplay, SweepCommit, GCAborts, GCIn, IdleGC
<1>8. Formed
  <2> HIDE DEF Formed
  <2> QED BY <1>1, <1>2, <1>3, <1>4, <1>5, <1>6, <1>7 DEF Collector
<1> QED
  BY <1>8, CollectorFrame DEF WellFormed, InPhase, Target, ReleaseIn, GCIn, Candidate

-----------------------------------------------------------------------------
(* Type correctness                                                         *)

\* Initially everything is typed and well formed.
LEMMA InitTypes == Init => TypeOK /\ WellFormed
<1> SUFFICES ASSUME Init PROVE TypeOK /\ WellFormed
  OBVIOUS
<1> USE IdleTypes, TablesAssumption DEF Init, TablesInit, LeaseInit, ReleaseInit, GCInit
<1>1. FreshLease \in LeaseRow /\ NoPointer \in PointerRow /\ NoMark \in MarkRow
  BY DEF FreshLease, LeaseRow, NoPointer, PointerRow, NoMark, MarkRow, Times
<1>2. TypeOK
  BY <1>1 DEF TypeOK, TablesTypeOK, LeaseTypeOK, ReleaseTypeOK, GCTypeOK
<1>3. WellFormed
  BY DEF WellFormed, InPhase, ReleaseIn, GCIn, IdleSession, NoBeat, IdleRelease, IdleGC,
     NoPointer
<1> QED BY <1>2, <1>3

\* The clock keeps everything typed and well formed.
LEMMA TickTypes ==
    ASSUME TypeOK, WellFormed, Tick, UNCHANGED <<release, gc>>
    PROVE  TypeOK' /\ WellFormed'
<1>1. now' = now + 1 /\ now + 1 \in 1 .. MaxTime
  BY TablesAssumption DEF Tick, TypeOK, TablesTypeOK
<1>2. TypeOK'
  BY <1>1 DEF Tick, leaseVars, TypeOK, TablesTypeOK, LeaseTypeOK, ReleaseTypeOK, GCTypeOK
<1>3. \A o \in Operators : release[o].begun \in Nat
  BY DEF TypeOK, ReleaseTypeOK, ReleaseRow, Times
<1>4. WellFormed'
  BY <1>1, <1>3 DEF Tick, leaseVars, WellFormed, InPhase, Target, ReleaseIn, GCIn, Candidate,
     TypeOK, TablesTypeOK
<1> QED BY <1>2, <1>4

\* Typing and well-formedness are inductive.
LEMMA StepTypes == TypeOK /\ WellFormed /\ [Next]_vars => TypeOK' /\ WellFormed'
<1> SUFFICES ASSUME TypeOK, WellFormed, [Next]_vars PROVE TypeOK' /\ WellFormed'
  OBVIOUS
<1>1. CASE Tick /\ UNCHANGED <<release, gc>>
  BY <1>1, TickTypes
<1>2. ASSUME NEW b \in Builders, Builder(b), UNCHANGED <<release, gc>>
      PROVE  TypeOK' /\ WellFormed'
  BY <1>2, BuilderTypes, BuilderWellFormed
<1>3. ASSUME NEW o \in Operators, Operator(o), Revalidated, UNCHANGED <<session, beat, gc>>
      PROVE  TypeOK' /\ WellFormed'
  BY <1>3, OperatorTypes, OperatorWellFormed
<1>4. ASSUME NEW k \in Collectors, Collector(k), UNCHANGED <<session, beat, overrun, release>>
      PROVE  TypeOK' /\ WellFormed'
  BY <1>4, CollectorTypes, CollectorWellFormed
<1>5. CASE UNCHANGED vars
  BY <1>5 DEF vars, tables, TypeOK, TablesTypeOK, LeaseTypeOK, ReleaseTypeOK, GCTypeOK,
     WellFormed, InPhase, Target, ReleaseIn, GCIn, Candidate
<1> QED BY <1>1, <1>2, <1>3, <1>4, <1>5 DEF Next

\* Every reachable state of the composed control plane is well typed: in
\* particular each history row and each mark a transaction writes is complete.
THEOREM TypeCorrect == Spec => []TypeOK
<1>1. Spec => [](TypeOK /\ WellFormed)
  BY InitTypes, StepTypes, PTL DEF Spec
<1> QED BY <1>1, PTL

-----------------------------------------------------------------------------
(* What the lock on a collection's control row gives: a collector that has *)
(* found its candidate unreferenced keeps that answer until it commits,    *)
(* because a release adds a collection to an alias only while holding the  *)
(* same row; a builder that has tested the lease, and a collector that has *)
(* tested the mark, keep theirs because only the holder of the row changes *)
(* them.  Nothing here depends on how long a transaction takes.            *)

\* An operator past the lease test holds the control row of its target.
TargetsLocked ==
    \A o \in Operators :
        ReleaseIn(o, "leaseLocked") \/ ReleaseIn(o, "validated")
        => leaseLock[release[o].target] = o

Locked == TypeOK /\ WellFormed /\ CollectorsExclude /\ TargetsLocked

\* Builders, operators and collectors are different clients, none of them None.
LEMMA ClientsApart ==
    /\ \A b \in Builders : b # None /\ b \notin Operators /\ b \notin Collectors
    /\ \A o \in Operators : o # None /\ o \notin Collectors
    /\ \A k \in Collectors : k # None
BY TablesAssumption DEF Clients

\* An alias gains a collection only from the operator that holds its control row.
LEMMA OperatorChanges ==
    ASSUME Locked, NEW o \in Operators, Operator(o), NEW c \in Collections, Referenced(c)'
    PROVE  Referenced(c) \/ (c = release[o].target /\ ReleaseIn(o, "validated"))
<1>1. CASE ReleaseCommit(o)
  <2> DEFINE a == release[o].alias
  <2>1. ReleaseIn(o, "validated")
    BY <1>1 DEF Moved, Recorded, ReleaseCommit
  <2>2. /\ pointer \in [Aliases -> PointerRow] /\ a \in Aliases
    BY <1>1 DEF Locked, TypeOK, TablesTypeOK, WellFormed, ReleaseCommit, ReleaseIn
  <2>3. /\ pointer'[a].active = release[o].target
        /\ pointer'[a].previous = pointer[a].active
        /\ \A d \in Aliases : d # a => pointer'[d] = pointer[d]
    BY <1>1, <2>2 DEF Moved, Recorded, ReleaseCommit
  <2>4. PICK d \in Aliases : c \in {pointer'[d].active, pointer'[d].previous}
    BY DEF Referenced
  <2>5. CASE d # a
    BY <2>3, <2>4, <2>5 DEF Referenced
  <2>6. CASE d = a
    BY <2>1, <2>2, <2>3, <2>4, <2>6 DEF Referenced
  <2> QED BY <2>5, <2>6
<1>2. CASE ~ReleaseCommit(o)
  BY <1>2, OperatorFrame DEF Locked, Referenced
<1> QED BY <1>1, <1>2

\* An operator that has passed the test of the lease holds the row of its target.
LEMMA OperatorLocks ==
    ASSUME Locked, NEW o \in Operators, Operator(o)
    PROVE  ReleaseIn(o, "leaseLocked")' \/ ReleaseIn(o, "validated")'
           => leaseLock'[release'[o].target] = o
<1> DEFINE P == ReleaseIn(o, "leaseLocked")' \/ ReleaseIn(o, "validated")'
                => leaseLock'[release'[o].target] = o
<1>a. release \in [Operators -> ReleaseRow] /\ leaseLock \in [Collections -> Clients \cup {None}]
  BY DEF Locked, TypeOK, TablesTypeOK, ReleaseTypeOK
<1>0. ASSUME NEW a \in Aliases, NEW c \in Collections, NEW m \in Corpora,
             PublishBegin(o, a, c, m)
      PROVE  P
  BY <1>0, <1>a DEF PublishBegin, ReleaseIn
<1>1. ASSUME NEW a \in Aliases, RollbackBegin(o, a) PROVE P
  BY <1>1, <1>a DEF RollbackBegin, IdleRelease, ReleaseIn
<1>2. ASSUME PublishLockPointer(o) PROVE P
  BY <1>2, <1>a DEF PublishLockPointer, ReleaseIn
<1>3. ASSUME RollbackLockPointer(o) PROVE P
  BY <1>3, <1>a DEF RollbackLockPointer, ReleaseIn
<1>4. ASSUME LockTargetLease(o) PROVE P
  BY <1>4, <1>a DEF LockTargetLease, LockLease, ReleaseIn, Locked, WellFormed
<1>5. ASSUME Validate(o) PROVE P
  BY <1>5, <1>a DEF Validate, ReleaseIn, tables, Locked, TargetsLocked
<1>6. ASSUME ReleaseCommit(o) \/ ReleaseAborts(o) PROVE P
  BY <1>6, <1>a DEF Moved, Recorded, ReleaseCommit, ReleaseAborts, IdleRelease, ReleaseIn
<1> QED
  <2> HIDE DEF P
  <2>1. P
    BY <1>0, <1>1, <1>2, <1>3, <1>4, <1>5, <1>6 DEF Operator
  <2> QED BY <2>1 DEF P

\* A collector deletes rows only of a collection it holds and found unreferenced.
LEMMA CollectorChanges ==
    ASSUME Locked, NEW k \in Collectors, Collector(k), NEW c \in Collections
    PROVE  rows'[c] # rows[c] => Excludes(k, c)
<1>1. CASE SweepCommit(k)
  BY <1>1 DEF SweepCommit, GCIn, Candidate, Locked, TypeOK, TablesTypeOK,
     CollectorsExclude
<1>2. CASE ~SweepCommit(k)
  BY <1>2, CollectorFrame DEF Locked
<1> QED BY <1>1, <1>2

\* A collector that has locked the row of its candidate, and one that has tested the
\* references, still holds the row and its answer after its own step.
LEMMA CollectorExcludes ==
    ASSUME Locked, NEW k \in Collectors, Collector(k)
    PROVE  /\ GCIn(k, "sweepLocked")' => leaseLock'[Candidate(k)'] = k
           /\ GCIn(k, "sweepChecked")' \/ GCIn(k, "sweepReady")' => Excludes(k, Candidate(k))'
<1> DEFINE P ==
       /\ GCIn(k, "sweepLocked")' => leaseLock'[Candidate(k)'] = k
       /\ GCIn(k, "sweepChecked")' \/ GCIn(k, "sweepReady")' => Excludes(k, Candidate(k))'
<1>a. gc \in [Collectors -> GCRow] /\ leaseLock \in [Collections -> Clients \cup {None}]
  BY DEF Locked, TypeOK, TablesTypeOK, GCTypeOK
<1>b. /\ GCIn(k, "sweepLocked") => leaseLock[Candidate(k)] = k
      /\ GCIn(k, "sweepChecked") => Excludes(k, Candidate(k))
      /\ ~GCIn(k, "idle") => Candidate(k) \in Collections
  BY DEF Locked, CollectorsExclude, WellFormed
<1>1. ASSUME NEW c \in Collections, MarkBegin(k, c) \/ SweepBegin(k, c) PROVE P
  BY <1>1, <1>a DEF MarkBegin, SweepBegin, GCIn
<1>2. ASSUME MarkLock(k) PROVE P
  BY <1>2, <1>a DEF MarkLock, GCGoTo, GCIn
<1>3. ASSUME MarkCheckReferences(k) PROVE P
  BY <1>3, <1>a DEF MarkCheckReferences, GCGoTo, GCIn
<1>4. ASSUME SweepLock(k) PROVE P
  BY <1>4, <1>a, <1>b DEF SweepLock, LockLease, GCGoTo, GCIn, Candidate
<1>5. ASSUME SweepCheckReferences(k) PROVE P
  BY <1>5, <1>a, <1>b DEF SweepCheckReferences, GCGoTo, GCIn, Candidate, Excludes,
     Referenced, tables
<1>6. ASSUME SweepCheckVectors(k) PROVE P
  BY <1>6, <1>a, <1>b DEF SweepCheckVectors, GCGoTo, GCIn, Candidate, Excludes,
     Referenced, tables
<1>7. ASSUME MarkCommit(k) \/ SweepReplay(k) \/ SweepCommit(k) \/ GCAborts(k) PROVE P
  BY <1>7, <1>a DEF Marked, MarkCommit, SweepReplay, SweepCommit, GCAborts, GCIn, IdleGC
<1> QED
  <2> HIDE DEF P
  <2>1. P
    BY <1>1, <1>2, <1>3, <1>4, <1>5, <1>6, <1>7 DEF Collector
  <2> QED BY <2>1 DEF P

\* The step of one client leaves in force what another client holds.
LEMMA StepLocked ==
    ASSUME Locked, [Next]_vars
    PROVE  Locked'
<1>a. TypeOK' /\ WellFormed'
  BY StepTypes DEF Locked
<1>b. TypeOK /\ WellFormed /\ CollectorsExclude /\ TargetsLocked
  BY DEF Locked
<1>1. ASSUME NEW x \in Builders \cup Operators, UNCHANGED gc,
             \A c \in Collections : leaseLock[c] \notin {x, None} => leaseLock'[c] = leaseLock[c],
             \A c \in Collections : leaseLock[c] # x /\ Referenced(c)' => Referenced(c)
      PROVE  CollectorsExclude'
  <2> SUFFICES ASSUME NEW k \in Collectors, ~GCIn(k, "idle"), leaseLock[Candidate(k)] = k
               PROVE  /\ leaseLock'[Candidate(k)] = k
                      /\ ~Referenced(Candidate(k)) => ~Referenced(Candidate(k))'
    BY <1>b, <1>1 DEF CollectorsExclude, Excludes, GCIn, Candidate
  <2>1. PICK c \in Collections : c = Candidate(k)
    BY <1>b DEF WellFormed
  <2>2. leaseLock[c] # x /\ leaseLock'[c] = k
    BY <2>1, <1>1, ClientsApart
  <2>3. ~Referenced(c) => ~Referenced(c)'
    BY <2>2, <1>1
  <2>4. c = Candidate(k)'
    BY <1>1, <2>1 DEF Candidate
  <2> QED BY <2>1, <2>2, <2>3, <2>4 DEF Referenced
<1>2. ASSUME NEW x \in Clients, NEW o \in Operators, o # x, release'[o] = release[o],
             \A c \in Collections : leaseLock[c] \notin {x, None} => leaseLock'[c] = leaseLock[c],
             ReleaseIn(o, "leaseLocked")' \/ ReleaseIn(o, "validated")'
      PROVE  leaseLock'[release'[o].target] = o
  <2>1. release[o].target \in Collections /\ leaseLock[release[o].target] = o
    BY <1>2, <1>b DEF WellFormed, TargetsLocked, ReleaseIn
  <2> QED BY <1>2, <2>1, ClientsApart
<1>3. CASE Tick /\ UNCHANGED <<release, gc>>
  BY <1>a, <1>b, <1>3 DEF Tick, Locked, CollectorsExclude, TargetsLocked, Excludes, Referenced,
     GCIn, Candidate, ReleaseIn
<1>4. ASSUME NEW b \in Builders, Builder(b), UNCHANGED <<release, gc>> PROVE Locked'
  <2>1. \A c \in Collections : leaseLock[c] \notin {b, None} => leaseLock'[c] = leaseLock[c]
    BY <1>4, <1>b, BuilderFrame
  <2>2. \A c \in Collections : Referenced(c)' = Referenced(c)
    BY <1>4, <1>b, BuilderFrame DEF Referenced
  <2>3. CollectorsExclude'
    BY <1>1, <1>4, <2>1, <2>2
  <2>4. TargetsLocked'
    BY <1>2, <1>4, <2>1, ClientsApart DEF TargetsLocked, Clients
  <2> QED BY <1>a, <2>3, <2>4 DEF Locked
<1>5. ASSUME NEW o \in Operators, Operator(o), Revalidated, UNCHANGED <<session, beat, gc>> PROVE Locked'
  <2>1. /\ \A c \in Collections : leaseLock[c] \notin {o, None} => leaseLock'[c] = leaseLock[c]
        /\ \A p \in Operators : p # o => release'[p] = release[p]
    BY <1>5, <1>b, OperatorFrame
  <2>2. \A c \in Collections : leaseLock[c] # o /\ Referenced(c)' => Referenced(c)
    BY <1>5, <1>b, OperatorChanges DEF TargetsLocked, Locked
  <2>3. CollectorsExclude'
    BY <1>1, <1>5, <2>1, <2>2
  <2>4. TargetsLocked'
    BY <1>2, <1>5, <2>1, OperatorLocks DEF TargetsLocked, Clients
  <2> QED BY <1>a, <2>3, <2>4 DEF Locked
<1>6. ASSUME NEW k \in Collectors, Collector(k), UNCHANGED <<session, beat, overrun, release>> PROVE Locked'
  <2>1. /\ \A c \in Collections : leaseLock[c] \notin {k, None} => leaseLock'[c] = leaseLock[c]
        /\ \A j \in Collectors : j # k => gc'[j] = gc[j]
        /\ UNCHANGED pointer
    BY <1>6, <1>b, CollectorFrame
  <2>2. CollectorsExclude'
    <3> SUFFICES ASSUME NEW j \in Collectors, j # k
                 PROVE  /\ GCIn(j, "sweepLocked")' => leaseLock'[Candidate(j)'] = j
                        /\ GCIn(j, "sweepChecked")' \/ GCIn(j, "sweepReady")'
                           => Excludes(j, Candidate(j))'
      BY <1>6, CollectorExcludes DEF CollectorsExclude
    <3>1. ASSUME GCIn(j, "sweepLocked") \/ GCIn(j, "sweepChecked") \/ GCIn(j, "sweepReady")
          PROVE  leaseLock'[Candidate(j)] = j
      <4>1. Candidate(j) \in Collections /\ leaseLock[Candidate(j)] = j
        BY <1>b, <3>1 DEF WellFormed, CollectorsExclude, Excludes, GCIn
      <4> QED BY <4>1, <2>1, ClientsApart
    <3> QED BY <1>b, <2>1, <3>1 DEF CollectorsExclude, Excludes, GCIn, Candidate, Referenced
  <2>3. TargetsLocked'
    BY <1>2, <1>6, <2>1, ClientsApart DEF TargetsLocked, Clients
  <2> QED BY <1>a, <2>2, <2>3 DEF Locked
<1>7. CASE UNCHANGED vars
  BY <1>a, <1>b, <1>7 DEF vars, tables, Locked, CollectorsExclude, TargetsLocked, Excludes,
     Referenced, GCIn, Candidate, ReleaseIn
<1> QED BY <1>3, <1>4, <1>5, <1>6, <1>7 DEF Next

\* In every reachable state the answers a collector and an operator act on stand.
LEMMA LockedAlways == Spec => []Locked
<1>1. Init => Locked
  <2> SUFFICES ASSUME Init PROVE CollectorsExclude /\ TargetsLocked
    BY InitTypes DEF Locked
  <2> QED BY DEF Init, ReleaseInit, GCInit, IdleRelease, IdleGC, CollectorsExclude,
          TargetsLocked, GCIn, ReleaseIn
<1> QED BY <1>1, StepLocked, PTL DEF Spec

\* The step that sets a sweep receipt is a sweep's commit on its own candidate.
LEMMA SweepStep ==
    ASSUME Locked, [Next]_vars, NEW c \in Collections, Sweeps(c)
    PROVE  \E k \in Collectors : SweepCommit(k) /\ c = Candidate(k)
<1>a. mark \in [Collections -> MarkRow] /\ mark'[c] # mark[c]
  BY DEF Locked, TypeOK, TablesTypeOK, Sweeps
<1>1. CASE Tick
  BY <1>1, <1>a DEF Tick
<1>2. ASSUME NEW b \in Builders, Builder(b) PROVE FALSE
  BY <1>2, <1>a, BuilderFrame DEF Locked
<1>3. ASSUME NEW o \in Operators, Operator(o) PROVE FALSE
  BY <1>3, <1>a, OperatorFrame DEF Locked
<1>4. ASSUME NEW k \in Collectors, Collector(k)
      PROVE  SweepCommit(k) /\ c = Candidate(k)
  <2>1. CASE SweepCommit(k)
    BY <2>1, <1>a DEF SweepCommit
  <2>2. CASE MarkCommit(k)
    BY <2>2, <1>a DEF Marked, MarkCommit, Sweeps
  <2>3. CASE ~SweepCommit(k) /\ ~MarkCommit(k)
    <3>1. ASSUME \E d \in Collections : MarkBegin(k, d) \/ SweepBegin(k, d)
          PROVE  UNCHANGED mark
      BY <3>1 DEF MarkBegin, SweepBegin, tables
    <3>2. UNCHANGED mark
      BY <2>3, <3>1, <1>4 DEF Collector, MarkLock, MarkCheckReferences, SweepLock,
         SweepReplay, SweepCheckReferences, SweepCheckVectors, GCAborts, tables
    <3> QED BY <3>2, <1>a
  <2> QED BY <2>1, <2>2, <2>3
<1>5. CASE UNCHANGED vars
  BY <1>5, <1>a DEF vars, tables
<1> QED BY <1>1, <1>2, <1>3, <1>4, <1>5 DEF Next

\* A sweep deletes only what no alias can serve or roll back to, however long its
\* transaction and those of builders and operators take.
THEOREM SweepsSpareReferenced == Spec => SweepSparesReferenced
<1>1. ASSUME Locked, [Next]_vars
      PROVE  [\A c \in Collections : Sweeps(c) => ~Referenced(c)]_<<mark, rows, pointer>>
  <2> SUFFICES ASSUME NEW c \in Collections, Sweeps(c) PROVE ~Referenced(c)
    OBVIOUS
  <2>1. PICK k \in Collectors : SweepCommit(k) /\ c = Candidate(k)
    BY <1>1, SweepStep
  <2> QED BY <1>1, <2>1 DEF SweepCommit, Locked, CollectorsExclude, Excludes
<1> QED BY <1>1, LockedAlways, PTL DEF Spec, SweepSparesReferenced

-----------------------------------------------------------------------------
(* Leases and marks.  Whoever holds a control row is the only one who can    *)
(* start a generation, delete what is marked or replace the mark, so what it *)
(* tested of the row under the lock it may still rely on at its commit.      *)

Acquiring == {"acquireBegun", "acquireLocked", "acquireChecked"}
LockedBuild == {"acquireLocked", "acquireChecked", "writeLocked"}
Sweeping == {"sweepLocked", "sweepChecked", "sweepReady"}

BuilderHolds(b) ==
    /\ session[b].phase \in LockedBuild => leaseLock[Target(b)] = b
    /\ session[b].phase \in Acquiring => session[b].begun <= now
    /\ InPhase(b, "acquireLocked") \/ InPhase(b, "acquireChecked")
       => ~Active(Target(b), session[b].begun)
    /\ InPhase(b, "writeLocked") => Owns(b)
    /\ session[b].fence > 0 =>
          /\ Target(b) \in Collections
          /\ session[b].fence <= lease[Target(b)].fence

MarkHeld(k) ==
    /\ leaseLock[Candidate(k)] = k
    /\ mark[Candidate(k)].token = gc[k].token
    /\ mark[Candidate(k)].swept = 0
    /\ ~Active(Candidate(k), gc[k].begun)

MarkDue(k) == SameGeneration(Candidate(k)) /\ Ready(Candidate(k), gc[k].begun)

CollectorHolds(k) ==
    /\ ~GCIn(k, "idle") => gc[k].begun \in 1 .. now
    /\ GCIn(k, "markLocked") \/ GCIn(k, "markChecked") => leaseLock[Candidate(k)] = k
    /\ GCIn(k, "sweepBegun") \/ gc[k].phase \in Sweeping => gc[k].token > 0
    /\ gc[k].phase \in Sweeping => MarkHeld(k)
    /\ GCIn(k, "sweepChecked") \/ GCIn(k, "sweepReady") => MarkDue(k)

MarksTimed ==
    \A c \in Collections : mark[c].token > 0 => mark[c].sweepAfter = mark[c].marked + Grace

LeaseInv ==
    /\ TypeOK
    /\ WellFormed
    /\ \A b \in Builders : BuilderHolds(b)
    /\ \A k \in Collectors : CollectorHolds(k)
    /\ GenerationsAreUnique
    /\ MarksTimed

\* A builder changes a lease only as the holder of its control row, by starting the
\* next generation, or while nobody holds it, and then the generation stays.
LEMMA LeaseChanges ==
    ASSUME LeaseInv, NEW b \in Builders, Builder(b), NEW c \in Collections, lease'[c] # lease[c]
    PROVE  \/ AcquireCommit(b) /\ c = Target(b) /\ leaseLock[c] = b
           \/ /\ leaseLock[c] = None
              /\ lease'[c].fence = lease[c].fence
              /\ lease'[c].owner \in {lease[c].owner, None}
<1>a. lease \in [Collections -> LeaseRow] /\ BuilderHolds(b)
  BY DEF LeaseInv, TypeOK, TablesTypeOK
<1>1. ASSUME \/ \E d \in Collections : AcquireBegin(b, d)
             \/ \E m \in Corpora : ListEntries(b, m)
      PROVE  UNCHANGED lease
  BY <1>1 DEF AcquireBegin, ListEntries, tables
<1>2. CASE AcquireCommit(b)
  BY <1>2, <1>a DEF AcquireCommit, BuilderHolds, LockedBuild, InPhase
<1>3. CASE Release(b)
  BY <1>3, <1>a DEF Release, LeaseRow
<1>4. CASE Renew(b)
  BY <1>4, <1>a DEF Renew, LeaseRow
<1>5. CASE ~(AcquireCommit(b) \/ Release(b) \/ Renew(b))
  <2>1. UNCHANGED lease
    BY <1>5, <1>1 DEF tables, Builder, AcquireLock, AcquireCheckReferences,
       AcquireFails, WriteBegin, WriteLock, WriteCommit, BuildFails, BuildDone,
       ReleaseLost, HeartbeatBegin, HeartbeatFails, BuilderCrash
  <2> QED BY <2>1
<1> QED BY <1>2, <1>3, <1>4, <1>5

\* The generation of a collection never goes back.
LEMMA FencesGrow ==
    ASSUME LeaseInv, NEW b \in Builders, Builder(b), NEW c \in Collections
    PROVE  lease'[c].fence >= lease[c].fence
<1>a. lease \in [Collections -> LeaseRow] /\ lease[c].fence \in Nat
  BY DEF LeaseInv, TypeOK, TablesTypeOK, LeaseRow
<1>1. CASE lease'[c].fence = lease[c].fence
  BY <1>1, <1>a
<1>2. CASE AcquireCommit(b) /\ c = Target(b)
  <2>1. lease'[c].fence = lease[c].fence + 1
    BY <1>2, <1>a DEF AcquireCommit, NextFence
  <2> QED BY <2>1, <1>a
<1> QED BY <1>1, <1>2, LeaseChanges

\* What a builder's own step leaves it holding.
LEMMA BuilderHoldsOwn ==
    ASSUME LeaseInv, NEW b \in Builders, Builder(b)
    PROVE  /\ BuilderHolds(b)'
           /\ \/ session'[b].fence = 0
              \/ session'[b].fence = session[b].fence /\ Target(b)' = Target(b)
              \/ AcquireCommit(b) /\ Target(b)' = Target(b) /\ Target(b) \in Collections
                 /\ session'[b].fence = lease[Target(b)].fence + 1
<1> DEFINE P == /\ BuilderHolds(b)'
                /\ \/ session'[b].fence = 0
                   \/ session'[b].fence = session[b].fence /\ Target(b)' = Target(b)
                   \/ AcquireCommit(b) /\ Target(b)' = Target(b) /\ Target(b) \in Collections
                      /\ session'[b].fence = lease[Target(b)].fence + 1
<1>a. /\ session \in [Builders -> SessionRow] /\ session[b] \in SessionRow
      /\ beat \in [Builders -> BeatRow]
      /\ leaseLock \in [Collections -> Clients \cup {None}]
      /\ lease \in [Collections -> LeaseRow]
      /\ now \in Nat /\ now <= now
  BY DEF LeaseInv, TypeOK, TablesTypeOK, LeaseTypeOK
<1>b. /\ session[b].phase \in LockedBuild => leaseLock[Target(b)] = b
      /\ session[b].phase \in Acquiring => session[b].begun <= now
      /\ InPhase(b, "acquireLocked") \/ InPhase(b, "acquireChecked")
         => ~Active(Target(b), session[b].begun)
      /\ InPhase(b, "writeLocked") => Owns(b)
      /\ session[b].fence > 0 =>
            /\ Target(b) \in Collections
            /\ session[b].fence <= lease[Target(b)].fence
  BY DEF LeaseInv, BuilderHolds
<1>c. now' = now
  BY BuilderFrame DEF LeaseInv
<1>d. /\ ~InPhase(b, "idle") => Target(b) \in Collections
      /\ beat[b].stage # "off" => session[b].phase \in LeasedPhases
      /\ b # None
  BY ClientsApart DEF LeaseInv, WellFormed
<1>e. session[b].fence \in Nat /\ \A c \in Collections : lease[c].fence \in Nat
  BY <1>a DEF SessionRow, LeaseRow
<1> USE DEF BuilderHolds, LockedBuild, Acquiring, InPhase, Target, Active
<1>1. ASSUME NEW c \in Collections, AcquireBegin(b, c)
      PROVE  P
  BY <1>1, <1>a, <1>c DEF AcquireBegin, IdleSession
<1>2. ASSUME AcquireLock(b) PROVE P
  BY <1>2, <1>a, <1>b, <1>c, <1>d DEF AcquireLock, GoTo, LockLease
<1>3. ASSUME AcquireCheckReferences(b) PROVE P
  BY <1>3, <1>a, <1>b, <1>c, <1>d DEF AcquireCheckReferences, GoTo, tables
<1>4. ASSUME AcquireCommit(b) PROVE P
  <2>1. Target(b) \in Collections
    BY <1>4, <1>d DEF AcquireCommit
  <2>2. /\ session'[b].phase = "leased" /\ session'[b].collection = session[b].collection
        /\ session'[b].fence = lease[Target(b)].fence + 1
        /\ lease'[Target(b)].fence = lease[Target(b)].fence + 1
    BY <1>4, <2>1, <1>a DEF AcquireCommit, NextFence
  <2>3. lease[Target(b)].fence + 1 \in Nat
    BY <2>1, <1>e
  <2> QED BY <2>1, <2>2, <2>3, <1>4
<1>5. ASSUME AcquireFails(b) PROVE P
  BY <1>5, <1>a DEF AcquireFails, IdleSession
<1>6. ASSUME NEW m \in Corpora, ListEntries(b, m) PROVE P
  BY <1>6, <1>a, <1>b DEF ListEntries, tables
<1>7. ASSUME WriteBegin(b) PROVE P
  BY <1>7, <1>a, <1>b DEF WriteBegin, tables
<1>8. ASSUME WriteLock(b) PROVE P
  BY <1>8, <1>a, <1>b, <1>d DEF WriteLock, GoTo, LockLease, Owns
<1>9. ASSUME WriteCommit(b) PROVE P
  BY <1>9, <1>a, <1>b DEF WriteCommit
<1>10. ASSUME BuildFails(b) PROVE P
  BY <1>10, <1>a, <1>b DEF BuildFails
<1>11. ASSUME BuildDone(b) PROVE P
  BY <1>11, <1>a, <1>b DEF BuildDone, tables
<1>12. ASSUME Release(b) PROVE P
  BY <1>12, <1>a DEF Release, IdleSession
<1>13. ASSUME ReleaseLost(b) PROVE P
  BY <1>13, <1>a DEF ReleaseLost, IdleSession
<1>14. ASSUME HeartbeatBegin(b) PROVE P
  BY <1>14, <1>a, <1>b, <1>c, <1>d DEF HeartbeatBegin, tables, Owns, LeasedPhases
<1>15. ASSUME Renew(b) PROVE P
  <2>1. Target(b) \in Collections /\ session[b].phase \in LeasedPhases
    BY <1>15, <1>d DEF Renew, LeasedPhases
  <2>2. session[b].phase # "writeLocked"
    BY <1>15, <1>b, <1>d DEF Renew
  <2>3. lease'[Target(b)].fence = lease[Target(b)].fence /\ UNCHANGED <<session, leaseLock>>
    BY <1>15, <2>1, <1>a DEF Renew, LeaseRow
  <2> QED BY <2>1, <2>2, <2>3, <1>b DEF LeasedPhases
<1>16. ASSUME HeartbeatFails(b) PROVE P
  <2>1. /\ UNCHANGED <<lease, leaseLock>>
        /\ session'[b].phase = session[b].phase /\ session'[b].begun = session[b].begun
        /\ session'[b].collection = session[b].collection /\ session'[b].fence = session[b].fence
    BY <1>16, <1>a DEF HeartbeatFails, tables
  <2> QED BY <2>1, <1>b, <1>c DEF Owns
<1>17. ASSUME BuilderCrash(b) PROVE P
  BY <1>17, <1>a DEF BuilderCrash, IdleSession
<1> QED
  <2> HIDE DEF P
  <2>1. P
    BY <1>1, <1>2, <1>3, <1>4, <1>5, <1>6, <1>7, <1>8, <1>9, <1>10, <1>11, <1>12, <1>13,
       <1>14, <1>15, <1>16, <1>17 DEF Builder
  <2> QED BY <2>1 DEF P

\* What a collector's own step leaves it holding.
LEMMA CollectorHoldsOwn ==
    ASSUME LeaseInv, NEW k \in Collectors, Collector(k)
    PROVE  CollectorHolds(k)'
<1> DEFINE P == CollectorHolds(k)'
<1>a. /\ gc \in [Collectors -> GCRow] /\ gc[k] \in GCRow
      /\ leaseLock \in [Collections -> Clients \cup {None}]
      /\ mark \in [Collections -> MarkRow]
      /\ now \in 1 .. now
  BY DEF LeaseInv, TypeOK, TablesTypeOK, GCTypeOK
<1>b. /\ ~GCIn(k, "idle") => gc[k].begun \in 1 .. now
      /\ GCIn(k, "markLocked") \/ GCIn(k, "markChecked") => leaseLock[Candidate(k)] = k
      /\ GCIn(k, "sweepBegun") \/ gc[k].phase \in Sweeping => gc[k].token > 0
      /\ gc[k].phase \in Sweeping => MarkHeld(k)
      /\ GCIn(k, "sweepChecked") \/ GCIn(k, "sweepReady") => MarkDue(k)
      /\ ~GCIn(k, "idle") => Candidate(k) \in Collections
  BY DEF LeaseInv, CollectorHolds, WellFormed
<1>c. now' = now /\ lease' = lease
  BY CollectorFrame DEF LeaseInv
<1> USE DEF CollectorHolds, Sweeping, GCIn
<1>1. ASSUME NEW c \in Collections, MarkBegin(k, c) PROVE P
  BY <1>1, <1>a, <1>c DEF MarkBegin
<1>2. ASSUME MarkLock(k) PROVE P
  BY <1>2, <1>a, <1>b, <1>c DEF MarkLock, GCGoTo, LockLease, Candidate
<1>3. ASSUME MarkCheckReferences(k) PROVE P
  BY <1>3, <1>a, <1>b, <1>c DEF MarkCheckReferences, GCGoTo, Candidate, tables
<1>4. ASSUME NEW c \in Collections, SweepBegin(k, c) PROVE P
  <2>1. PICK token \in 1 .. mark[c].token :
           gc' = [gc EXCEPT ![k] = [phase |-> "sweepBegun", collection |-> c,
                                    token |-> token, begun |-> now]]
    BY <1>4 DEF SweepBegin
  <2>2. token > 0
    BY <1>a, <2>1 DEF MarkRow
  <2> QED BY <2>1, <2>2, <1>a, <1>c
<1>5. ASSUME SweepLock(k) PROVE P
  BY <1>5, <1>a, <1>b, <1>c DEF SweepLock, GCGoTo, LockLease, Candidate, MarkHeld, Active
<1>6. ASSUME SweepCheckReferences(k) PROVE P
  BY <1>6, <1>a, <1>b, <1>c DEF SweepCheckReferences, GCGoTo, Candidate, MarkHeld, Active,
     MarkDue, SameGeneration, Ready, tables
<1>7. ASSUME SweepCheckVectors(k) PROVE P
  BY <1>7, <1>a, <1>b, <1>c DEF SweepCheckVectors, GCGoTo, Candidate, MarkHeld, Active,
     MarkDue, SameGeneration, Ready, tables
<1>8. ASSUME MarkCommit(k) \/ SweepReplay(k) \/ SweepCommit(k) \/ GCAborts(k) PROVE P
  BY <1>8, <1>a DEF MarkCommit, SweepReplay, SweepCommit, GCAborts, IdleGC
<1> QED
  <2> HIDE DEF P
  <2>1. P
    BY <1>1, <1>2, <1>3, <1>4, <1>5, <1>6, <1>7, <1>8 DEF Collector
  <2> QED BY <2>1 DEF P

\* A collector changes a mark only as the holder of the control row, and then either
\* numbers a new one or sets the receipt of the one it holds.
LEMMA MarkChanges ==
    ASSUME LeaseInv, NEW k \in Collectors, Collector(k), NEW c \in Collections,
           mark'[c] # mark[c]
    PROVE  /\ leaseLock[c] = k
           /\ \/ mark'[c].token > mark[c].token /\ mark'[c].swept = 0
                 /\ mark'[c].sweepAfter = mark'[c].marked + Grace
              \/ SweepCommit(k) /\ c = Candidate(k) /\ mark'[c].token = mark[c].token
                 /\ mark'[c].sweepAfter = mark[c].sweepAfter
                 /\ mark'[c].marked = mark[c].marked
<1>a. mark \in [Collections -> MarkRow] /\ CollectorHolds(k) /\ mark[c].token \in Nat
  BY DEF LeaseInv, TypeOK, TablesTypeOK, MarkRow
<1>1. CASE SweepCommit(k)
  BY <1>1, <1>a DEF SweepCommit, CollectorHolds, Sweeping, MarkHeld, GCIn
<1>2. CASE MarkCommit(k)
  BY <1>2, <1>a DEF MarkCommit, Marked, CollectorHolds, GCIn
<1>3. CASE ~SweepCommit(k) /\ ~MarkCommit(k)
  <2>1. ASSUME \E d \in Collections : MarkBegin(k, d) \/ SweepBegin(k, d)
        PROVE  UNCHANGED mark
    BY <2>1 DEF MarkBegin, SweepBegin, tables
  <2>2. UNCHANGED mark
    BY <1>3, <2>1 DEF Collector, MarkLock, MarkCheckReferences, SweepLock,
       SweepReplay, SweepCheckReferences, SweepCheckVectors, GCAborts, tables
  <2> QED BY <2>2
<1> QED BY <1>1, <1>2, <1>3

\* What others do leaves a builder what it holds: its lock, and with it its lease.
LEMMA BuilderUndisturbed ==
    ASSUME LeaseInv, TypeOK', NEW b \in Builders, UNCHANGED <<session[b], now>>,
           \A c \in Collections : leaseLock[c] = b => leaseLock'[c] = b /\ lease'[c] = lease[c],
           \A c \in Collections : lease'[c].fence >= lease[c].fence
    PROVE  BuilderHolds(b)'
<1>a. /\ BuilderHolds(b) /\ session[b] \in SessionRow
      /\ ~InPhase(b, "idle") => Target(b) \in Collections
      /\ \A c \in Collections : lease[c].fence \in Nat
  BY DEF LeaseInv, WellFormed, TypeOK, LeaseTypeOK, TablesTypeOK, LeaseRow
<1>1. session[b].fence > 0 => session[b].fence <= lease'[Target(b)].fence
  <2> SUFFICES ASSUME session[b].fence > 0 PROVE session[b].fence <= lease'[Target(b)].fence
    OBVIOUS
  <2>1. session[b].fence <= lease[Target(b)].fence /\ Target(b) \in Collections
    BY <1>a DEF BuilderHolds
  <2>2. lease'[Target(b)].fence >= lease[Target(b)].fence /\ lease[Target(b)].fence \in Nat
    BY <2>1, <1>a
  <2> DEFINE f == session[b].fence
             g == lease[Target(b)].fence
             h == lease'[Target(b)].fence
  <2>3. f \in Nat /\ g \in Nat /\ h \in Nat /\ f <= g /\ h >= g
    BY <2>1, <2>2, <1>a DEF SessionRow, TypeOK, TablesTypeOK, LeaseRow
  <2>4. f <= h
    <3> HIDE DEF f, g, h
    <3> QED BY <2>3
  <2> QED BY <2>4
<1>2. session[b].phase \in LockedBuild
      => Target(b) \in Collections /\ leaseLock[Target(b)] = b
  BY <1>a DEF BuilderHolds, LockedBuild, InPhase
<1> QED BY <1>a, <1>1, <1>2 DEF BuilderHolds, Owns, Active, InPhase, Target, LockedBuild

\* What others do leaves a collector what it holds: its lock, the lease it found
\* ended, and the mark.
LEMMA CollectorUndisturbed ==
    ASSUME LeaseInv, NEW k \in Collectors, UNCHANGED gc[k], now' >= now, now' \in Nat,
           \A c \in Collections : leaseLock[c] = k =>
               leaseLock'[c] = k /\ lease'[c] = lease[c] /\ mark'[c] = mark[c]
    PROVE  CollectorHolds(k)'
<1>a. /\ CollectorHolds(k) /\ gc[k] \in GCRow /\ now \in Nat
      /\ ~GCIn(k, "idle") => Candidate(k) \in Collections
  BY DEF LeaseInv, WellFormed, TypeOK, GCTypeOK, TablesTypeOK
<1>1. ~GCIn(k, "idle") => gc[k].begun \in 1 .. now'
  BY <1>a DEF CollectorHolds
<1>2. GCIn(k, "markLocked") \/ GCIn(k, "markChecked") \/ gc[k].phase \in Sweeping
      => Candidate(k) \in Collections /\ leaseLock[Candidate(k)] = k
  BY <1>a DEF CollectorHolds, Sweeping, GCIn, MarkHeld
<1> QED
  BY <1>a, <1>1, <1>2 DEF CollectorHolds, MarkHeld, MarkDue, SameGeneration, Ready, Active,
     GCIn, Candidate, Sweeping

\* A builder keeps the generations apart.
LEMMA GenerationsStayUnique ==
    ASSUME LeaseInv, NEW b \in Builders, Builder(b)
    PROVE  GenerationsAreUnique'
<1>a. /\ \A d \in Builders : d # b => session'[d] = session[d]
      /\ \A d \in Builders : session[d].fence \in Nat
      /\ \A d \in Builders : session[d].fence > 0 =>
            Target(d) \in Collections /\ session[d].fence <= lease[Target(d)].fence
      /\ \A c \in Collections : lease[c].fence \in Nat
  BY BuilderFrame DEF LeaseInv, BuilderHolds, TypeOK, LeaseTypeOK, SessionRow, TablesTypeOK,
     LeaseRow
<1>1. ASSUME NEW d \in Builders, d # b, session'[d].fence > 0, session'[b].fence > 0,
             Target(d)' = Target(b)'
      PROVE  session'[d].fence # session'[b].fence
  <2>1. session'[d] = session[d] /\ Target(d)' = Target(d)
    BY <1>1, <1>a DEF Target
  <2>2. CASE session'[b].fence = session[b].fence /\ Target(b)' = Target(b)
    BY <2>1, <2>2, <1>1 DEF LeaseInv, GenerationsAreUnique
  <2>3. CASE Target(b)' = Target(b) /\ Target(b) \in Collections
             /\ session'[b].fence = lease[Target(b)].fence + 1
    <3> DEFINE f == session[d].fence
               g == lease[Target(b)].fence
    <3>1. f \in Nat /\ g \in Nat /\ f <= g
      BY <2>1, <2>3, <1>1, <1>a
    <3> QED BY <2>1, <2>3, <3>1
  <2> QED BY <2>2, <2>3, <1>1, BuilderHoldsOwn
<1> QED
  <2> SUFFICES ASSUME NEW d1 \in Builders, NEW d2 \in Builders, d1 # d2,
                      session'[d1].fence > 0, Target(d1)' = Target(d2)',
                      session'[d1].fence = session'[d2].fence
               PROVE  FALSE
    BY DEF GenerationsAreUnique
  <2>1. CASE d1 = b
    BY <2>1, <1>1
  <2>2. CASE d2 = b
    BY <2>2, <1>1
  <2>3. CASE d1 # b /\ d2 # b
    BY <2>3, <1>a DEF LeaseInv, GenerationsAreUnique, Target
  <2> QED BY <2>1, <2>2, <2>3

\* Initially nobody holds anything and nothing is marked.
LEMMA InitLease == Init => LeaseInv
<1> SUFFICES ASSUME Init PROVE LeaseInv
  OBVIOUS
<1>1. TypeOK /\ WellFormed
  BY InitTypes
<1>2. /\ \A b \in Builders : session[b] = IdleSession
      /\ \A k \in Collectors : gc[k] = IdleGC
      /\ \A c \in Collections : mark[c] = NoMark
  BY DEF Init, LeaseInit, GCInit, TablesInit
<1> QED
  BY <1>1, <1>2 DEF LeaseInv, BuilderHolds, CollectorHolds, GenerationsAreUnique, MarksTimed,
     IdleSession, IdleGC, NoMark, LockedBuild, Acquiring, Sweeping, InPhase, GCIn

\* Every step keeps what builders and collectors hold in force.
LEMMA StepLease ==
    ASSUME LeaseInv, [Next]_vars
    PROVE  LeaseInv'
<1>a. TypeOK' /\ WellFormed'
  BY StepTypes DEF LeaseInv
<1>b. /\ TypeOK /\ WellFormed /\ MarksTimed
      /\ mark \in [Collections -> MarkRow]
      /\ leaseLock \in [Collections -> Clients \cup {None}]
      /\ now \in Nat /\ now <= now
      /\ \A c \in Collections : lease[c].fence \in Nat /\ lease[c].fence <= lease[c].fence
  BY DEF LeaseInv, TypeOK, TablesTypeOK, LeaseRow
<1>1. CASE Tick /\ UNCHANGED <<release, gc>>
  <2>1. /\ now' = now + 1 /\ now' \in Nat /\ now' >= now
        /\ UNCHANGED <<lease, leaseLock, mark, session, gc>>
    BY <1>1, <1>b DEF Tick, leaseVars
  <2>2. \A b \in Builders : BuilderHolds(b)'
    <3> SUFFICES ASSUME NEW b \in Builders PROVE BuilderHolds(b)'
      OBVIOUS
    <3>1. BuilderHolds(b) /\ session[b].begun \in Nat
      BY DEF LeaseInv, TypeOK, LeaseTypeOK, SessionRow, Times
    <3>2. session[b].begun <= now => session[b].begun <= now'
      BY <2>1, <3>1, <1>b
    <3> QED BY <2>1, <3>1, <3>2 DEF BuilderHolds, InPhase, Target, Active, Owns
  <2>3. \A k \in Collectors : CollectorHolds(k)'
    <3> SUFFICES ASSUME NEW k \in Collectors PROVE CollectorHolds(k)'
      OBVIOUS
    <3> QED BY <2>1, CollectorUndisturbed
  <2>4. GenerationsAreUnique' /\ MarksTimed'
    BY <2>1 DEF LeaseInv, GenerationsAreUnique, MarksTimed, Target
  <2> QED BY <1>a, <2>2, <2>3, <2>4 DEF LeaseInv
<1>2. ASSUME NEW b \in Builders, Builder(b), UNCHANGED <<release, gc>> PROVE LeaseInv'
  <2>1. /\ UNCHANGED <<now, mark>>
        /\ \A d \in Builders : d # b => session'[d] = session[d]
        /\ \A c \in Collections : leaseLock[c] \notin {b, None} => leaseLock'[c] = leaseLock[c]
    BY <1>2, <1>b, BuilderFrame
  <2>2. \A c \in Collections : leaseLock[c] \notin {b, None} => lease'[c] = lease[c]
    BY <1>2, LeaseChanges
  <2>3. \A c \in Collections : lease'[c].fence >= lease[c].fence
    BY <1>2, FencesGrow
  <2>4. ASSUME NEW d \in Builders PROVE BuilderHolds(d)'
    <3>1. CASE d = b
      BY <1>2, <3>1, BuilderHoldsOwn
    <3>2. CASE d # b
      BY <1>a, <2>1, <2>2, <2>3, <3>2, ClientsApart, BuilderUndisturbed
    <3> QED BY <3>1, <3>2
  <2>5. ASSUME NEW k \in Collectors PROVE CollectorHolds(k)'
    BY <1>2, <1>b, <2>1, <2>2, ClientsApart, CollectorUndisturbed
  <2>6. GenerationsAreUnique' /\ MarksTimed'
    BY <1>2, <1>b, <2>1, GenerationsStayUnique DEF MarksTimed
  <2> QED BY <1>a, <2>4, <2>5, <2>6 DEF LeaseInv
<1>3. ASSUME NEW o \in Operators, Operator(o), Revalidated, UNCHANGED <<session, beat, gc>> PROVE LeaseInv'
  <2>1. /\ UNCHANGED <<now, lease, mark>>
        /\ \A c \in Collections : leaseLock[c] \notin {o, None} => leaseLock'[c] = leaseLock[c]
    BY <1>3, <1>b, OperatorFrame
  <2>2. \A b \in Builders : BuilderHolds(b)'
    BY <1>3, <1>a, <1>b, <2>1, ClientsApart, BuilderUndisturbed
  <2>3. \A k \in Collectors : CollectorHolds(k)'
    BY <1>3, <1>b, <2>1, ClientsApart, CollectorUndisturbed
  <2>4. GenerationsAreUnique' /\ MarksTimed'
    BY <1>3, <2>1 DEF LeaseInv, GenerationsAreUnique, MarksTimed, Target
  <2> QED BY <1>a, <2>2, <2>3, <2>4 DEF LeaseInv
<1>4. ASSUME NEW k \in Collectors, Collector(k), UNCHANGED <<session, beat, overrun, release>>
      PROVE  LeaseInv'
  <2>1. /\ UNCHANGED <<now, lease>>
        /\ \A j \in Collectors : j # k => gc'[j] = gc[j]
        /\ \A c \in Collections : leaseLock[c] \notin {k, None} => leaseLock'[c] = leaseLock[c]
    BY <1>4, <1>b, CollectorFrame
  <2>2. \A c \in Collections : leaseLock[c] # k => mark'[c] = mark[c]
    BY <1>4, MarkChanges
  <2>3. \A b \in Builders : BuilderHolds(b)'
    BY <1>4, <1>a, <1>b, <2>1, ClientsApart, BuilderUndisturbed
  <2>4. ASSUME NEW j \in Collectors PROVE CollectorHolds(j)'
    <3>1. CASE j = k
      BY <1>4, <3>1, CollectorHoldsOwn
    <3>2. CASE j # k
      BY <1>b, <2>1, <2>2, <3>2, ClientsApart, CollectorUndisturbed
    <3> QED BY <3>1, <3>2
  <2>5. GenerationsAreUnique'
    BY <1>4, <2>1 DEF LeaseInv, GenerationsAreUnique, Target
  <2>6. MarksTimed'
    <3> SUFFICES ASSUME NEW c \in Collections, mark'[c].token > 0
                 PROVE  mark'[c].sweepAfter = mark'[c].marked + Grace
      BY DEF MarksTimed
    <3>1. CASE mark'[c] = mark[c]
      BY <3>1, <1>b DEF MarksTimed
    <3>2. CASE mark'[c] # mark[c]
      BY <3>2, <1>4, <1>b, MarkChanges DEF MarksTimed
    <3> QED BY <3>1, <3>2
  <2> QED BY <1>a, <2>3, <2>4, <2>5, <2>6 DEF LeaseInv
<1>5. CASE UNCHANGED vars
  BY <1>a, <1>5 DEF vars, tables, LeaseInv, BuilderHolds, CollectorHolds, MarkHeld, MarkDue,
     SameGeneration, Ready, Active, Owns, InPhase, GCIn, Target, Candidate,
     GenerationsAreUnique, MarksTimed
<1> QED BY <1>1, <1>2, <1>3, <1>4, <1>5 DEF Next

\* In every reachable state locks, leases and marks are held as described.
THEOREM LeaseInvAlways == Spec => []LeaseInv
BY InitLease, StepLease, PTL DEF Spec

\* Fencing: the builder that is about to write is the generation the control row
\* names and holds that row, and no two builds of a collection ever carry the same
\* generation, however long transactions take, whoever crashes and whatever expires.
THEOREM FencingStaysExact == Spec => []FencingIsExact
<1>1. LeaseInv => FencingIsExact
  BY DEF LeaseInv, FencingIsExact, WriterIsCurrentGeneration, BuilderHolds, LockedBuild, InPhase
<1> QED BY <1>1, LeaseInvAlways, PTL

\* No lease that is live at present is taken over, although acquire compares with the
\* time its transaction began: the clock may have run on, the row cannot have changed.
THEOREM LiveLeasesAreNeverTaken == Spec => LiveLeaseIsNeverTaken
<1>1. ASSUME LeaseInv, [Next]_vars
      PROVE  [\A c \in Collections :
                 lease'[c].fence # lease[c].fence => ~Active(c, now)]_<<lease, now>>
  <2> SUFFICES ASSUME NEW c \in Collections, lease'[c].fence # lease[c].fence
               PROVE  ~Active(c, now)
    OBVIOUS
  <2>1. PICK b \in Builders : Builder(b)
    BY <1>1, OperatorFrame, CollectorFrame DEF Next, Tick, vars, tables, LeaseInv
  <2>2. AcquireCommit(b) /\ c = Target(b)
    BY <1>1, <2>1, LeaseChanges
  <2>3. ~Active(c, session[b].begun) /\ session[b].begun <= now
    BY <1>1, <2>2 DEF AcquireCommit, LeaseInv, BuilderHolds, Acquiring, InPhase
  <2>4. lease[c].expires \in Nat /\ session[b].begun \in Nat /\ now \in Nat
    BY <1>1 DEF LeaseInv, TypeOK, TablesTypeOK, LeaseTypeOK, LeaseRow, SessionRow, Times
  <2> DEFINE e == lease[c].expires
             t == session[b].begun
  <2>5. ~(e > now)
    <3>1. e \in Nat /\ t \in Nat /\ now \in Nat /\ ~(e > t) /\ t <= now
      BY <2>3, <2>4 DEF Active
    <3> HIDE DEF e, t
    <3> QED BY <3>1
  <2> QED BY <2>5 DEF Active
<1> QED BY <1>1, LeaseInvAlways, PTL DEF Spec, LiveLeaseIsNeverTaken

\* A sweep deletes what its mark described, of the generation that was marked and
\* after the whole grace period, and the receipt it writes is never withdrawn.
THEOREM SweepsAlwaysFollowTheirMark == Spec => SweepsFollowTheirMark
<1>1. ASSUME LeaseInv, Locked, [Next]_vars, NEW c \in Collections, Sweeps(c)
      PROVE  /\ lease[c].fence = mark[c].fence
             /\ RecordCount(c) = mark[c].count
             /\ mark[c].marked + Grace <= now
  <2>1. PICK k \in Collectors : SweepCommit(k) /\ c = Candidate(k)
    BY <1>1, SweepStep
  <2>2. /\ MarkHeld(k) /\ MarkDue(k) /\ gc[k].token > 0
        /\ gc[k].begun \in 1 .. now /\ RecordCount(c) = mark[c].count
    BY <1>1, <2>1 DEF SweepCommit, LeaseInv, CollectorHolds, Sweeping, GCIn
  <2>3. mark[c].sweepAfter = mark[c].marked + Grace
    BY <1>1, <2>1, <2>2 DEF MarkHeld, LeaseInv, MarksTimed
  <2>4. mark[c].sweepAfter <= gc[k].begun /\ lease[c].fence = mark[c].fence
    BY <2>1, <2>2 DEF MarkDue, Ready, SameGeneration
  <2>5. mark[c].sweepAfter \in Nat /\ now \in Nat
    BY <1>1 DEF LeaseInv, TypeOK, TablesTypeOK, MarkRow
  <2> DEFINE a == mark[c].sweepAfter
             t == gc[k].begun
  <2>6. a <= now
    <3>1. a \in Nat /\ now \in Nat /\ t \in 1 .. now /\ a <= t
      BY <2>2, <2>4, <2>5
    <3> HIDE DEF a, t
    <3> QED BY <3>1
  <2> QED BY <2>2, <2>3, <2>4, <2>6
<1>2. ASSUME LeaseInv, [Next]_vars, NEW c \in Collections,
             mark[c].swept > 0, mark'[c] # mark[c]
      PROVE  mark'[c].token > mark[c].token
  <2>1. PICK k \in Collectors : Collector(k)
    BY <1>2, OperatorFrame, BuilderFrame DEF Next, Tick, vars, tables, LeaseInv
  <2>2. SweepCommit(k) /\ c = Candidate(k) => mark[c].swept = 0
    BY <1>2 DEF SweepCommit, LeaseInv, CollectorHolds, Sweeping, GCIn, MarkHeld
  <2> QED BY <1>2, <2>1, <2>2, MarkChanges
<1>3. LeaseInv /\ Locked /\ [Next]_vars
      => [\A c \in Collections :
             Sweeps(c) => lease[c].fence = mark[c].fence]_<<mark, rows, lease>>
  BY <1>1
<1>4. LeaseInv /\ Locked /\ [Next]_vars
      => [\A c \in Collections :
             /\ Sweeps(c) => RecordCount(c) = mark[c].count
                             /\ mark[c].marked + Grace <= now
             /\ mark[c].swept > 0 /\ mark'[c] # mark[c]
                => mark'[c].token > mark[c].token]_<<mark, rows, now>>
  BY <1>1, <1>2
<1> QED
  BY <1>3, <1>4, LeaseInvAlways, LockedAlways, PTL
     DEF Spec, SweepsFollowTheirMark, SweepSparesNewerGenerations, ReceiptIsFinal

-----------------------------------------------------------------------------
(* Compare-and-swap                                                         *)

\* A release moves an alias only from the generation its operator saw, to the next
\* one: of two operators that saw the same generation, one fails.
THEOREM ReleasesSeeTheirPredecessor == Spec => ReleaseSawItsPredecessor
<1>1. ASSUME TypeOK, WellFormed, [Next]_vars
      PROVE  [\A a \in Aliases, o \in Operators :
                 pointer'[a] # pointer[a] /\ release'[o] # release[o]
                 => /\ release[o].alias = a
                    /\ release[o].expected = pointer[a].generation
                    /\ pointer'[a].generation = pointer[a].generation + 1]_<<pointer, release>>
  <2> SUFFICES ASSUME NEW a \in Aliases, NEW o \in Operators,
                      pointer'[a] # pointer[a], release'[o] # release[o]
               PROVE  /\ release[o].alias = a
                      /\ release[o].expected = pointer[a].generation
                      /\ pointer'[a].generation = pointer[a].generation + 1
    OBVIOUS
  <2>1. PICK p \in Operators : Operator(p)
    BY <1>1, BuilderFrame, CollectorFrame DEF Next, Tick, vars, tables
  <2>2. p = o /\ ReleaseCommit(o)
    BY <1>1, <2>1, OperatorFrame
  <2>3. pointer \in [Aliases -> PointerRow] /\ release[o].alias = a
    BY <1>1, <2>2 DEF ReleaseCommit, TypeOK, TablesTypeOK
  <2> QED BY <2>2, <2>3 DEF ReleaseCommit, Moved
<1>2. Spec => [](TypeOK /\ WellFormed)
  BY InitTypes, StepTypes, PTL DEF Spec
<1> QED BY <1>1, <1>2, PTL DEF Spec, ReleaseSawItsPredecessor

-----------------------------------------------------------------------------
(***************************************************************************)
(* Why what an alias serves is never overwritten or deleted.  A collection's*)
(* rows and its lease change only in the hands of whoever holds its control *)
(* row, and each of those has found, while holding it, that no alias names  *)
(* the collection; a release can add a collection to an alias only while    *)
(* holding the same row.  A guard that was late when it passed puts its      *)
(* collection among those overrun, and nothing else does: no theorem        *)
(* assumes how long a statement takes.                                      *)
(* From there: the audit trail, the target of a rollback, what a build      *)
(* leaves behind, and the refinement.                                       *)
(***************************************************************************)

Safe == TypeOK /\ Protection

\* The invariant of the control row is part of the invariant of the releases.
LEMMA SafeLocked == Safe => Locked
BY DEF Safe, Protection, OperatorsExclude, HoldsTarget, Locked, TargetsLocked

\* A builder changes the rows of a collection only while it holds the control row
\* and excludes others (or is late), its lease only then or to end or prolong one
\* that is live (or late), and forgets a late guard only for the next generation.
LEMMA BuilderChanges ==
    ASSUME Safe, NEW b \in Builders, Builder(b), NEW c \in Collections
    PROVE  /\ rows'[c] # rows[c] =>
                 leaseLock[c] = b /\ (c \in overrun \/ ~Referenced(c))
           /\ lease'[c] # lease[c] =>
                 \/ Excludes(b, c)
                 \/ /\ leaseLock[c] = None
                    /\ lease'[c].expires = 0 \/ Active(c, now) \/ c \in overrun'
           /\ c \in overrun /\ c \notin overrun' => Excludes(b, c)
<1>a. /\ rows \in [Collections -> [RecordIds -> VectorRow]]
      /\ lease \in [Collections -> LeaseRow]
      /\ InPhase(b, "acquireChecked") => Excludes(b, Target(b))
      /\ InPhase(b, "writeLocked") =>
            leaseLock[Target(b)] = b /\ (Target(b) \notin overrun => ~Referenced(Target(b)))
  BY DEF Safe, TypeOK, TablesTypeOK, Protection, BuildersExclude, WriterExcludes
<1>1. ASSUME \/ \E d \in Collections : AcquireBegin(b, d)
             \/ \E m \in Corpora : ListEntries(b, m)
      PROVE  UNCHANGED <<rows, lease, overrun>>
  BY <1>1 DEF AcquireBegin, ListEntries, tables
<1>2. CASE WriteCommit(b)
  BY <1>2, <1>a DEF WriteCommit, Target
<1>3. CASE AcquireCommit(b)
  BY <1>3, <1>a DEF NextFence, AcquireCommit
<1>4. CASE Release(b)
  BY <1>4, <1>a DEF Release
<1>5. CASE Renew(b)
  BY <1>5, <1>a DEF Renew, PassGuard
<1>6. CASE ~(WriteCommit(b) \/ AcquireCommit(b) \/ Release(b) \/ Renew(b))
  <2>1. UNCHANGED <<rows, lease>> /\ overrun \subseteq overrun'
    BY <1>6, <1>1 DEF tables, Builder, AcquireLock, AcquireCheckReferences,
       AcquireFails, WriteBegin, WriteLock, BuildFails, BuildDone,
       ReleaseLost, HeartbeatBegin, HeartbeatFails, BuilderCrash, PassGuard
  <2> QED BY <2>1
<1> QED BY <1>2, <1>3, <1>4, <1>5, <1>6

\* A builder that passes the test of its lease or of the references has locked
\* the control row of its target.
LEMMA BuilderExcludes ==
    ASSUME Safe, NEW b \in Builders, Builder(b)
    PROVE  /\ InPhase(b, "acquireLocked")' => leaseLock'[Target(b)'] = b
           /\ InPhase(b, "acquireChecked")' => Excludes(b, Target(b))'
           /\ InPhase(b, "writeLocked")' => WriterExcludes(b)'
<1> DEFINE P == /\ InPhase(b, "acquireLocked")' => leaseLock'[Target(b)'] = b
                /\ InPhase(b, "acquireChecked")' => Excludes(b, Target(b))'
                /\ InPhase(b, "writeLocked")' => WriterExcludes(b)'
<1>a. /\ session \in [Builders -> SessionRow] /\ beat \in [Builders -> BeatRow]
      /\ leaseLock \in [Collections -> Clients \cup {None}]
  BY DEF Safe, TypeOK, TablesTypeOK, LeaseTypeOK
<1>b. /\ InPhase(b, "acquireLocked") => leaseLock[Target(b)] = b
      /\ InPhase(b, "acquireChecked") => Excludes(b, Target(b))
      /\ InPhase(b, "writeLocked") => WriterExcludes(b)
  BY DEF Safe, Protection, BuildersExclude
<1>c. now' = now /\ \A c \in Collections : Referenced(c)' = Referenced(c)
  BY BuilderFrame DEF Safe, Referenced
<1>d. /\ ~InPhase(b, "idle") => Target(b) \in Collections
      /\ beat[b].stage # "off" => session[b].phase \in LeasedPhases
      /\ \A c \in Collections : Referenced(c) /\ c \notin overrun => ~Active(c, now)
  BY DEF Safe, Protection, WellFormed, ReferencedCollectionsUnleased
<1>1. ASSUME NEW c \in Collections, AcquireBegin(b, c)
      PROVE  P
  BY <1>1, <1>a, <1>b, <1>c DEF AcquireBegin, IdleSession, InPhase
<1>2. ASSUME AcquireLock(b) PROVE P
  BY <1>2, <1>a, <1>b, <1>c, <1>d DEF AcquireLock, GoTo, LockLease, InPhase, Target
<1>3. ASSUME AcquireCheckReferences(b) PROVE P
  BY <1>3, <1>a, <1>b, <1>c, <1>d
     DEF AcquireCheckReferences, GoTo, InPhase, Target, Excludes, tables
<1>4. ASSUME AcquireCommit(b) PROVE P
  BY <1>4, <1>a, <1>b, <1>c DEF NextFence, AcquireCommit, InPhase
<1>5. ASSUME AcquireFails(b) PROVE P
  BY <1>5, <1>a, <1>b, <1>c DEF AcquireFails, IdleSession, InPhase
<1>6. ASSUME NEW m \in Corpora, ListEntries(b, m) PROVE P
  BY <1>6, <1>a, <1>b, <1>c DEF ListEntries, InPhase
<1>7. ASSUME WriteBegin(b) PROVE P
  BY <1>7, <1>a, <1>b, <1>c DEF WriteBegin, InPhase
<1>8. ASSUME WriteLock(b) PROVE P
  <2>1. Target(b) \in Collections
    BY <1>8, <1>d DEF WriteLock, InPhase
  <2>2. Target(b) \notin overrun' => ~Referenced(Target(b))
    BY <1>8, <1>d, <2>1 DEF WriteLock, PassGuard
  <2> QED BY <1>8, <2>1, <2>2, <1>a, <1>b, <1>c
          DEF WriteLock, GoTo, LockLease, InPhase, Target, WriterExcludes
<1>9. ASSUME WriteCommit(b) PROVE P
  BY <1>9, <1>a, <1>b, <1>c DEF WriteCommit, InPhase
<1>10. ASSUME BuildFails(b) PROVE P
  BY <1>10, <1>a, <1>b, <1>c DEF BuildFails, StoppedBeat, NoBeat, InPhase
<1>11. ASSUME BuildDone(b) PROVE P
  BY <1>11, <1>a, <1>b, <1>c DEF BuildDone, StoppedBeat, NoBeat, InPhase
<1>12. ASSUME Release(b) PROVE P
  BY <1>12, <1>a DEF Release, InPhase, IdleSession, NoBeat
<1>13. ASSUME ReleaseLost(b) PROVE P
  BY <1>13, <1>a DEF ReleaseLost, InPhase, IdleSession, NoBeat
<1>14. ASSUME HeartbeatBegin(b) PROVE P
  BY <1>14, <1>a, <1>b, <1>c, <1>d
     DEF HeartbeatBegin, tables, InPhase, LeasedPhases, Target, Excludes, WriterExcludes
<1>15. ASSUME Renew(b) PROVE P
  BY <1>15, <1>a, <1>b, <1>c, <1>d
     DEF Renew, NoBeat, InPhase, LeasedPhases, Target, Excludes, WriterExcludes, PassGuard
<1>16. ASSUME HeartbeatFails(b) PROVE P
  BY <1>16, <1>a, <1>b, <1>c, <1>d
     DEF HeartbeatFails, tables, NoBeat, InPhase, LeasedPhases, Target, Excludes,
         WriterExcludes
<1>17. ASSUME BuilderCrash(b) PROVE P
  BY <1>17, <1>a DEF BuilderCrash, InPhase, IdleSession, NoBeat
<1> QED
  <2> HIDE DEF P
  <2>1. P
    BY <1>1, <1>2, <1>3, <1>4, <1>5, <1>6, <1>7, <1>8, <1>9, <1>10, <1>11, <1>12, <1>13,
       <1>14, <1>15, <1>16, <1>17 DEF Builder
  <2> QED BY <2>1 DEF P

\* A builder step preserves the protection of what is published.
LEMMA BuilderProtects ==
    ASSUME Safe, NEW b \in Builders, Builder(b), UNCHANGED <<release, gc>>
    PROVE  Protection'
<1>a. TypeOK /\ Protection
  BY DEF Safe
<1>b. /\ UNCHANGED <<now, pointer>> /\ now \in Nat
      /\ \A d \in Builders : d # b => session'[d] = session[d] /\ beat'[d] = beat[d]
      /\ \A c \in Collections : leaseLock[c] \notin {b, None} => leaseLock'[c] = leaseLock[c]
  BY <1>a, BuilderFrame DEF TypeOK, TablesTypeOK
<1>c. \A c : Referenced(c)' = Referenced(c)
  BY <1>b DEF Referenced
<1>1. WellFormed'
  BY <1>a, BuilderWellFormed DEF Protection
<1>3. ReferencedCollectionsUnleased'
  <2> SUFFICES ASSUME NEW c \in Collections, Referenced(c), c \notin overrun'
               PROVE  ~Active(c, now)'
    BY <1>c DEF ReferencedCollectionsUnleased
  <2>1. ~Active(c, now)
    BY <1>a, BuilderChanges DEF Protection, ReferencedCollectionsUnleased, Excludes
  <2>2. lease'[c] = lease[c] \/ lease'[c].expires = 0
    BY <2>1, BuilderChanges DEF Excludes
  <2> QED BY <1>b, <2>1, <2>2 DEF Active
<1>4. BuildersExclude'
  <2> SUFFICES ASSUME NEW d \in Builders, d # b
               PROVE  /\ InPhase(d, "acquireLocked")' => leaseLock'[Target(d)'] = d
                      /\ InPhase(d, "acquireChecked")' => Excludes(d, Target(d))'
                      /\ InPhase(d, "writeLocked")' => WriterExcludes(d)'
    BY BuilderExcludes DEF BuildersExclude
  <2>1. Target(d)' = Target(d) /\ \A p : InPhase(d, p)' = InPhase(d, p)
    BY <1>b DEF Target, InPhase
  <2>2. ~InPhase(d, "idle") => Target(d) \in Collections
    BY <1>a DEF Protection, WellFormed
  <2>3. ASSUME InPhase(d, "acquireLocked") \/ InPhase(d, "acquireChecked")
               \/ InPhase(d, "writeLocked")
        PROVE  /\ leaseLock'[Target(d)] = leaseLock[Target(d)] /\ leaseLock[Target(d)] = d
               /\ Target(d) \in overrun => Target(d) \in overrun'
    <3>1. leaseLock[Target(d)] = d /\ Target(d) \in Collections
      BY <1>a, <2>2, <2>3 DEF Protection, BuildersExclude, Excludes, WriterExcludes, InPhase
    <3>2. Target(d) \in overrun => Target(d) \in overrun'
      BY <3>1, BuilderChanges DEF Excludes
    <3> QED BY <3>1, <3>2, <1>b, ClientsApart
  <2> QED BY <1>a, <1>c, <2>1, <2>3
          DEF Protection, BuildersExclude, Excludes, WriterExcludes
<1>5. CollectorsExclude'
  BY SafeLocked, StepLocked DEF Locked, Next
<1>6. OperatorsExclude'
  <2> SUFFICES ASSUME NEW o \in Operators,
                      ReleaseIn(o, "leaseLocked") \/ ReleaseIn(o, "validated")
               PROVE  HoldsTarget(o)'
    BY DEF OperatorsExclude, HoldsTarget, ReleaseIn
  <2> DEFINE c == release[o].target
  <2>1. c \in Collections /\ HoldsTarget(o)
    BY <1>a DEF WellFormed, ReleaseIn, Protection, OperatorsExclude
  <2>2. leaseLock[c] = o /\ o # b /\ o # None
    BY <2>1, ClientsApart DEF HoldsTarget
  <2>3. lease'[c] = lease[c] /\ rows'[c] = rows[c]
    BY <2>1, <2>2, BuilderChanges DEF Excludes
  <2>4. leaseLock'[c] = o
    BY <2>1, <2>2, <1>b
  <2> QED BY <2>1, <2>3, <2>4, <1>b DEF HoldsTarget, ReleaseIn, Active, Manifest
<1>7. ReleasedContentIntact'
  <2> SUFFICES ASSUME NEW a \in Aliases, pointer[a].generation > 0,
                      pointer[a].active \notin overrun'
               PROVE  Manifest(pointer[a].active)' = pointer[a].snapshot
    BY <1>b DEF ReleasedContentIntact
  <2> DEFINE c == pointer[a].active
  <2>1. c \in Collections /\ Referenced(c)
    BY <1>a DEF Protection, WellFormed, Referenced
  <2>2. c \notin overrun
    BY <2>1, BuilderChanges DEF Excludes
  <2>3. Manifest(c) = pointer[a].snapshot
    BY <2>2, <1>a DEF Protection, ReleasedContentIntact
  <2>4. rows'[c] = rows[c]
    BY <2>1, <2>2, BuilderChanges
  <2> QED BY <2>1, <2>3, <2>4, <1>b DEF Manifest
<1> QED BY <1>1, <1>3, <1>4, <1>5, <1>6, <1>7 DEF Protection

\* An operator that passes the tests of lease and manifest has locked the control
\* row of its target.
LEMMA OperatorExcludes ==
    ASSUME Safe, NEW o \in Operators, Operator(o)
    PROVE  HoldsTarget(o)'
<1> DEFINE c == release[o].target
           P == HoldsTarget(o)'
<1>a. /\ release \in [Operators -> ReleaseRow] /\ release[o] \in ReleaseRow
      /\ leaseLock \in [Collections -> Clients \cup {None}]
      /\ lease \in [Collections -> LeaseRow] /\ now \in Nat
  BY DEF Safe, TypeOK, TablesTypeOK, ReleaseTypeOK
<1>b. UNCHANGED <<now, rows, lease>>
  BY OperatorFrame DEF Safe, Protection
<1>1. ASSUME NEW a \in Aliases, NEW d \in Collections, NEW m \in Corpora,
             PublishBegin(o, a, d, m)
      PROVE  P
  BY <1>1, <1>a DEF PublishBegin, ReleaseIn, HoldsTarget
<1>2. ASSUME NEW a \in Aliases, RollbackBegin(o, a) PROVE P
  BY <1>2, <1>a DEF RollbackBegin, IdleRelease, ReleaseIn, HoldsTarget
<1>3. ASSUME PublishLockPointer(o) PROVE P
  BY <1>3, <1>a DEF PublishLockPointer, ReleaseIn, HoldsTarget
<1>4. ASSUME RollbackLockPointer(o) PROVE P
  BY <1>4, <1>a DEF RollbackLockPointer, ReleaseIn, HoldsTarget
<1>5. ASSUME LockTargetLease(o) PROVE P
  <2>1. c \in Collections /\ release[o].begun \in Nat /\ release[o].begun <= now
    BY <1>5, <1>a DEF LockTargetLease, ReleaseIn, Safe, Protection, WellFormed, ReleaseRow, Times
  <2>2. lease[c].expires \in Nat
    BY <2>1, <1>a DEF LeaseRow
  <2>3. ~Active(c, now)
    BY <1>5, <1>a, <2>1, <2>2 DEF LockTargetLease, Active
  <2>4. /\ leaseLock'[c] = o /\ release'[o].target = c /\ release'[o].phase = "leaseLocked"
    BY <1>5, <1>a, <2>1 DEF LockTargetLease, LockLease
  <2> QED BY <1>b, <2>3, <2>4 DEF ReleaseIn, Active, HoldsTarget
<1>6. ASSUME Validate(o) PROVE P
  <2>1. leaseLock[c] = o /\ ~Active(c, now)
    BY <1>6 DEF Validate, ReleaseIn, Safe, Protection, OperatorsExclude, HoldsTarget
  <2>2. /\ release'[o].target = c /\ release'[o].snapshot = Manifest(c)
        /\ leaseLock' = leaseLock
    BY <1>6, <1>a DEF Validate, tables
  <2> QED BY <1>b, <2>1, <2>2 DEF Active, Manifest, HoldsTarget
<1>7. ASSUME ReleaseCommit(o) \/ ReleaseAborts(o) PROVE P
  BY <1>7, <1>a DEF Moved, Recorded, ReleaseCommit, ReleaseAborts, IdleRelease,
     ReleaseIn, HoldsTarget
<1> QED
  <2> HIDE DEF P
  <2>1. P
    BY <1>1, <1>2, <1>3, <1>4, <1>5, <1>6, <1>7 DEF Operator
  <2> QED BY <2>1 DEF P

\* A step of publish or rollback preserves the protection of what is published.
LEMMA OperatorProtects ==
    ASSUME Safe, NEW o \in Operators, Operator(o), Revalidated, UNCHANGED <<session, beat, gc>>
    PROVE  Protection'
<1>a. TypeOK /\ Protection /\ WellFormed
  BY DEF Safe, Protection
<1>b. /\ UNCHANGED <<now, rows, lease>>
      /\ \A p \in Operators : p # o => release'[p] = release[p]
      /\ \A c \in Collections : leaseLock[c] \notin {o, None} => leaseLock'[c] = leaseLock[c]
  BY <1>a, OperatorFrame
<1>c. ASSUME NEW c \in Collections, Referenced(c)'
      PROVE  Referenced(c) \/ (leaseLock[c] = o /\ ~Active(c, now))
  BY <1>a, <1>c, SafeLocked, OperatorChanges DEF Protection, OperatorsExclude, HoldsTarget
<1>d. /\ overrun' \subseteq overrun
      /\ \A c \in overrun : c \notin overrun' => ~Referenced(c) /\ Referenced(c)'
  BY DEF Revalidated
<1>1. WellFormed'
  BY <1>a, OperatorWellFormed
<1>3. ReferencedCollectionsUnleased'
  <2> SUFFICES ASSUME NEW c \in Collections, Referenced(c)', c \notin overrun'
               PROVE  ~Active(c, now)'
    BY DEF ReferencedCollectionsUnleased
  <2>1. ~Active(c, now)
    BY <1>a, <1>c, <1>d DEF Protection, ReferencedCollectionsUnleased
  <2> QED BY <1>b, <2>1 DEF Active
<1>4. BuildersExclude'
  <2> SUFFICES ASSUME NEW b \in Builders, ~InPhase(b, "idle"), leaseLock[Target(b)] = b
               PROVE  /\ leaseLock'[Target(b)] = b
                      /\ ~Referenced(Target(b)) => ~Referenced(Target(b))'
                      /\ Target(b) \in overrun => Target(b) \in overrun'
    BY <1>a DEF BuildersExclude, Protection, Excludes, WriterExcludes, InPhase, Target
  <2>1. PICK c \in Collections : c = Target(b)
    BY <1>a DEF WellFormed
  <2>2. leaseLock[c] # o /\ leaseLock'[c] = b
    BY <2>1, <1>b, ClientsApart
  <2>3. ~Referenced(c) => ~Referenced(c)'
    BY <2>2, <1>c
  <2>4. c = Target(b)'
    BY <2>1 DEF Target
  <2>5. c \in overrun => c \in overrun'
    BY <2>3, <1>d
  <2> QED BY <2>1, <2>2, <2>3, <2>4, <2>5 DEF Referenced
<1>5. CollectorsExclude'
  BY SafeLocked, StepLocked DEF Locked, Next
<1>6. OperatorsExclude'
  <2> SUFFICES ASSUME NEW p \in Operators, p # o,
                      ReleaseIn(p, "leaseLocked") \/ ReleaseIn(p, "validated")
               PROVE  HoldsTarget(p)'
    BY <1>b, OperatorExcludes DEF OperatorsExclude, HoldsTarget, ReleaseIn
  <2> DEFINE c == release[p].target
  <2>1. c \in Collections /\ HoldsTarget(p)
    BY <1>a DEF WellFormed, ReleaseIn, Protection, OperatorsExclude
  <2>2. leaseLock'[c] = p
    BY <2>1, <1>b, ClientsApart DEF HoldsTarget
  <2> QED BY <2>1, <2>2, <1>b DEF HoldsTarget, ReleaseIn, Active, Manifest
<1>7. ReleasedContentIntact'
  <2> SUFFICES ASSUME NEW a \in Aliases, pointer'[a].generation > 0,
                      pointer'[a].active \notin overrun'
               PROVE  Manifest(pointer'[a].active) = pointer'[a].snapshot
    BY <1>b DEF ReleasedContentIntact, Manifest
  <2>1. CASE pointer'[a] = pointer[a]
    <3>1. Referenced(pointer[a].active)
      BY DEF Referenced
    <3>2. pointer[a].active \notin overrun
      BY <2>1, <3>1, <1>d
    <3> QED BY <2>1, <3>2, <1>a DEF Protection, ReleasedContentIntact
  <2>2. CASE pointer'[a] # pointer[a]
    <3>1. ReleaseCommit(o)
      BY <2>2, <1>a, OperatorFrame
    <3>2. pointer'[a].active = release[o].target /\ pointer'[a].snapshot = release[o].snapshot
      BY <2>2, <3>1, <1>a DEF TypeOK, TablesTypeOK, ReleaseCommit, Moved
    <3>3. Manifest(release[o].target) = release[o].snapshot
      BY <3>1, <1>a DEF Moved, Recorded, ReleaseCommit, Protection, OperatorsExclude, HoldsTarget
    <3> QED BY <3>2, <3>3
  <2> QED BY <2>1, <2>2
<1> QED BY <1>1, <1>3, <1>4, <1>5, <1>6, <1>7 DEF Protection

\* A step of mark or sweep preserves the protection of what is published.
LEMMA CollectorProtects ==
    ASSUME Safe, NEW k \in Collectors, Collector(k), UNCHANGED <<session, beat, overrun, release>>
    PROVE  Protection'
<1>a. TypeOK /\ Protection /\ WellFormed
  BY DEF Safe, Protection
<1>b. /\ UNCHANGED <<now, lease, pointer>>
      /\ \A j \in Collectors : j # k => gc'[j] = gc[j]
      /\ \A c \in Collections : leaseLock[c] \notin {k, None} => leaseLock'[c] = leaseLock[c]
  BY <1>a, CollectorFrame
<1>c. \A c : Referenced(c)' = Referenced(c)
  BY <1>b DEF Referenced
<1>1. WellFormed'
  BY <1>a, CollectorWellFormed
<1>3. ReferencedCollectionsUnleased'
  BY <1>a, <1>b, <1>c DEF ReferencedCollectionsUnleased, Protection, Active
<1>4. BuildersExclude'
  <2> SUFFICES ASSUME NEW b \in Builders, ~InPhase(b, "idle"), leaseLock[Target(b)] = b
               PROVE  leaseLock'[Target(b)] = b
    BY <1>a, <1>b DEF BuildersExclude, Protection, Excludes, WriterExcludes, InPhase, Target,
       Referenced
  <2>1. Target(b) \in Collections
    BY <1>a DEF WellFormed
  <2> QED BY <2>1, <1>b, ClientsApart
<1>5. CollectorsExclude'
  BY SafeLocked, StepLocked DEF Locked, Next
<1>6. OperatorsExclude'
  <2> SUFFICES ASSUME NEW o \in Operators,
                      ReleaseIn(o, "leaseLocked") \/ ReleaseIn(o, "validated")
               PROVE  HoldsTarget(o)'
    BY DEF OperatorsExclude, HoldsTarget, ReleaseIn
  <2> DEFINE c == release[o].target
  <2>1. c \in Collections /\ HoldsTarget(o)
    BY <1>a DEF WellFormed, ReleaseIn, Protection, OperatorsExclude
  <2>2. leaseLock[c] = o /\ o # k /\ o # None
    BY <2>1, ClientsApart DEF HoldsTarget
  <2>3. rows'[c] = rows[c] /\ leaseLock'[c] = o
    BY <2>1, <2>2, <1>b, SafeLocked, CollectorChanges DEF Excludes
  <2> QED BY <2>1, <2>3, <1>b DEF HoldsTarget, ReleaseIn, Active, Manifest
<1>7. ReleasedContentIntact'
  <2> SUFFICES ASSUME NEW a \in Aliases, pointer[a].generation > 0,
                      pointer[a].active \notin overrun
               PROVE  Manifest(pointer[a].active)' = pointer[a].snapshot
    BY <1>b DEF ReleasedContentIntact
  <2> DEFINE c == pointer[a].active
  <2>1. c \in Collections /\ Referenced(c) /\ Manifest(c) = pointer[a].snapshot
    BY <1>a DEF Protection, WellFormed, Referenced, ReleasedContentIntact
  <2>2. rows'[c] = rows[c]
    BY <2>1, SafeLocked, CollectorChanges DEF Excludes
  <2> QED BY <2>1, <2>2, <1>b DEF Manifest
<1> QED BY <1>1, <1>3, <1>4, <1>5, <1>6, <1>7 DEF Protection

\* The clock changes no answer to a test of time but those of live leases, and of
\* these nobody relies on one: it ends leases and starts none.
LEMMA TickProtects ==
    ASSUME Safe, Tick, UNCHANGED <<release, gc>>
    PROVE  Protection'
<1>a. TypeOK /\ Protection /\ WellFormed
  BY DEF Safe, Protection
<1>b. UNCHANGED <<rows, lease, leaseLock, pointer, session, beat, overrun>> /\ now' = now + 1
  BY DEF Tick, leaseVars
<1>c. now \in Nat /\ \A c \in Collections : lease[c].expires \in Nat
  BY <1>a DEF TypeOK, TablesTypeOK, LeaseRow
<1>d. \A c \in Collections : ~Active(c, now) => ~Active(c, now)'
  BY <1>b, <1>c DEF Active
<1>1. WellFormed'
  BY <1>a, TickTypes
<1>3. ReferencedCollectionsUnleased'
  BY <1>a, <1>b, <1>d DEF ReferencedCollectionsUnleased, Protection, Referenced
<1>4. BuildersExclude' /\ CollectorsExclude'
  BY <1>a, <1>b DEF Protection, BuildersExclude, CollectorsExclude, Excludes, WriterExcludes,
     Referenced, InPhase, GCIn, Target, Candidate
<1>5. OperatorsExclude'
  <2> SUFFICES ASSUME NEW o \in Operators,
                      ReleaseIn(o, "leaseLocked") \/ ReleaseIn(o, "validated")
               PROVE  HoldsTarget(o)'
    BY DEF OperatorsExclude, HoldsTarget, ReleaseIn
  <2>1. PICK c \in Collections : c = release[o].target
    BY <1>a DEF WellFormed, ReleaseIn
  <2>2. HoldsTarget(o)
    BY <1>a DEF Protection, OperatorsExclude
  <2>3. ~Active(c, now)'
    BY <1>d, <2>1, <2>2 DEF HoldsTarget
  <2> QED BY <1>b, <2>1, <2>2, <2>3 DEF HoldsTarget, ReleaseIn, Manifest, Active
<1>6. ReleasedContentIntact'
  BY <1>a, <1>b DEF Protection, ReleasedContentIntact, Manifest
<1> QED BY <1>1, <1>3, <1>4, <1>5, <1>6 DEF Protection

\* The empty tables satisfy the inductive invariant.
LEMMA InitSafe == Init => Safe
<1> SUFFICES ASSUME Init PROVE Protection
  BY InitTypes DEF Safe
<1>1. \A a \in Aliases : pointer[a] = NoPointer
  BY DEF Init, TablesInit
<1>2. \A c \in Collections : ~Referenced(c)
  BY <1>1, TablesAssumption DEF Referenced, NoPointer
<1>3. /\ \A b \in Builders : session[b].phase = "idle" /\ beat[b].stage = "off"
      /\ \A o \in Operators : release[o].phase = "idle"
      /\ \A k \in Collectors : gc[k].phase = "idle"
  BY DEF Init, LeaseInit, ReleaseInit, GCInit, IdleSession, NoBeat, IdleRelease, IdleGC
<1>4. ReleasedContentIntact /\ ReferencedCollectionsUnleased
  BY <1>1, <1>2 DEF ReleasedContentIntact, ReferencedCollectionsUnleased, NoPointer
<1>5. /\ BuildersExclude /\ CollectorsExclude /\ OperatorsExclude
  BY <1>3 DEF BuildersExclude, CollectorsExclude, OperatorsExclude,
     HoldsTarget, InPhase, GCIn, ReleaseIn
<1> QED BY <1>4, <1>5, InitTypes DEF Protection

\* The inductive invariant is preserved by every step.
LEMMA StepSafe ==
    ASSUME Safe, [Next]_vars
    PROVE  Safe'
<1>1. TypeOK'
  BY StepTypes DEF Safe, Protection
<1>2. CASE Tick /\ UNCHANGED <<release, gc>>
  BY <1>1, <1>2, TickProtects DEF Safe
<1>3. ASSUME NEW b \in Builders, Builder(b), UNCHANGED <<release, gc>>
      PROVE  Safe'
  BY <1>1, <1>3, BuilderProtects DEF Safe
<1>4. ASSUME NEW o \in Operators, Operator(o), Revalidated, UNCHANGED <<session, beat, gc>>
      PROVE  Safe'
  BY <1>1, <1>4, OperatorProtects DEF Safe
<1>5. ASSUME NEW k \in Collectors, Collector(k), UNCHANGED <<session, beat, overrun, release>>
      PROVE  Safe'
  BY <1>1, <1>5, CollectorProtects DEF Safe
<1>6. CASE UNCHANGED vars
  BY <1>1, <1>6 DEF vars, tables, Safe, Protection, WellFormed,
     ReferencedCollectionsUnleased, BuildersExclude, CollectorsExclude, OperatorsExclude,
     HoldsTarget, ReleasedContentIntact, Excludes, WriterExcludes, Referenced, Active, Manifest,
     InPhase, GCIn, ReleaseIn, Target, Candidate
<1> QED BY <1>2, <1>3, <1>4, <1>5, <1>6 DEF Next

-----------------------------------------------------------------------------
(* The theorems                                                             *)

\* Every reachable state satisfies the inductive invariant.
LEMMA SafeAlways == Spec => []Safe
BY InitSafe, StepSafe, PTL DEF Spec

\* Whoever works on a collection holds its control row, found it unleased or its
\* own, and no alias came to name it since, a writer with a late guard excepted;
\* the released snapshots are part of it.
THEOREM ProtectionAlways == Spec => []Protection
<1>1. Safe => Protection
  BY DEF Safe
<1> QED BY <1>1, SafeAlways, PTL

\* What an alias serves is at all times the snapshot validated when it was
\* released, whatever builders, operators, collectors and crashes do, however long
\* their statements take, until a guard that was late has reached the collection.
THEOREM ReleasedContentStaysIntact == Spec => []ReleasedContentIntact
<1>1. Safe => ReleasedContentIntact
  BY DEF Safe, Protection
<1> QED BY <1>1, SafeAlways, PTL

\* No lease is ever live on a collection an alias serves or can roll back to, but
\* one that a late renewal revived.
THEOREM ReferencedCollectionsStayUnleased == Spec => []ReferencedCollectionsUnleased
<1>1. Safe => ReferencedCollectionsUnleased
  BY DEF Safe, Protection
<1> QED BY <1>1, SafeAlways, PTL

-----------------------------------------------------------------------------
(* The audit trail.  The generation is the key of both tables: a release     *)
(* that still finds the generation its operator saw finds the pointer its    *)
(* earlier statements read, and adds exactly the next row.                   *)

Decided == {"pointerLocked", "leaseLocked", "validated"}

PointersFormed ==
    \A a \in Aliases :
        LET p == pointer[a]
        IN /\ p.generation = 0 => p.active = None
           /\ p.generation <= 1 => p.previous = None
           /\ p.generation > 0 => p.active # p.previous

DecisionStands(o) ==
    LET p == pointer[release[o].alias]
    IN /\ ~ReleaseIn(o, "idle") => release[o].expected <= p.generation
       /\ release[o].phase \in Decided /\ release[o].expected = p.generation =>
             /\ release[o].target # p.active
             /\ release[o].action = "rollback" =>
                   /\ release[o].target = p.previous
                   /\ ReleaseIn(o, "validated") =>
                         release[o].snapshot =
                             LatestHistory(release[o].alias, release[o].target).snapshot

TrailInv ==
    /\ TypeOK
    /\ WellFormed
    /\ \A a \in Aliases :
          /\ IsFiniteSet(history[a])
          /\ \A h, g \in history[a] : h.generation = g.generation => h = g
    /\ AuditTrailMatchesPointer
    /\ PointersFormed
    /\ \A o \in Operators : DecisionStands(o)

\* What one release does to the tables.
LEMMA ReleaseChanges ==
    ASSUME TypeOK, WellFormed, NEW o \in Operators, ReleaseCommit(o)
    PROVE  /\ release[o].alias \in Aliases /\ release[o].target \in Collections
           /\ pointer[release[o].alias].generation = release[o].expected
           /\ pointer'[release[o].alias] = Moved(o)
           /\ history'[release[o].alias] = history[release[o].alias] \cup {Recorded(o)}
           /\ \A a \in Aliases : a # release[o].alias =>
                 pointer'[a] = pointer[a] /\ history'[a] = history[a]
BY DEF ReleaseCommit, TypeOK, TablesTypeOK, WellFormed, ReleaseIn

\* Only a release touches pointers and history.
LEMMA OnlyReleasesRecord ==
    ASSUME TypeOK, WellFormed, [Next]_vars, \A o \in Operators : ~ReleaseCommit(o)
    PROVE  UNCHANGED <<pointer, history>>
<1>1. ASSUME NEW o \in Operators, Operator(o) PROVE UNCHANGED history
  <2>1. ASSUME \/ \E a \in Aliases, c \in Collections, m \in Corpora : PublishBegin(o, a, c, m)
               \/ \E a \in Aliases : RollbackBegin(o, a)
        PROVE  UNCHANGED history
    BY <2>1 DEF PublishBegin, RollbackBegin, tables
  <2> QED BY <1>1, <2>1 DEF Operator, PublishLockPointer, RollbackLockPointer, LockTargetLease,
             Validate, ReleaseAborts, tables
<1> QED BY <1>1, OperatorFrame, BuilderFrame, CollectorFrame DEF Next, Tick, vars, tables

\* The new row continues the trail.
LEMMA ReleaseContinuesTrail ==
    ASSUME TrailInv, NEW o \in Operators, ReleaseCommit(o)
    PROVE  /\ AuditTrailMatchesPointer'
           /\ \A a \in Aliases :
                 /\ IsFiniteSet(history'[a])
                 /\ \A h, g \in history'[a] : h.generation = g.generation => h = g
<1> DEFINE a == release[o].alias
           G == pointer[a].generation
           n == Recorded(o)
<1>a. /\ a \in Aliases
      /\ pointer'[a] = Moved(o) /\ history'[a] = history[a] \cup {n}
      /\ \A d \in Aliases : d # a => pointer'[d] = pointer[d] /\ history'[d] = history[d]
      /\ release[o].expected = G
  BY ReleaseChanges DEF TrailInv
<1>b. /\ {h.generation : h \in history[a]} = 1 .. G
      /\ Cardinality(history[a]) = G
      /\ IsFiniteSet(history[a])
      /\ \A h \in history[a] : h.generation = G => pointer[a].active = h.collection
      /\ \A h, g \in history[a] : g.generation = h.generation + 1 => g.replaced = h.collection
  BY <1>a DEF TrailInv, AuditTrailMatchesPointer
<1>c. G \in Nat
  BY <1>a DEF TrailInv, TypeOK, TablesTypeOK, PointerRow
<1>d. \A h \in history[a] : h.generation \in 1 .. G
  BY <1>b
<1>e. /\ n.generation = G + 1 /\ n.collection = release[o].target
      /\ n.replaced = pointer[a].active /\ n.snapshot = release[o].snapshot
      /\ pointer'[a].generation = G + 1 /\ pointer'[a].active = n.collection
      /\ pointer'[a].previous = n.replaced /\ pointer'[a].snapshot = n.snapshot
  BY <1>a DEF Recorded, Moved
<1>f. \A d \in Aliases : d # a =>
         /\ IsFiniteSet(history'[d])
         /\ \A h, g \in history'[d] : h.generation = g.generation => h = g
  BY <1>a DEF TrailInv
<1>g. \A h, g \in history[a] : h.generation = g.generation => h = g
  BY <1>a DEF TrailInv
<1> HIDE DEF n, G
<1>1. n \notin history[a]
  BY <1>c, <1>d, <1>e
<1>2. IsFiniteSet(history'[a]) /\ Cardinality(history'[a]) = G + 1
  <2>1. IsFiniteSet(history[a])
    BY <1>b
  <2>2. /\ IsFiniteSet(history[a] \cup {n})
        /\ Cardinality(history[a] \cup {n}) = Cardinality(history[a]) + 1
    BY <1>1, <2>1, FS_AddElement
  <2> QED BY <1>a, <1>b, <2>2
<1>3. {h.generation : h \in history'[a]} = 1 .. G + 1
  <2>1. {h.generation : h \in history'[a]} = {h.generation : h \in history[a]} \cup {n.generation}
    BY <1>a
  <2>2. 1 .. G + 1 = (1 .. G) \cup {G + 1}
    BY <1>c
  <2> QED BY <2>1, <2>2, <1>b, <1>e
<1>4. \A h \in history'[a] : h.generation = G + 1 => h = n
  BY <1>a, <1>c, <1>d
<1>5. ASSUME NEW h \in history'[a], NEW g \in history'[a], g.generation = h.generation + 1
      PROVE  g.replaced = h.collection
  <2>1. CASE g = n
    <3>1. h \in history[a] /\ h.generation = G
      BY <2>1, <1>5, <1>a, <1>c, <1>d, <1>e
    <3> QED BY <3>1, <2>1, <1>b, <1>e
  <2>2. CASE g # n
    <3>1. g \in history[a] /\ h \in history[a]
      BY <2>2, <1>5, <1>a, <1>c, <1>d, <1>e
    <3> QED BY <3>1, <1>5, <1>b
  <2> QED BY <2>1, <2>2
<1>6. AuditTrailMatchesPointer'
  <2> SUFFICES ASSUME NEW d \in Aliases
               PROVE  /\ {h.generation : h \in history'[d]} = 1 .. pointer'[d].generation
                      /\ Cardinality(history'[d]) = pointer'[d].generation
                      /\ \A h \in history'[d] :
                            h.generation = pointer'[d].generation =>
                                /\ pointer'[d].active = h.collection
                                /\ pointer'[d].previous = h.replaced
                                /\ pointer'[d].snapshot = h.snapshot
                      /\ \A h, g \in history'[d] :
                            g.generation = h.generation + 1 => g.replaced = h.collection
    BY DEF AuditTrailMatchesPointer
  <2>1. CASE d = a
    BY <2>1, <1>2, <1>3, <1>4, <1>5, <1>e
  <2>2. CASE d # a
    <3>1. pointer'[d] = pointer[d] /\ history'[d] = history[d]
      BY <2>2, <1>a
    <3> QED BY <3>1 DEF TrailInv, AuditTrailMatchesPointer
  <2> QED BY <2>1, <2>2
<1>7. \A h, g \in history'[a] : h.generation = g.generation => h = g
  BY <1>4, <1>a, <1>e, <1>g
<1> QED BY <1>2, <1>6, <1>7, <1>f

\* A release keeps active and previous apart: the target was tested against the
\* active collection of the very generation that is replaced.
LEMMA ReleaseFormsPointers ==
    ASSUME TrailInv, NEW o \in Operators, ReleaseCommit(o)
    PROVE  PointersFormed'
<1> DEFINE a == release[o].alias
<1>a. /\ a \in Aliases /\ release[o].target \in Collections
      /\ pointer'[a] = Moved(o)
      /\ \A d \in Aliases : d # a => pointer'[d] = pointer[d]
      /\ release[o].expected = pointer[a].generation
  BY ReleaseChanges DEF TrailInv
<1>b. pointer[a].generation \in Nat
  BY <1>a DEF TrailInv, TypeOK, TablesTypeOK, PointerRow
<1>c. release[o].target # pointer[a].active
  BY <1>a DEF TrailInv, DecisionStands, Decided, ReleaseCommit, ReleaseIn
<1>d. /\ pointer'[a].generation = pointer[a].generation + 1
      /\ pointer'[a].active = release[o].target
      /\ pointer'[a].previous = pointer[a].active
  BY <1>a DEF Moved
<1>1. ASSUME NEW d \in Aliases
      PROVE  /\ pointer'[d].generation = 0 => pointer'[d].active = None
             /\ pointer'[d].generation <= 1 => pointer'[d].previous = None
             /\ pointer'[d].generation > 0 => pointer'[d].active # pointer'[d].previous
  <2>1. CASE d # a
    BY <2>1, <1>a DEF TrailInv, PointersFormed
  <2>2. CASE d = a
    <3>1. pointer[a].generation = 0 => pointer[a].active = None
      BY <1>a DEF TrailInv, PointersFormed
    <3> QED BY <2>2, <3>1, <1>b, <1>c, <1>d
  <2> QED BY <2>1, <2>2
<1> QED BY <1>1 DEF PointersFormed

\* An operator's own step leaves it with a decision about the generation it saw.
LEMMA OperatorDecides ==
    ASSUME TrailInv, NEW o \in Operators, Operator(o)
    PROVE  DecisionStands(o)'
<1> DEFINE P == DecisionStands(o)'
<1>a. /\ release \in [Operators -> ReleaseRow]
      /\ \A a \in Aliases : pointer[a].generation \in Nat
                            /\ pointer[a].generation <= pointer[a].generation
      /\ PointersFormed /\ DecisionStands(o)
      /\ ~ReleaseIn(o, "idle") => release[o].alias \in Aliases
  BY DEF TrailInv, TypeOK, TablesTypeOK, ReleaseTypeOK, PointerRow, WellFormed
<1> USE DEF DecisionStands, Decided, ReleaseIn
<1>1. ASSUME NEW a \in Aliases, NEW d \in Collections, NEW m \in Corpora,
             PublishBegin(o, a, d, m)
      PROVE  P
  BY <1>1, <1>a DEF PublishBegin, tables
<1>2. ASSUME NEW a \in Aliases, RollbackBegin(o, a) PROVE P
  BY <1>2, <1>a DEF RollbackBegin, IdleRelease, tables
<1>3. ASSUME PublishLockPointer(o) PROVE P
  BY <1>3, <1>a DEF PublishLockPointer, LockPointer
<1>4. ASSUME RollbackLockPointer(o) PROVE P
  <2>1. /\ release[o].alias \in Aliases /\ release[o].action = "rollback"
        /\ release[o].expected = pointer[release[o].alias].generation
        /\ pointer[release[o].alias].previous # None
        /\ release' = [release EXCEPT ![o] = [@ EXCEPT !.phase = "pointerLocked",
                           !.target = pointer[release[o].alias].previous]]
        /\ UNCHANGED pointer
    BY <1>4, <1>a DEF RollbackLockPointer, LockPointer
  <2>2. pointer[release[o].alias].active # pointer[release[o].alias].previous
    BY <1>a, <2>1 DEF PointersFormed
  <2> QED BY <2>1, <2>2, <1>a
<1>5. ASSUME LockTargetLease(o) PROVE P
  BY <1>5, <1>a DEF LockTargetLease
<1>6. ASSUME Validate(o) PROVE P
  <2> DEFINE a == release[o].alias
             c == release[o].target
             w == LatestHistory(a, c).snapshot
  <2>1. /\ release'[o].phase = "validated" /\ release'[o].alias = a
        /\ release'[o].target = c /\ release'[o].action = release[o].action
        /\ release'[o].expected = release[o].expected
        /\ release[o].action = "rollback" => release'[o].snapshot = w
        /\ UNCHANGED <<pointer, history>>
    BY <1>6, <1>a DEF Validate, ExpectedSnapshot, ReleaseRow, tables
  <2>2. LatestHistory(a, c)' = LatestHistory(a, c)
    BY <2>1 DEF LatestHistory, HistoryRows
  <2>3. ReleaseIn(o, "leaseLocked")
    BY <1>6 DEF Validate
  <2> QED BY <2>1, <2>2, <2>3, <1>a
<1>7. ASSUME ReleaseCommit(o) \/ ReleaseAborts(o) PROVE P
  BY <1>7, <1>a DEF ReleaseCommit, ReleaseAborts, IdleRelease
<1> QED
  <2> HIDE DEF P
  <2>1. P
    BY <1>1, <1>2, <1>3, <1>4, <1>5, <1>6, <1>7 DEF Operator
  <2> QED BY <2>1 DEF P

\* Every step keeps the trail and what undecided and decided operators know of it.
LEMMA StepTrail ==
    ASSUME TrailInv, [Next]_vars
    PROVE  TrailInv'
<1>a. TypeOK' /\ WellFormed'
  BY StepTypes DEF TrailInv
<1>b. /\ TypeOK /\ WellFormed
      /\ \A a \in Aliases : pointer[a].generation \in Nat
      /\ \A o \in Operators : release[o].expected \in Nat
  BY DEF TrailInv, TypeOK, TablesTypeOK, PointerRow, ReleaseTypeOK, ReleaseRow
<1>1. CASE \E o \in Operators : Operator(o) /\ ReleaseCommit(o)
  <2> PICK o \in Operators : Operator(o) /\ ReleaseCommit(o)
    BY <1>1
  <2>1. /\ \A a \in Aliases :
              \/ pointer'[a] = pointer[a] /\ history'[a] = history[a]
              \/ a = release[o].alias /\ pointer'[a].generation = pointer[a].generation + 1
        /\ \A p \in Operators : p # o => release'[p] = release[p]
    <3>1. \A p \in Operators : p # o => release'[p] = release[p]
      BY <1>b, OperatorFrame
    <3>2. Moved(o).generation = release[o].expected + 1
      BY DEF Moved
    <3> QED BY <1>b, <3>1, <3>2, ReleaseChanges
  <2>2. ASSUME NEW p \in Operators PROVE DecisionStands(p)'
    <3>1. CASE p = o
      BY <3>1, OperatorDecides
    <3>2. CASE p # o /\ ~ReleaseIn(p, "idle")
      <4> DEFINE a == release[p].alias
                 e == release[p].expected
      <4>1. a \in Aliases /\ DecisionStands(p) /\ release'[p] = release[p]
        BY <3>2, <2>1, <1>b DEF TrailInv, WellFormed
      <4>2. CASE pointer'[a] = pointer[a] /\ history'[a] = history[a]
        <5>1. PICK d \in Aliases, c \in {release[p].target} : d = a
          BY <4>1
        <5>2. LatestHistory(d, c)' = LatestHistory(d, c)
          BY <4>2, <5>1 DEF LatestHistory, HistoryRows
        <5>3. LatestHistory(a, release[p].target)' = LatestHistory(a, release[p].target)
          BY <4>1, <5>1, <5>2
        <5> QED BY <4>1, <4>2, <5>3 DEF DecisionStands, ReleaseIn
      <4>3. CASE pointer'[a].generation = pointer[a].generation + 1
        <5>1. e <= pointer[a].generation /\ e \in Nat /\ pointer[a].generation \in Nat
          BY <3>2, <4>1, <1>b DEF DecisionStands
        <5>2. e < pointer'[a].generation
          <6> HIDE DEF e
          <6> QED BY <5>1, <4>3
        <5>3. e <= pointer'[a].generation /\ e # pointer'[a].generation
          <6>1. pointer'[a].generation \in Nat
            BY <5>1, <4>3
          <6> HIDE DEF e
          <6> QED BY <5>1, <5>2, <6>1
        <5> QED BY <4>1, <5>3 DEF DecisionStands, ReleaseIn
      <4> QED BY <2>1, <4>1, <4>2, <4>3
    <3>3. CASE p # o /\ ReleaseIn(p, "idle")
      BY <3>3, <2>1 DEF DecisionStands, ReleaseIn, Decided
    <3> QED BY <3>1, <3>2, <3>3
  <2> QED BY <1>a, <2>2, ReleaseContinuesTrail, ReleaseFormsPointers DEF TrailInv
<1>2. CASE \A o \in Operators : ~ReleaseCommit(o)
  <2>1. UNCHANGED <<pointer, history>>
    BY <1>2, <1>b, OnlyReleasesRecord
  <2>2. ASSUME NEW p \in Operators PROVE DecisionStands(p)'
    <3>1. CASE Operator(p)
      BY <3>1, OperatorDecides
    <3>2. CASE release'[p] = release[p]
      <4>1. \A a, c : LatestHistory(a, c)' = LatestHistory(a, c)
        BY <2>1 DEF LatestHistory, HistoryRows
      <4> QED BY <2>1, <3>2, <4>1 DEF TrailInv, DecisionStands, ReleaseIn
    <3>3. release'[p] = release[p] \/ Operator(p)
      BY <1>b, OperatorFrame DEF Next, vars
    <3> QED BY <3>1, <3>2, <3>3
  <2> QED BY <1>a, <2>1, <2>2 DEF TrailInv, AuditTrailMatchesPointer, PointersFormed
<1>3. ASSUME NEW o \in Operators, ReleaseCommit(o), ~Operator(o) PROVE FALSE
  BY <1>3 DEF Operator
<1> QED BY <1>1, <1>2, <1>3

\* The empty trail.
LEMMA InitTrail == Init => TrailInv
<1> SUFFICES ASSUME Init PROVE TrailInv
  OBVIOUS
<1>1. TypeOK /\ WellFormed
  BY InitTypes
<1>2. /\ \A a \in Aliases : pointer[a] = NoPointer /\ history[a] = {}
      /\ \A o \in Operators : release[o] = IdleRelease
  BY DEF Init, TablesInit, ReleaseInit
<1>3. IsFiniteSet({}) /\ Cardinality({}) = 0
  BY FS_EmptySet
<1>4. AuditTrailMatchesPointer
  <2>1. ASSUME NEW a \in Aliases
        PROVE  /\ {h.generation : h \in history[a]} = 1 .. pointer[a].generation
               /\ Cardinality(history[a]) = pointer[a].generation
               /\ \A h \in history[a] : FALSE
    <3>1. pointer[a].generation = 0 /\ history[a] = {}
      BY <1>2 DEF NoPointer
    <3>2. 1 .. 0 = {} /\ {h.generation : h \in {}} = {}
      OBVIOUS
    <3> QED BY <3>1, <3>2, <1>3
  <2> QED BY <2>1 DEF AuditTrailMatchesPointer
<1>5. \A o \in Operators : DecisionStands(o)
  BY <1>2 DEF DecisionStands, IdleRelease, ReleaseIn, Decided
<1> QED
  BY <1>1, <1>2, <1>3, <1>4, <1>5 DEF TrailInv, PointersFormed, NoPointer

\* In every reachable state the trail is complete, however transactions interleave.
LEMMA TrailAlways == Spec => []TrailInv
BY InitTrail, StepTrail, PTL DEF Spec

\* The audit trail has one row for each generation of the pointer, in order, each
\* naming what it replaced: no release is lost, none is written twice.
THEOREM AuditTrailAlwaysMatches == Spec => []AuditTrailMatchesPointer
<1>1. TrailInv => AuditTrailMatchesPointer
  BY DEF TrailInv
<1> QED BY <1>1, TrailAlways, PTL

-----------------------------------------------------------------------------
(* What a rollback returns to.                                              *)

\* The rows of a collection some alias names stay as they are until a late guard
\* reaches it, which it does not live down.
LEMMA ReferencedRowsStay ==
    ASSUME Safe, [Next]_vars, NEW c \in Collections, Referenced(c)
    PROVE  /\ c \in overrun => c \in overrun'
           /\ c \notin overrun => rows'[c] = rows[c]
<1> DEFINE P == /\ c \in overrun => c \in overrun'
                /\ c \notin overrun => rows'[c] = rows[c]
<1>1. CASE Tick
  BY <1>1 DEF Tick, leaseVars
<1>2. ASSUME NEW b \in Builders, Builder(b) PROVE P
  BY <1>2, BuilderChanges DEF Excludes
<1>3. ASSUME NEW o \in Operators, Operator(o), Revalidated PROVE P
  BY <1>3, OperatorFrame DEF Safe, Protection, Revalidated
<1>4. ASSUME NEW k \in Collectors, Collector(k), UNCHANGED overrun PROVE P
  BY <1>4, SafeLocked, CollectorChanges DEF Excludes
<1>5. CASE UNCHANGED vars
  BY <1>5 DEF vars, tables
<1> QED BY <1>1, <1>2, <1>3, <1>4, <1>5 DEF Next

\* The latest row of a collection is one of its rows, and none is younger.
LEMMA LatestIsLatest ==
    ASSUME NEW a, NEW c, NEW h \in HistoryRows(a, c),
           \A g \in HistoryRows(a, c) : g.generation <= h.generation
    PROVE  /\ LatestHistory(a, c) \in HistoryRows(a, c)
           /\ \A g \in HistoryRows(a, c) : g.generation <= LatestHistory(a, c).generation
BY DEF LatestHistory

\* The row of each generation up to the pointer's exists and is the only one.
LEMMA RowOfGeneration ==
    ASSUME TrailInv, NEW a \in Aliases, NEW n \in 1 .. pointer[a].generation
    PROVE  /\ ReleaseAt(a, n) \in history[a]
           /\ ReleaseAt(a, n).generation = n
           /\ \A h \in history[a] : h.generation = n => h = ReleaseAt(a, n)
<1>1. {h.generation : h \in history[a]} = 1 .. pointer[a].generation
  BY DEF TrailInv, AuditTrailMatchesPointer
<1>2. PICK h \in history[a] : h.generation = n
  BY <1>1
<1>3. ReleaseAt(a, n) \in history[a] /\ ReleaseAt(a, n).generation = n
  BY <1>2 DEF ReleaseAt
<1> QED BY <1>3 DEF TrailInv

\* The collection an alias serves was last released by its last row.
LEMMA ActiveIsLatest ==
    ASSUME TrailInv, NEW a \in Aliases, pointer[a].generation > 0
    PROVE  /\ HistoryRows(a, pointer[a].active) # {}
           /\ LatestHistory(a, pointer[a].active).snapshot = pointer[a].snapshot
<1> DEFINE G == pointer[a].generation
           c == pointer[a].active
           h == ReleaseAt(a, G)
<1>1. G \in Nat /\ G \in 1 .. G
  BY DEF TrailInv, TypeOK, TablesTypeOK, PointerRow
<1>2. /\ h \in history[a] /\ h.generation = G
      /\ \A g \in history[a] : g.generation = G => g = h
  BY <1>1, RowOfGeneration
<1>3. /\ \A g \in history[a] : g.generation \in 1 .. G
      /\ c = h.collection /\ pointer[a].snapshot = h.snapshot
  <2>1. /\ {g.generation : g \in history[a]} = 1 .. G
        /\ \A g \in history[a] : g.generation = G =>
              c = g.collection /\ pointer[a].snapshot = g.snapshot
    BY DEF TrailInv, AuditTrailMatchesPointer
  <2> QED BY <2>1, <1>2
<1> HIDE DEF h, G
<1>4. h \in HistoryRows(a, c) /\ \A g \in HistoryRows(a, c) : g.generation <= h.generation
  BY <1>1, <1>2, <1>3 DEF HistoryRows
<1>5. /\ LatestHistory(a, c) \in HistoryRows(a, c)
      /\ LatestHistory(a, c).generation >= G
  BY <1>2, <1>4, LatestIsLatest
<1>6. LatestHistory(a, c) = h
  BY <1>1, <1>2, <1>3, <1>5 DEF HistoryRows
<1> QED BY <1>3, <1>4, <1>6

HistoryInv == Safe /\ TrailInv /\ RollbackTargetIntact

\* A step keeps what a rollback would return to: a release puts the collection it
\* replaces in that place, whose last row is the pointer's.
LEMMA StepRollbackTarget ==
    ASSUME HistoryInv, [Next]_vars
    PROVE  RollbackTargetIntact'
<1>a. Safe /\ TrailInv /\ RollbackTargetIntact /\ TypeOK /\ WellFormed
  BY DEF HistoryInv, TrailInv
<1> SUFFICES ASSUME NEW a \in Aliases, NEW c, c = pointer'[a].previous, c # None
             PROVE  /\ HistoryRows(a, c)' # {}
                    /\ c \notin overrun' => Manifest(c)' = LatestHistory(a, c)'.snapshot
  BY DEF RollbackTargetIntact
<1>1. CASE pointer'[a] = pointer[a] /\ history'[a] = history[a]
  <2>1. c = pointer[a].previous /\ c \in Collections /\ Referenced(c)
    BY <1>1, <1>a DEF TypeOK, TablesTypeOK, PointerRow, Referenced
  <2>2. /\ c \in overrun => c \in overrun'
        /\ c \notin overrun => rows'[c] = rows[c]
    BY <1>a, <2>1, ReferencedRowsStay
  <2>3. HistoryRows(a, c)' = HistoryRows(a, c)
    BY <1>1 DEF HistoryRows
  <2>4. /\ HistoryRows(a, c) # {}
        /\ c \notin overrun => Manifest(c) = LatestHistory(a, c).snapshot
    BY <1>a, <2>1 DEF RollbackTargetIntact
  <2>5. /\ LatestHistory(a, c)' = LatestHistory(a, c)
        /\ c \notin overrun => Manifest(c)' = Manifest(c)
    BY <2>2, <2>3 DEF LatestHistory, Manifest
  <2> QED BY <2>2, <2>3, <2>4, <2>5
<1>2. ASSUME NEW o \in Operators, ReleaseCommit(o), a = release[o].alias PROVE
        /\ HistoryRows(a, c)' # {}
        /\ c \notin overrun' => Manifest(c)' = LatestHistory(a, c)'.snapshot
  <2>1. /\ pointer[a].generation = release[o].expected
        /\ pointer'[a] = Moved(o)
        /\ history'[a] = history[a] \cup {Recorded(o)}
    BY <1>2, <1>a, ReleaseChanges
  <2>2. c = pointer[a].active
    BY <2>1, <1>2 DEF Moved
  <2>3. pointer[a].generation \in Nat /\ pointer[a].generation > 0
    BY <1>a, <2>2 DEF TrailInv, PointersFormed, TypeOK, TablesTypeOK, PointerRow
  <2>4. /\ c \in Collections /\ Referenced(c)
        /\ c \notin overrun => Manifest(c) = pointer[a].snapshot
    BY <1>a, <2>2, <2>3 DEF WellFormed, Referenced, Safe, Protection, ReleasedContentIntact
  <2>5. /\ c \in overrun => c \in overrun'
        /\ c \notin overrun => rows'[c] = rows[c]
    BY <1>a, <2>4, ReferencedRowsStay
  <2>6. release[o].target # pointer[a].active
    BY <1>2, <1>a, <2>1 DEF TrailInv, DecisionStands, Decided, ReleaseCommit, ReleaseIn
  <2>7. HistoryRows(a, c)' = HistoryRows(a, c)
    BY <2>1, <2>2, <2>6 DEF HistoryRows, Recorded
  <2>8. /\ LatestHistory(a, c)' = LatestHistory(a, c)
        /\ c \notin overrun => Manifest(c)' = Manifest(c)
    BY <2>5, <2>7 DEF LatestHistory, Manifest
  <2>9. HistoryRows(a, c) # {} /\ LatestHistory(a, c).snapshot = pointer[a].snapshot
    BY <1>a, <2>2, <2>3, ActiveIsLatest
  <2> QED BY <2>4, <2>5, <2>7, <2>8, <2>9
<1>3. CASE ~(pointer'[a] = pointer[a] /\ history'[a] = history[a])
  <2>1. PICK o \in Operators : ReleaseCommit(o)
    BY <1>3, <1>a, OnlyReleasesRecord
  <2>2. a = release[o].alias
    BY <1>3, <1>a, <2>1, ReleaseChanges
  <2> QED BY <2>1, <2>2, <1>2
<1> QED BY <1>1, <1>3

\* In every reachable state the trail is true and a rollback finds its target.
LEMMA HistoryAlways == Spec => []HistoryInv
<1>1. Init => HistoryInv
  <2> SUFFICES ASSUME Init PROVE RollbackTargetIntact
    BY InitSafe, InitTrail DEF HistoryInv
  <2> QED BY DEF Init, TablesInit, NoPointer, RollbackTargetIntact
<1>2. HistoryInv /\ [Next]_vars => HistoryInv'
  BY StepSafe, StepTrail, StepRollbackTarget DEF HistoryInv
<1> QED BY <1>1, <1>2, PTL DEF Spec

\* The history of an alias tells what it served, and the collection kept for rollback
\* still has the content recorded when the alias last released it, until a late guard
\* has reached it.
THEOREM HistoryStaysTrue == Spec => []HistoryIsTrue
<1>1. HistoryInv => HistoryIsTrue
  BY DEF HistoryInv, TrailInv, HistoryIsTrue
<1> QED BY <1>1, HistoryAlways, PTL

-----------------------------------------------------------------------------
(* What a build leaves behind.  While its lease is live, nobody else writes   *)
(* the collection: the difference it computed from what it listed is still   *)
(* the difference when it is written.                                        *)

HoldsLive(b) == Owns(b) /\ Active(Target(b), now) /\ Target(b) \notin overrun

WorkStands(b) ==
    HoldsLive(b) =>
        /\ session[b].phase \in {"listed", "writeBegun", "writeLocked"}
           => Manifest(Target(b)) = session[b].view
        /\ Built(b) => Manifest(Target(b)) = session[b].wanted

BuildInv == Safe /\ LeaseInv /\ \A b \in Builders : WorkStands(b)

\* Writing the difference between what is stored and what is wanted leaves what is
\* wanted.
LEMMA DifferenceSuffices ==
    ASSUME NEW c, NEW wanted \in Manifests, NEW ts, NEW r \in RecordIds
    PROVE  Applied(c, Manifest(c), wanted, ts)[r].fingerprint = wanted[r]
BY DEF Applied, Upserts, StaleIds, Manifest, Manifests, NoRow

\* What other clients do cannot give a builder its lease back, nor make its late
\* guards forgotten, nor change what the collection holds while the lease is live.
LEMMA OwnersUndisturbed ==
    ASSUME Safe, LeaseInv, [Next]_vars, NEW b \in Builders, ~Builder(b),
           ~InPhase(b, "idle"), HoldsLive(b)'
    PROVE  /\ HoldsLive(b)
           /\ session'[b] = session[b]
           /\ rows'[Target(b)] = rows[Target(b)]
<1> DEFINE c == Target(b)
<1>a. /\ TypeOK /\ WellFormed
      /\ c \in Collections /\ lease[c].expires \in Nat /\ now \in Nat
      /\ b # None
  BY ClientsApart DEF LeaseInv, WellFormed, TypeOK, TablesTypeOK, LeaseRow
<1>0. ASSUME session'[b] = session[b], lease'[c] = lease[c], now' = now,
             c \in overrun => c \in overrun'
      PROVE  HoldsLive(b)
  BY <1>0 DEF HoldsLive, Owns, Active, Target
<1>1. CASE Tick
  <2>1. UNCHANGED <<rows, lease, session, overrun>> /\ now' = now + 1
    BY <1>1 DEF Tick, leaseVars
  <2>2. Active(c, now') => Active(c, now)
    <3> DEFINE e == lease[c].expires
    <3>1. e \in Nat /\ now \in Nat
      BY <1>a
    <3>2. e > now + 1 => e > now
      <4> HIDE DEF e
      <4> QED BY <3>1
    <3> QED BY <2>1, <3>2 DEF Active
  <2>3. HoldsLive(b)
    BY <2>1, <2>2 DEF HoldsLive, Owns, Active, Target
  <2> QED BY <2>1, <2>3
<1>2. ASSUME NEW d \in Builders, Builder(d), d # b
      PROVE  /\ HoldsLive(b)
             /\ session'[b] = session[b]
             /\ rows'[c] = rows[c]
  <2>1. session'[b] = session[b] /\ now' = now
    BY <1>2, <1>a, BuilderFrame
  <2>2. lease'[c].owner = b
    BY <2>1 DEF HoldsLive, Owns, Target
  <2>3. lease'[c] = lease[c]
    <3>1. CASE AcquireCommit(d) /\ c = Target(d)
      BY <3>1, <2>2, <1>2, <1>a DEF AcquireCommit, TypeOK, TablesTypeOK
    <3>2. CASE Release(d) /\ c = Target(d)
      BY <3>2, <2>2, <1>a DEF Release, TypeOK, TablesTypeOK, LeaseRow
    <3>3. CASE Renew(d) /\ c = Target(d)
      BY <3>3, <2>2, <1>2, <1>a DEF Renew, Owns, TypeOK, TablesTypeOK, LeaseRow
    <3>4. CASE c # Target(d) \/ ~(AcquireCommit(d) \/ Release(d) \/ Renew(d))
      <4>1. ASSUME \/ \E e \in Collections : AcquireBegin(d, e)
                   \/ \E m \in Corpora : ListEntries(d, m)
            PROVE  UNCHANGED lease
        BY <4>1 DEF AcquireBegin, ListEntries, tables
      <4>2. CASE ~(AcquireCommit(d) \/ Release(d) \/ Renew(d))
        BY <4>1, <4>2, <1>2 DEF tables, Builder, AcquireLock, AcquireCheckReferences,
           AcquireFails, WriteBegin, WriteLock, WriteCommit, BuildFails, BuildDone,
           ReleaseLost, HeartbeatBegin, HeartbeatFails, BuilderCrash
      <4>3. CASE c # Target(d) /\ (AcquireCommit(d) \/ Release(d) \/ Renew(d))
        BY <4>3, <1>a DEF AcquireCommit, Release, Renew, TypeOK, TablesTypeOK
      <4> QED BY <3>4, <4>2, <4>3
    <3> QED BY <3>1, <3>2, <3>3, <3>4
  <2>4. rows'[c] = rows[c]
    <3>1. ASSUME \/ \E e \in Collections : AcquireBegin(d, e)
                 \/ \E m \in Corpora : ListEntries(d, m)
          PROVE  UNCHANGED rows
      BY <3>1 DEF AcquireBegin, ListEntries, tables
    <3>2. CASE WriteCommit(d)
      <4>1. lease[Target(d)].owner = d
        BY <3>2 DEF WriteCommit, LeaseInv, BuilderHolds, Owns, InPhase
      <4>2. Target(d) # c
        BY <4>1, <2>2, <2>3, <1>2
      <4> QED BY <3>2, <4>2, <1>a DEF WriteCommit, Target, TypeOK, TablesTypeOK
    <3>3. CASE ~WriteCommit(d)
      <4>1. UNCHANGED rows
        BY <3>1, <3>3, <1>2 DEF tables, Builder, AcquireLock, AcquireCheckReferences,
           AcquireCommit, AcquireFails, WriteBegin, WriteLock, BuildFails,
           BuildDone, Release, ReleaseLost, HeartbeatBegin, Renew, HeartbeatFails, BuilderCrash
      <4> QED BY <4>1
    <3> QED BY <3>2, <3>3
  <2>5. c \in overrun => c \in overrun'
    <3>1. CASE AcquireCommit(d) /\ c = Target(d)
      BY <3>1, <2>2, <1>2, <1>a DEF AcquireCommit, TypeOK, TablesTypeOK
    <3>2. CASE AcquireCommit(d) /\ c # Target(d)
      BY <3>2 DEF AcquireCommit
    <3>3. CASE ~AcquireCommit(d)
      <4>1. ASSUME \/ \E e \in Collections : AcquireBegin(d, e)
                   \/ \E m \in Corpora : ListEntries(d, m)
            PROVE  UNCHANGED overrun
        BY <4>1 DEF AcquireBegin, ListEntries
      <4>2. overrun \subseteq overrun'
        BY <3>3, <4>1, <1>2 DEF Builder, AcquireLock, AcquireCheckReferences, AcquireFails,
           WriteBegin, WriteLock, WriteCommit, BuildFails, BuildDone, Release, ReleaseLost,
           HeartbeatBegin, Renew, HeartbeatFails, BuilderCrash, PassGuard
      <4> QED BY <4>2
    <3> QED BY <3>1, <3>2, <3>3
  <2> QED BY <1>0, <2>1, <2>3, <2>4, <2>5
<1>3. ASSUME NEW o \in Operators, Operator(o), Revalidated, UNCHANGED <<session, beat, gc>>
      PROVE  HoldsLive(b) /\ session'[b] = session[b] /\ rows'[c] = rows[c]
  <2>1. UNCHANGED <<now, rows, lease>> /\ session'[b] = session[b] /\ Target(b)' = c
    BY <1>3, <1>a, OperatorFrame DEF Target
  <2>2. CASE c \in overrun /\ c \notin overrun'
    <3> PICK d \in Collections : d = c
      BY <1>a
    <3>1. d \in overrun /\ d \notin overrun'
      BY <2>1, <2>2
    <3>2. ~Referenced(d) /\ Referenced(d)'
      BY <1>3, <3>1 DEF Revalidated
    <3>3. ~Active(d, now)
      BY <1>3, <3>2, SafeLocked, OperatorChanges
         DEF Safe, Protection, OperatorsExclude, HoldsTarget
    <3>4. Active(c, now)
      BY <2>1 DEF HoldsLive, Active
    <3> QED BY <3>3, <3>4
  <2>3. CASE c \in overrun => c \in overrun'
    BY <1>0, <2>1, <2>3
  <2> QED BY <2>2, <2>3
<1>4. ASSUME NEW k \in Collectors, Collector(k), UNCHANGED <<session, beat, overrun, release>>
      PROVE  HoldsLive(b) /\ session'[b] = session[b] /\ rows'[c] = rows[c]
  <2>1. UNCHANGED <<now, lease, session>> /\ HoldsLive(b)
    BY <1>0, <1>4, <1>a, CollectorFrame
  <2>2. CASE SweepCommit(k) /\ c = Candidate(k)
    <3>1. ~Active(c, gc[k].begun) /\ gc[k].begun \in 1 .. now
      BY <2>2 DEF SweepCommit, LeaseInv, CollectorHolds, Sweeping, MarkHeld, GCIn
    <3>2. lease[c].expires > now
      BY <2>1 DEF HoldsLive, Active
    <3> DEFINE e == lease[c].expires
               t == gc[k].begun
    <3>3. e \in Nat /\ now \in Nat /\ t \in 1 .. now /\ ~(e > t) /\ e > now
      BY <3>1, <3>2, <1>a DEF Active
    <3>4. FALSE
      <4> HIDE DEF e, t
      <4> QED BY <3>3
    <3> QED BY <3>4
  <2>3. CASE ~(SweepCommit(k) /\ c = Candidate(k))
    BY <2>1, <2>3, <1>4, <1>a, CollectorFrame DEF SweepCommit, TypeOK, TablesTypeOK
  <2> QED BY <2>1, <2>2, <2>3
<1>5. CASE UNCHANGED vars
  BY <1>0, <1>5 DEF vars, tables
<1> QED BY <1>1, <1>2, <1>3, <1>4, <1>5 DEF Next

\* A builder's own step: what it lists it holds, and what it writes turns that into
\* the corpus it wants.
LEMMA OwnWorkStands ==
    ASSUME BuildInv, NEW b \in Builders, Builder(b)
    PROVE  WorkStands(b)'
<1> DEFINE P == WorkStands(b)'
<1>a. /\ session \in [Builders -> SessionRow] /\ session[b] \in SessionRow
      /\ beat \in [Builders -> BeatRow]
      /\ lease \in [Collections -> LeaseRow]
      /\ rows \in [Collections -> [RecordIds -> VectorRow]]
      /\ WorkStands(b)
  BY DEF BuildInv, Safe, TypeOK, TablesTypeOK, LeaseTypeOK
<1>b. /\ ~InPhase(b, "idle") => Target(b) \in Collections
      /\ beat[b].stage # "off" => session[b].phase \in LeasedPhases
      /\ now' = now
  BY BuilderFrame DEF BuildInv, Safe, Protection, WellFormed
<1> USE DEF WorkStands, HoldsLive, Built, InPhase, Target
<1>0. ASSUME UNCHANGED <<rows, lease>>, session'[b].collection = session[b].collection,
             session'[b].fence = session[b].fence, overrun \subseteq overrun'
      PROVE  /\ HoldsLive(b)' => HoldsLive(b)
             /\ Manifest(Target(b))' = Manifest(Target(b))
  BY <1>0, <1>b DEF Owns, Active, Manifest
<1>1. ASSUME NEW c \in Collections, AcquireBegin(b, c)
      PROVE  P
  BY <1>1, <1>a DEF AcquireBegin, IdleSession
<1>2. ASSUME AcquireLock(b) PROVE P
  BY <1>2, <1>a DEF AcquireLock, GoTo
<1>3. ASSUME AcquireCheckReferences(b) PROVE P
  BY <1>3, <1>a DEF AcquireCheckReferences, GoTo
<1>4. ASSUME AcquireCommit(b) PROVE P
  BY <1>4, <1>a DEF AcquireCommit
<1>5. ASSUME AcquireFails(b) PROVE P
  BY <1>5, <1>a DEF AcquireFails, IdleSession
<1>6. ASSUME NEW m \in Corpora, ListEntries(b, m) PROVE P
  BY <1>6, <1>a, <1>0 DEF ListEntries, tables
<1>7. ASSUME WriteBegin(b) PROVE P
  BY <1>7, <1>a, <1>0 DEF WriteBegin, tables
<1>8. ASSUME WriteLock(b) PROVE P
  BY <1>8, <1>a, <1>0 DEF WriteLock, GoTo, PassGuard
<1>9. ASSUME WriteCommit(b) PROVE P
  <2> DEFINE c == Target(b)
             w == session[b].wanted
  <2>1. c \in Collections /\ w \in Manifests /\ session[b].phase = "writeLocked"
    BY <1>9, <1>a, <1>b DEF WriteCommit, SessionRow
  <2>2. /\ rows'[c] = Applied(c, session[b].view, w, session[b].begun)
        /\ session'[b].phase = "written" /\ session'[b].wanted = w
        /\ session'[b].collection = c /\ session'[b].fence = session[b].fence
        /\ UNCHANGED <<lease, overrun>>
    BY <1>9, <2>1, <1>a DEF WriteCommit
  <2>3. HoldsLive(b)' => HoldsLive(b)
    BY <2>2, <1>b DEF Owns, Active
  <2>4. HoldsLive(b) => session[b].view = Manifest(c)
    BY <2>1, <1>a
  <2>5. HoldsLive(b) => \A r \in RecordIds : rows'[c][r].fingerprint = w[r]
    BY <2>1, <2>2, <2>4, DifferenceSuffices
  <2>6. HoldsLive(b) => Manifest(c)' = w
    <3> SUFFICES ASSUME HoldsLive(b) PROVE [r \in RecordIds |-> rows'[c][r].fingerprint] = w
      BY <2>2 DEF Manifest
    <3>1. w = [r \in RecordIds |-> w[r]]
      BY <2>1 DEF Manifests
    <3> HIDE DEF w
    <3> QED BY <3>1, <2>5
  <2>7. Target(b)' = c
    BY <2>2
  <2> QED BY <2>2, <2>3, <2>6, <2>7
<1>10. ASSUME BuildFails(b) PROVE P
  BY <1>10, <1>a DEF BuildFails
<1>11. ASSUME BuildDone(b) PROVE P
  BY <1>11, <1>a, <1>0 DEF BuildDone, tables
<1>12. ASSUME Release(b) PROVE P
  BY <1>12, <1>a DEF Release, IdleSession
<1>13. ASSUME ReleaseLost(b) PROVE P
  BY <1>13, <1>a DEF ReleaseLost, IdleSession
<1>14. ASSUME HeartbeatBegin(b) PROVE P
  BY <1>14, <1>a, <1>0 DEF HeartbeatBegin, tables
<1>15. ASSUME Renew(b) PROVE P
  <2>1. Target(b) \in Collections /\ Owns(b)
    BY <1>15, <1>b DEF Renew, LeasedPhases
  <2>2. /\ UNCHANGED <<session, rows>> /\ overrun \subseteq overrun'
        /\ ~Active(Target(b), now) => Target(b) \in overrun'
    BY <1>15 DEF Renew, PassGuard
  <2>3. /\ HoldsLive(b)' => HoldsLive(b)
        /\ Manifest(Target(b))' = Manifest(Target(b))
    BY <2>1, <2>2 DEF Manifest
  <2> QED BY <2>2, <2>3, <1>a
<1>16. ASSUME HeartbeatFails(b) PROVE P
  <2>1. /\ UNCHANGED <<rows, lease, overrun>>
        /\ session'[b].phase = session[b].phase /\ session'[b].view = session[b].view
        /\ session'[b].wanted = session[b].wanted /\ session'[b].failed = session[b].failed
        /\ session'[b].collection = session[b].collection
        /\ session'[b].fence = session[b].fence
    BY <1>16, <1>a DEF HeartbeatFails, tables
  <2> QED BY <2>1, <1>0, <1>a
<1>17. ASSUME BuilderCrash(b) PROVE P
  BY <1>17, <1>a DEF BuilderCrash, IdleSession
<1> QED
  <2> HIDE DEF P
  <2>1. P
    BY <1>1, <1>2, <1>3, <1>4, <1>5, <1>6, <1>7, <1>8, <1>9, <1>10, <1>11, <1>12, <1>13,
       <1>14, <1>15, <1>16, <1>17 DEF Builder
  <2> QED BY <2>1 DEF P

\* In every reachable state the work of a live lease stands.
LEMMA BuildAlways == Spec => []BuildInv
<1>1. Init => BuildInv
  <2> SUFFICES ASSUME Init, NEW b \in Builders PROVE WorkStands(b)
    BY InitSafe, InitLease DEF BuildInv
  <2> QED BY DEF Init, LeaseInit, IdleSession, WorkStands, Built, InPhase
<1>2. ASSUME BuildInv, [Next]_vars PROVE BuildInv'
  <2>1. Safe' /\ LeaseInv'
    BY <1>2, StepSafe, StepLease DEF BuildInv
  <2>2. ASSUME NEW b \in Builders PROVE WorkStands(b)'
    <3>1. CASE Builder(b)
      BY <1>2, <3>1, OwnWorkStands
    <3>2. CASE ~Builder(b) /\ InPhase(b, "idle")
      <4>1. session'[b] = session[b]
        BY <1>2, <3>2, BuilderFrame DEF Next, Tick, vars, leaseVars, BuildInv, LeaseInv
      <4> QED BY <3>2, <4>1 DEF WorkStands, Built, InPhase
    <3>3. CASE ~Builder(b) /\ ~InPhase(b, "idle") /\ HoldsLive(b)'
      <4>1. /\ HoldsLive(b) /\ session'[b] = session[b]
            /\ rows'[Target(b)] = rows[Target(b)] /\ WorkStands(b)
        BY <1>2, <3>3, OwnersUndisturbed DEF BuildInv
      <4>2. Target(b)' = Target(b) /\ Manifest(Target(b))' = Manifest(Target(b))
        BY <4>1 DEF Target, Manifest
      <4> QED BY <4>1, <4>2 DEF WorkStands, Built, InPhase
    <3> QED BY <3>1, <3>2, <3>3 DEF WorkStands
  <2> QED BY <2>1, <2>2 DEF BuildInv
<1> QED BY <1>1, <1>2, PTL DEF Spec

\* A build that has written finds in its collection exactly the corpus it indexed for
\* as long as its lease is live and was never revived, although it listed and wrote in
\* two transactions and other generations and sweeps write there before and after.
THEOREM BuildsAreExact == Spec => []BuildIsExact
<1>1. BuildInv => BuildIsExact
  BY DEF BuildInv, BuildIsExact, WorkStands, HoldsLive
<1> QED BY <1>1, BuildAlways, PTL

-----------------------------------------------------------------------------
(* The abstract specification.  Read through the refinement mapping, the two  *)
(* newest snapshots are rows of collections; they equal what the history     *)
(* recorded, which only a release changes.                                   *)

RecordedLog ==
    [a \in Aliases |-> [g \in 1 .. pointer[a].generation |->
        [action |-> ReleaseAt(a, g).action, snapshot |-> ReleaseAt(a, g).snapshot]]]

\* The collection kept for rollback was last released by the generation before the
\* pointer's.
LEMMA PreviousIsLatest ==
    ASSUME TrailInv, NEW a \in Aliases,
           NEW G \in Nat, G = pointer[a].generation, G > 1,
           NEW p, p = pointer[a].previous
    PROVE  p # None /\ LatestHistory(a, p) = ReleaseAt(a, G - 1)
<1> DEFINE f == ReleaseAt(a, G)
           h == ReleaseAt(a, G - 1)
<1>1. G \in 1 .. pointer[a].generation /\ G - 1 \in 1 .. pointer[a].generation
  OBVIOUS
<1>2. /\ f \in history[a] /\ f.generation = G
      /\ h \in history[a] /\ h.generation = G - 1
      /\ \A g \in history[a] : g.generation = G - 1 => g = h
  BY <1>1, RowOfGeneration
<1>3. /\ \A g \in history[a] : g.generation = G => p = g.replaced /\ pointer[a].active = g.collection
      /\ \A g, e \in history[a] : e.generation = g.generation + 1 => e.replaced = g.collection
      /\ \A g \in history[a] : g.generation \in 1 .. G
  <2>1. {g.generation : g \in history[a]} = 1 .. G
    BY DEF TrailInv, AuditTrailMatchesPointer
  <2> QED BY <2>1 DEF TrailInv, AuditTrailMatchesPointer
<1>4. pointer[a].active # p
  BY DEF TrailInv, PointersFormed
<1> HIDE DEF f, h
<1>5. p = h.collection
  BY <1>2, <1>3
<1>6. p # None
  BY <1>2, <1>5, TablesAssumption DEF TrailInv, TypeOK, TablesTypeOK, HistoryRow
<1>7. ASSUME NEW g \in history[a], g.collection = p
      PROVE  g.generation \in 1 .. G - 1
  BY <1>3, <1>4, <1>7
<1>8. h \in HistoryRows(a, p) /\ \A g \in HistoryRows(a, p) : g.generation <= h.generation
  BY <1>2, <1>5, <1>7 DEF HistoryRows
<1>9. /\ LatestHistory(a, p) \in history[a] /\ LatestHistory(a, p).collection = p
      /\ h.generation <= LatestHistory(a, p).generation
  BY <1>8, LatestIsLatest DEF HistoryRows
<1>10. LatestHistory(a, p) = h
  <2> DEFINE l == LatestHistory(a, p)
  <2> HIDE DEF l
  <2>1. l \in history[a] /\ l.generation \in 1 .. G - 1 /\ G - 1 <= l.generation
    BY <1>2, <1>7, <1>9 DEF l
  <2>2. l.generation = G - 1
    BY <2>1
  <2>3. l = h
    BY <1>2, <2>1, <2>2
  <2> QED BY <2>3 DEF l
<1> QED BY <1>6, <1>10 DEF h

\* What an alias serves, and what a rollback would restore, is what was recorded.
LEMMA ServedIsRecorded ==
    ASSUME HistoryInv
    PROVE  ServedLog = RecordedLog
<1>a. Safe /\ TrailInv /\ RollbackTargetIntact
  BY DEF HistoryInv
<1>1. ASSUME NEW a \in Aliases, NEW g \in 1 .. pointer[a].generation
      PROVE  ServedSnapshot(a, g) = ReleaseAt(a, g).snapshot
  <2> DEFINE G == pointer[a].generation
             p == pointer[a].previous
             c == IF g = G THEN pointer[a].active ELSE p
  <2>a. G \in Nat /\ G > 0 /\ g \in 1 .. G
    BY <1>a DEF TrailInv, TypeOK, TablesTypeOK, PointerRow
  <2>1. CASE g < G - 1 \/ c \in overrun
    BY <2>1 DEF ServedSnapshot
  <2>2. CASE g = G /\ pointer[a].active \notin overrun
    <3>1. ServedSnapshot(a, g) = Manifest(pointer[a].active)
      BY <2>2, <2>a DEF ServedSnapshot
    <3>2. Manifest(pointer[a].active) = pointer[a].snapshot
      BY <1>a, <2>2, <2>a DEF Safe, Protection, ReleasedContentIntact
    <3>3. ReleaseAt(a, g) \in history[a] /\ ReleaseAt(a, g).generation = G
      BY <1>a, <2>2, RowOfGeneration
    <3>4. \A h \in history[a] : h.generation = G => pointer[a].snapshot = h.snapshot
      BY <1>a DEF TrailInv, AuditTrailMatchesPointer
    <3> QED BY <3>1, <3>2, <3>3, <3>4
  <2>3. CASE g = G - 1 /\ p \notin overrun
    <3>1. ServedSnapshot(a, g) = Manifest(p)
      BY <2>3, <2>a DEF ServedSnapshot
    <3>2. p # None /\ LatestHistory(a, p) = ReleaseAt(a, g)
      <4>1. PICK n \in Nat : n = G
        BY <2>a
      <4>2. n > 1 /\ g = n - 1
        BY <2>3, <2>a, <4>1
      <4> QED BY <1>a, <4>1, <4>2, PreviousIsLatest
    <3>3. Manifest(p) = LatestHistory(a, p).snapshot
      BY <1>a, <2>3, <3>2 DEF RollbackTargetIntact
    <3> QED BY <3>1, <3>2, <3>3
  <2>4. g < G - 1 \/ g = G - 1 \/ g = G
    BY <2>a
  <2>5. g = G - 1 => g # G
    BY <2>a
  <2> QED BY <2>1, <2>2, <2>3, <2>4, <2>5
<1> QED BY <1>1 DEF ServedLog, RecordedLog

\* The same of the state a step leads to.
LEMMA ServedIsRecordedNext == HistoryInv' => (ServedLog = RecordedLog)'
<1>1. HistoryInv => ServedLog = RecordedLog
  BY ServedIsRecorded
<1> QED BY <1>1, PTL

\* A release appends its row to what is recorded.
LEMMA ReleaseAppends ==
    ASSUME TrailInv, TrailInv', NEW o \in Operators, ReleaseCommit(o),
           NEW a \in Aliases, a = release[o].alias,
           NEW G \in Nat, G = pointer[a].generation
    PROVE  RecordedLog' = [RecordedLog EXCEPT ![a] =
               Append(@, [action |-> release[o].action, snapshot |-> release[o].snapshot])]
<1> DEFINE n == Recorded(o)
           e == [action |-> release[o].action, snapshot |-> release[o].snapshot]
           S == {[action |-> ReleaseAt(a, g).action, snapshot |-> ReleaseAt(a, g).snapshot] :
                    g \in 1 .. G}
<1>a. /\ pointer'[a] = Moved(o) /\ history'[a] = history[a] \cup {n}
      /\ \A d \in Aliases : d # a => pointer'[d] = pointer[d] /\ history'[d] = history[d]
      /\ release[o].expected = G
  BY ReleaseChanges DEF TrailInv
<1>b. /\ RecordedLog[a] = [g \in 1 .. G |->
             [action |-> ReleaseAt(a, g).action, snapshot |-> ReleaseAt(a, g).snapshot]]
      /\ RecordedLog'[a] = [g \in 1 .. pointer'[a].generation |->
             [action |-> ReleaseAt(a, g)'.action, snapshot |-> ReleaseAt(a, g)'.snapshot]]
  BY DEF RecordedLog
<1>c. /\ pointer'[a].generation = G + 1 /\ n.generation = G + 1
      /\ e = [action |-> n.action, snapshot |-> n.snapshot]
  BY <1>a DEF Moved, Recorded
<1>1. ASSUME NEW d \in Aliases, d # a PROVE RecordedLog'[d] = RecordedLog[d]
  BY <1>1, <1>a DEF RecordedLog, ReleaseAt
<1>2. ASSUME NEW g \in 1 .. G PROVE ReleaseAt(a, g)' = ReleaseAt(a, g)
  <2>1. /\ ReleaseAt(a, g) \in history[a] /\ ReleaseAt(a, g).generation = g
    BY RowOfGeneration
  <2>2. ReleaseAt(a, g) \in history'[a] /\ \A h \in history'[a] :
           h.generation = g => h = ReleaseAt(a, g)
    BY <2>1, <1>a DEF TrailInv
  <2>3. ReleaseAt(a, g)' = CHOOSE h \in history'[a] : h.generation = g
    BY DEF ReleaseAt
  <2> QED BY <2>1, <2>2, <2>3
<1>3. ReleaseAt(a, G + 1)' = n
  <2>1. n \in history'[a] /\ n.generation = G + 1
    BY <1>a, <1>c
  <2>2. \A h \in history'[a] : h.generation = G + 1 => h = n
    BY <2>1 DEF TrailInv
  <2>3. ReleaseAt(a, G + 1)' = CHOOSE h \in history'[a] : h.generation = G + 1
    BY DEF ReleaseAt
  <2> QED BY <2>1, <2>2, <2>3
<1>4. RecordedLog'[a] = Append(RecordedLog[a], e)
  <2> DEFINE L == RecordedLog[a]
             M == RecordedLog'[a]
             T == S \cup {e}
  <2>1. L \in Seq(T) /\ Len(L) = G /\ e \in T
    BY <1>b
  <2>2. /\ Append(L, e) \in Seq(T) /\ Len(Append(L, e)) = G + 1
        /\ \A i \in 1 .. G : Append(L, e)[i] = L[i]
        /\ Append(L, e)[G + 1] = e
    <3> HIDE DEF L, T, e
    <3> QED BY <2>1, AppendProperties
  <2>3. Append(L, e) = [i \in 1 .. G + 1 |-> Append(L, e)[i]]
    <3>1. Append(L, e) \in [1 .. G + 1 -> T]
      BY <2>2, LenProperties
    <3> HIDE DEF L, T, e
    <3> QED BY <3>1
  <2>4. M = [i \in 1 .. G + 1 |->
               [action |-> ReleaseAt(a, i)'.action, snapshot |-> ReleaseAt(a, i)'.snapshot]]
    BY <1>b, <1>c
  <2>5. ASSUME NEW i \in 1 .. G + 1
        PROVE  [action |-> ReleaseAt(a, i)'.action, snapshot |-> ReleaseAt(a, i)'.snapshot]
                  = Append(L, e)[i]
    <3>1. CASE i = G + 1
      BY <3>1, <2>2, <1>3, <1>c
    <3>2. CASE i # G + 1
      <4>1. i \in 1 .. G
        BY <3>2
      <4>2. L[i] = [action |-> ReleaseAt(a, i).action, snapshot |-> ReleaseAt(a, i).snapshot]
        BY <4>1, <1>b
      <4>3. ReleaseAt(a, i)' = ReleaseAt(a, i) /\ Append(L, e)[i] = L[i]
        BY <4>1, <1>2, <2>2
      <4> QED BY <4>2, <4>3
    <3> QED BY <3>1, <3>2
  <2> QED BY <2>3, <2>4, <2>5
<1>5. /\ RecordedLog \in [Aliases -> {RecordedLog[d] : d \in Aliases}]
      /\ RecordedLog' \in [Aliases -> {RecordedLog'[d] : d \in Aliases}]
  BY DEF RecordedLog
<1> HIDE DEF e
<1> QED BY <1>1, <1>4, <1>5 DEF e

\* The empty tables are the empty log.
LEMMA InitLog == Init => Promise!Init
<1> SUFFICES ASSUME Init PROVE ServedLog = [a \in Aliases |-> <<>>]
  BY DEF Promise!Init
<1>1. ASSUME NEW a \in Aliases
      PROVE  [g \in 1 .. pointer[a].generation |->
                 [action |-> ReleaseAt(a, g).action, snapshot |-> ServedSnapshot(a, g)]] = <<>>
  <2>1. pointer[a].generation = 0
    BY <1>1 DEF Init, TablesInit, NoPointer
  <2>2. 1 .. pointer[a].generation = {}
    BY <2>1
  <2> QED BY <2>2
<1> QED BY <1>1 DEF ServedLog

\* Every step of the control plane appends a release to the log or leaves it alone.
LEMMA StepLog ==
    ASSUME HistoryInv, HistoryInv', [Next]_vars
    PROVE  [Promise!Next]_ServedLog
<1>a. /\ ServedLog = RecordedLog /\ TrailInv /\ TrailInv'
      /\ TypeOK /\ WellFormed /\ Safe /\ RollbackTargetIntact
  BY ServedIsRecorded DEF HistoryInv, TrailInv
<1>b. ServedLog' = RecordedLog'
  BY ServedIsRecordedNext
<1>1. CASE \A o \in Operators : ~ReleaseCommit(o)
  <2>1. UNCHANGED <<pointer, history>>
    BY <1>1, <1>a, OnlyReleasesRecord
  <2>2. RecordedLog' = RecordedLog
    BY <2>1 DEF RecordedLog, ReleaseAt
  <2> QED BY <2>2, <1>a, <1>b
<1>2. ASSUME NEW o \in Operators, ReleaseCommit(o) PROVE Promise!Next
  <2>1. PICK a \in Aliases : a = release[o].alias
    BY <1>2, <1>a, ReleaseChanges
  <2>2. PICK G \in Nat : G = pointer[a].generation
    BY <1>a DEF TypeOK, TablesTypeOK, PointerRow
  <2>3. ServedLog' = [ServedLog EXCEPT ![a] =
           Append(@, [action |-> release[o].action, snapshot |-> release[o].snapshot])]
    BY <1>a, <1>b, <1>2, <2>1, <2>2, ReleaseAppends
  <2>4. /\ release[o].action \in {"publish", "rollback"} /\ release[o].snapshot \in Manifests
        /\ release[o].expected = G /\ release[o].target \in Collections
    BY <1>2, <1>a, <2>1, <2>2, ReleaseChanges DEF TypeOK, ReleaseTypeOK, ReleaseRow
  <2>5. CASE release[o].action = "publish"
    <3>1. Promise!Publish(a, release[o].snapshot)
      BY <2>3, <2>5 DEF Promise!Publish
    <3> QED BY <2>4, <3>1 DEF Promise!Next
  <2>6. CASE release[o].action = "rollback"
    <3>1. pointer[a].previous = release[o].target
      BY <1>2, <1>a, <2>1, <2>2, <2>4, <2>6
         DEF TrailInv, DecisionStands, Decided, ReleaseCommit, ReleaseIn
    <3>2. G > 1
      BY <3>1, <1>a, <2>2, <2>4, TablesAssumption DEF TrailInv, PointersFormed
    <3>3. release[o].snapshot = LatestHistory(a, pointer[a].previous).snapshot
      BY <3>1, <1>a, <1>2, <2>1, <2>2, <2>4, <2>6
         DEF TrailInv, DecisionStands, Decided, ReleaseCommit, ReleaseIn
    <3>4. /\ Len(RecordedLog[a]) = G
          /\ RecordedLog[a][G - 1].snapshot = ReleaseAt(a, G - 1).snapshot
      BY <2>2, <3>2 DEF RecordedLog
    <3>5. LatestHistory(a, pointer[a].previous) = ReleaseAt(a, G - 1)
      BY <1>a, <2>2, <3>2, PreviousIsLatest
    <3>6. Promise!Rollback(a)
      BY <2>3, <2>6, <3>2, <3>3, <3>4, <3>5, <1>a DEF Promise!Rollback
    <3> QED BY <3>6 DEF Promise!Next
  <2> QED BY <2>4, <2>5, <2>6
<1> QED BY <1>1, <1>2

\* Builders, operators, collectors and their crashes together implement the log of
\* releases: what an alias serves, and what a rollback would restore, changes only by
\* a release or under a late guard, and a rollback restores what was served before.
THEOREM ControlPlaneImplementsReleaseLog == Spec => ImplementsReleaseLog
<1>1. HistoryInv /\ HistoryInv' /\ [Next]_vars => [Promise!Next]_ServedLog
  BY StepLog
<1> QED
  BY <1>1, InitLog, HistoryAlways, PTL DEF Spec, ImplementsReleaseLog, Promise!Spec

=============================================================================

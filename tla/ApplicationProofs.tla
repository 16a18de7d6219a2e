--------------------------- MODULE ApplicationProofs ---------------------------
(***************************************************************************)
(* What application processes do at their start and at their end, for any  *)
(* number of them: a process that serves finds its corpus, a runtime that  *)
(* is handed out is complete, and what was opened is given back.           *)
(***************************************************************************)
EXTENDS ApplicationStartup, RuntimeProviders, HttpService, DocumentIndexing, FiniteSetTheorems, TLAPS

-----------------------------------------------------------------------------
(* Starting together.  Once a record is what the corpus says it stays so,    *)
(* because every writer writes the same: this is all a listed view, old as   *)
(* it may be, needs to promise.                                              *)

Holds(p, r) == rows[app[p].collection][r].fingerprint = app[p].wanted[r]

\* What a process found right when it listed is right, and all of it once it serves.
AppStands(p) ==
    /\ ~AppIn(p, "down") => app[p].collection \in Collections /\ app[p].wanted \in AppCorpora
    /\ AppIn(p, "listed") \/ AppIn(p, "writeBegun") =>
          \A r \in RecordIds : app[p].view[r] = app[p].wanted[r] => Holds(p, r)
    /\ AppIn(p, "serving") => \A r \in RecordIds : Holds(p, r)

AppInv ==
    /\ now \in 1 .. MaxTime
    /\ rows \in [Collections -> [RecordIds -> VectorRow]]
    /\ app \in [Apps -> AppRow]
    /\ \A p \in Apps : AppStands(p)

\* The processes of one release read the same directory, and nothing else writes.
OneCorpusOnly ==
    /\ \A m, n \in AppCorpora : m = n
    /\ Builders = {}
    /\ Collectors = {}

\* Rows of processes that are down and of records that are gone.
LEMMA DownAppType == DownApp \in AppRow /\ NoRow \in VectorRow
<1>1. 0 \in Times
  BY TablesAssumption DEF Times
<1> QED BY <1>1 DEF DownApp, AppRow, AppPhases, Manifests, EmptyManifest, NoRow, VectorRow

\* A step of one process that writes no row.
LEMMA AppMoves ==
    ASSUME AppInv, NEW p \in Apps, NEW row \in AppRow, app' = [app EXCEPT ![p] = row],
           UNCHANGED <<now, rows>>, AppStands(p)'
    PROVE  AppInv'
<1>1. \A q \in Apps : q # p => app'[q] = app[q]
  BY DEF AppInv
<1>2. \A q \in Apps : AppStands(q)'
  BY <1>1 DEF AppInv, AppStands, AppIn, Holds
<1> QED BY <1>2 DEF AppInv

\* A process writes what it found wrong, and undoes nothing that is right.
LEMMA CommitSafe ==
    ASSUME OneCorpusOnly, AppInv, NEW p \in Apps, AppWriteCommit(p)
    PROVE  AppInv'
<1> DEFINE c == app[p].collection
           m == app[p].wanted
<1>1. c \in Collections /\ m \in AppCorpora /\ m \in [RecordIds -> Fingerprints \cup {None}]
  BY AppAssumption DEF AppInv, AppStands, AppWriteCommit, AppIn, Corpora, Manifests
<1>2. /\ rows' = [rows EXCEPT ![c] = Applied(c, app[p].view, m, app[p].begun)]
      /\ app' = [app EXCEPT ![p] = [@ EXCEPT !.phase = "serving", !.begun = 0]]
  BY DEF AppWriteCommit
<1>3. ASSUME NEW r \in RecordIds PROVE rows'[c][r].fingerprint = m[r]
  <2>1. rows'[c] = Applied(c, app[p].view, m, app[p].begun)
    BY <1>1, <1>2 DEF AppInv
  <2>2. app[p].view[r] = m[r] => rows[c][r].fingerprint = m[r]
    BY DEF AppInv, AppStands, AppWriteCommit, AppIn, Holds
  <2>3. CASE r \in Upserts(app[p].view, m)
    BY <2>1, <2>3 DEF Applied
  <2>4. CASE r \in StaleIds(app[p].view, m)
    BY <2>1, <2>4 DEF Applied, Upserts, StaleIds, NoRow
  <2>5. CASE r \notin Upserts(app[p].view, m) /\ r \notin StaleIds(app[p].view, m)
    BY <2>1, <2>2, <2>5 DEF Applied, Upserts, StaleIds
  <2> QED BY <2>3, <2>4, <2>5
<1>4. \A q \in Apps : /\ app'[q].collection = app[q].collection
                      /\ app'[q].wanted = app[q].wanted /\ app'[q].view = app[q].view
                      /\ q # p => app'[q] = app[q]
  BY <1>2 DEF AppInv, AppRow
<1>5. \A d \in Collections : d # c => rows'[d] = rows[d]
  BY <1>2 DEF AppInv
<1>6. app'[p].phase = "serving"
  <2>1. app'[p] = [app[p] EXCEPT !.phase = "serving", !.begun = 0] /\ app[p] \in AppRow
    BY <1>2 DEF AppInv
  <2> QED BY <2>1 DEF AppRow
<1> HIDE DEF c, m
<1>7. ASSUME NEW q \in Apps, NEW r \in RecordIds, ~AppIn(q, "down"), Holds(q, r)
      PROVE  Holds(q, r)'
  <2>1. app[q].collection \in Collections /\ app[q].wanted \in AppCorpora
    BY <1>7 DEF AppInv, AppStands
  <2>2. app[q].wanted = m
    BY <1>1, <2>1 DEF OneCorpusOnly
  <2> QED BY <1>3, <1>4, <1>5, <1>7, <2>1, <2>2 DEF Holds
<1>8. ASSUME NEW q \in Apps PROVE AppStands(q)'
  <2>1. AppStands(q)
    BY DEF AppInv
  <2>2. CASE q = p
    <3>1. \A r \in RecordIds : Holds(q, r)'
      BY <1>3, <1>4, <2>2 DEF Holds, c, m
    <3>2. ~AppIn(p, "down")
      BY DEF AppWriteCommit, AppIn
    <3> QED BY <1>4, <1>6, <2>1, <2>2, <3>1, <3>2 DEF AppStands, AppIn
  <2>3. CASE q # p
    <3>1. app'[q] = app[q]
      BY <1>4, <2>3
    <3> QED BY <1>7, <2>1, <3>1 DEF AppStands, AppIn
  <2> QED BY <2>2, <2>3
<1>9. rows' \in [Collections -> [RecordIds -> VectorRow]]
  <2>1. app[p].begun \in Times
    BY DEF AppInv, AppRow
  <2>2. NoRow \in VectorRow
    BY DownAppType
  <2>3. \A r \in RecordIds : rows[c][r] \in VectorRow
    BY <1>1 DEF AppInv
  <2>4. Applied(c, app[p].view, m, app[p].begun) \in [RecordIds -> VectorRow]
    BY <1>1, <2>1, <2>2, <2>3 DEF Applied, VectorRow
  <2> QED BY <1>2, <2>4 DEF AppInv
<1>10. app' \in [Apps -> AppRow]
  <2>1. [app[p] EXCEPT !.phase = "serving", !.begun = 0] \in AppRow
    <3>1. app[p] \in AppRow /\ 0 \in Times
      BY TablesAssumption DEF AppInv, Times
    <3> QED BY <3>1 DEF AppRow, AppPhases
  <2> QED BY <1>2, <2>1 DEF AppInv
<1>11. now' = now
  BY DEF AppWriteCommit
<1> QED BY <1>8, <1>9, <1>10, <1>11 DEF AppInv

\* What a release operator does changes no row.
LEMMA OperatorWritesNothing ==
    ASSUME NEW o \in Operators, Operator(o)
    PROVE  UNCHANGED <<now, rows>>
<1>1. CASE \/ \E a \in Aliases, c \in Collections, m \in Corpora : PublishBegin(o, a, c, m)
           \/ \E a \in Aliases : RollbackBegin(o, a)
  BY <1>1 DEF PublishBegin, RollbackBegin, tables
<1>2. CASE ~(\/ \E a \in Aliases, c \in Collections, m \in Corpora : PublishBegin(o, a, c, m)
             \/ \E a \in Aliases : RollbackBegin(o, a))
  BY <1>2 DEF tables, Operator, PublishLockPointer, RollbackLockPointer, LockTargetLease,
     Validate, ReleaseCommit, ReleaseAborts
<1> QED BY <1>1, <1>2

\* Every step keeps the invariant.
LEMMA AppInvStep ==
    ASSUME OneCorpusOnly
    PROVE  AppInv /\ [AppNext]_appVars => AppInv'
<1> SUFFICES ASSUME AppInv, [AppNext]_appVars PROVE AppInv'
  OBVIOUS
<1>1. CASE UNCHANGED <<rows, app>> /\ now' \in 1 .. MaxTime
  BY <1>1 DEF AppInv, AppStands, AppIn, Holds
<1>2. ASSUME Next, UNCHANGED app PROVE UNCHANGED rows /\ now' \in 1 .. MaxTime
  <2>1. CASE Tick
    BY <2>1, TablesAssumption DEF Tick, AppInv
  <2>2. ASSUME NEW o \in Operators, Operator(o) PROVE UNCHANGED <<now, rows>>
    BY <2>2, OperatorWritesNothing
  <2> QED BY <1>2, <2>1, <2>2 DEF Next, OneCorpusOnly, AppInv
<1>3. ASSUME NEW p \in Apps, App(p) PROVE AppInv'
  <2>0. AppStands(p) /\ app \in [Apps -> AppRow] /\ app[p] \in AppRow
    BY DEF AppInv
  <2>1. ASSUME NEW c \in Collections, NEW m \in AppCorpora, AppStart(p, c, m)
        PROVE  AppInv'
    <3> DEFINE row == [DownApp EXCEPT !.phase = "starting", !.collection = c, !.wanted = m]
    <3>1. row \in AppRow /\ row.phase = "starting" /\ row.collection = c /\ row.wanted = m
      BY DownAppType, AppAssumption DEF AppRow, AppPhases, Corpora, DownApp
    <3>2. app' = [app EXCEPT ![p] = row] /\ UNCHANGED <<now, rows>>
      BY <2>1 DEF AppStart, vars, tables
    <3> HIDE DEF row
    <3>3. AppStands(p)'
      BY <2>0, <3>1, <3>2 DEF AppStands, AppIn
    <3> QED BY <3>1, <3>2, <3>3, AppMoves
  <2>2. CASE AppListEntries(p)
    <3> DEFINE row == [app[p] EXCEPT !.phase = "listed", !.view = Manifest(app[p].collection)]
    <3>1. app[p].collection \in Collections /\ app[p].wanted \in AppCorpora
      BY <2>0, <2>2 DEF AppStands, AppListEntries, AppIn
    <3>2. Manifest(app[p].collection) \in Manifests
      BY <3>1 DEF AppInv, Manifest, Manifests, VectorRow
    <3>3. /\ row \in AppRow /\ row.phase = "listed" /\ row.view = Manifest(app[p].collection)
          /\ row.collection = app[p].collection /\ row.wanted = app[p].wanted
      BY <2>0, <3>2 DEF AppRow, AppPhases
    <3>4. app' = [app EXCEPT ![p] = row] /\ UNCHANGED <<now, rows>>
      BY <2>2 DEF AppListEntries, vars, tables
    <3> HIDE DEF row
    <3>5. AppStands(p)'
      BY <2>0, <3>1, <3>3, <3>4 DEF AppStands, AppIn, Holds, Manifest
    <3> QED BY <3>3, <3>4, <3>5, AppMoves
  <2>3. CASE AppNothingToWrite(p)
    <3> DEFINE row == [app[p] EXCEPT !.phase = "serving"]
    <3>1. /\ row \in AppRow /\ row.phase = "serving"
          /\ row.collection = app[p].collection /\ row.wanted = app[p].wanted
      BY <2>0 DEF AppRow, AppPhases
    <3>2. app' = [app EXCEPT ![p] = row] /\ UNCHANGED <<now, rows>>
      BY <2>3 DEF AppNothingToWrite, vars, tables
    <3>3. app[p].collection \in Collections /\ app[p].wanted \in AppCorpora
      BY <2>0, <2>3 DEF AppStands, AppNothingToWrite, AppIn
    <3>4. \A r \in RecordIds : app[p].view[r] = app[p].wanted[r]
      BY <2>3 DEF AppNothingToWrite, InSync, Upserts, StaleIds
    <3>5. \A r \in RecordIds : Holds(p, r)
      BY <2>0, <2>3, <3>4 DEF AppStands, AppNothingToWrite, AppIn
    <3> HIDE DEF row
    <3>6. AppStands(p)'
      BY <2>0, <3>1, <3>2, <3>3, <3>5 DEF AppStands, AppIn, Holds
    <3> QED BY <3>1, <3>2, <3>6, AppMoves
  <2>4. CASE AppWriteBegin(p)
    <3> DEFINE row == [app[p] EXCEPT !.phase = "writeBegun", !.begun = now]
    <3>1. now \in Times
      BY TablesAssumption DEF AppInv, Times
    <3>2. /\ row \in AppRow /\ row.phase = "writeBegun" /\ row.view = app[p].view
          /\ row.collection = app[p].collection /\ row.wanted = app[p].wanted
      BY <2>0, <3>1 DEF AppRow, AppPhases
    <3>3. app' = [app EXCEPT ![p] = row] /\ UNCHANGED <<now, rows>>
      BY <2>4 DEF AppWriteBegin, vars, tables
    <3>4. AppIn(p, "listed")
      BY <2>4 DEF AppWriteBegin
    <3> HIDE DEF row
    <3>5. AppStands(p)'
      BY <2>0, <3>2, <3>3, <3>4 DEF AppStands, AppIn, Holds
    <3> QED BY <3>2, <3>3, <3>5, AppMoves
  <2>5. CASE AppWriteCommit(p)
    BY <2>5, CommitSafe
  <2>6. CASE AppStops(p)
    <3>1. UNCHANGED <<now, rows>> /\ app' = [app EXCEPT ![p] = DownApp]
      BY <2>6 DEF AppStops, vars, tables
    <3>2. AppStands(p)'
      BY <2>0, <3>1 DEF AppStands, AppIn, DownApp
    <3> QED BY <3>1, <3>2, DownAppType, AppMoves
  <2> QED BY <1>3, <2>1, <2>2, <2>3, <2>4, <2>5, <2>6 DEF App
<1>4. CASE UNCHANGED appVars
  BY <1>1, <1>4 DEF appVars, vars, tables, AppInv
<1> QED BY <1>1, <1>2, <1>3, <1>4 DEF AppNext

\* Whatever an earlier version left in the tables, and whoever starts, stops or dies
\* meanwhile: if nobody else writes the collection, a process that serves finds in it
\* exactly the chunks of its corpus, although no process takes a lock (synchronize).
THEOREM ServingAlwaysMatches ==
    ASSUME OneCorpusOnly
    PROVE  TablesTypeOK /\ AppInit /\ [][AppNext]_appVars => []ServingMatchesCorpus
<1>1. TablesTypeOK /\ AppInit => AppInv
  BY DownAppType DEF TablesTypeOK, AppInit, AppInv, AppStands, AppIn, DownApp
<1>2. AppInv => ServingMatchesCorpus
  <2> SUFFICES ASSUME AppInv, NEW p \in Apps, AppIn(p, "serving")
               PROVE  Manifest(app[p].collection) = app[p].wanted
    BY DEF ServingMatchesCorpus
  <2>1. app[p].wanted \in AppCorpora /\ \A r \in RecordIds : Holds(p, r)
    BY DEF AppInv, AppStands, AppIn
  <2>2. app[p].wanted \in [RecordIds -> Fingerprints \cup {None}]
    BY <2>1, AppAssumption DEF Corpora, Manifests
  <2> QED BY <2>1, <2>2 DEF Manifest, Holds
<1> QED BY <1>1, <1>2, AppInvStep, PTL

-----------------------------------------------------------------------------
(* The PostgreSQL runtime.  The advisory lock makes the migrations one       *)
(* sequence: who holds it is the only one to migrate, and the next migration *)
(* of the holder is the first that is missing.                               *)

\* Every migration up to v has been applied, once, and no later one.
MigratedTo(v) == applied = [w \in 0 .. LastMigration + 1 |-> IF w <= v THEN 1 ELSE 0]

ProcessStands(p) ==
    /\ process[p].at \in {"opened", "pinged"} => process[p].open = {"state"}
    /\ process[p].at \in {"connected", "validated", "migrating", "checking", "prepared"}
          => process[p].open = Pools
    /\ process[p].at \in {"pinged", "connected", "validated", "migrating", "checking", "prepared"}
          => schema.version = SchemaVersion
    /\ Stage(p, "migrating") <=> setupLock = p
    /\ Stage(p, "migrating") => process[p].next = CurrentMigration + 1
    /\ Stage(p, "checking") => CurrentMigration >= LastMigration
    /\ Stage(p, "prepared") => CurrentMigration = LastMigration
    /\ Stage(p, "closed") => process[p].open = {}
    /\ process[p].at \in {"cleaning", "closing"} => "state" \in process[p].open
    /\ Stage(p, "failed") =>
          process[p].open = {} \/ (process[p].open = {"state"} /\ process[p].raised)

ProvidersInv ==
    /\ ProvidersTypeOK
    /\ CurrentMigration \in -1 .. LastMigration + 1
    /\ MigratedTo(CurrentMigration)
    /\ \A p \in Processes : ProcessStands(p)

\* The current migration is the last of those applied.
LEMMA LastApplied ==
    ASSUME NEW v \in -1 .. LastMigration + 1, NEW f,
           f = [w \in 0 .. LastMigration + 1 |-> IF w <= v THEN 1 ELSE 0]
    PROVE  Max({-1} \cup {w \in DOMAIN f : f[w] > 0}) = v
<1> DEFINE S == {-1} \cup {w \in DOMAIN f : f[w] > 0}
<1>1. LastMigration \in Nat
  BY ProvidersAssumption
<1>2. S = -1 .. v
  BY <1>1
<1> HIDE DEF S
<1>3. v \in S /\ \A y \in S : v >= y
  BY <1>1, <1>2
<1>4. \A x \in S : (\A y \in S : x >= y) => x = v
  BY <1>1, <1>2, <1>3
<1>5. Max(S) = v
  BY <1>3, <1>4 DEF Max
<1> QED BY <1>5 DEF S

\* A step that applies no migration: the others stand if the schema does not go back
\* and the lock stays with whoever migrates.
LEMMA ProcessMoves ==
    ASSUME ProvidersInv, NEW p \in Processes, UNCHANGED applied,
           ProvidersTypeOK', ProcessStands(p)',
           \A q \in Processes : q # p => process'[q] = process[q],
           \A q \in Processes : q # p => (setupLock' = q <=> setupLock = q),
           schema.version = SchemaVersion => schema'.version = SchemaVersion
    PROVE  ProvidersInv'
<1>1. CurrentMigration' = CurrentMigration
  BY DEF CurrentMigration
<1>2. ASSUME NEW q \in Processes PROVE ProcessStands(q)'
  <2>1. CASE q = p
    BY <2>1
  <2>2. CASE q # p
    BY <1>1, <2>2 DEF ProvidersInv, ProcessStands, Stage
  <2> QED BY <2>1, <2>2
<1> QED BY <1>1, <1>2 DEF ProvidersInv, MigratedTo

\* Facts of types that every step uses.
LEMMA ProcessFacts ==
    ASSUME ProvidersInv
    PROVE  /\ process \in [Processes -> Process]
           /\ CurrentMigration \in -1 .. LastMigration + 1
           /\ LastMigration \in Nat
           /\ NewProcess \in Process
           /\ \A p \in Processes : process[p] \in Process /\ ProcessStands(p)
  BY ProvidersAssumption
  DEF ProvidersInv, ProvidersTypeOK, NewProcess, Process, Stages, Pools

\* Setting up the schema never takes its version back.
LEMMA SetupSafe ==
    ASSUME ProvidersInv, NEW p \in Processes,
           SetupBegins(p) \/ SetupLocks(p) \/ SetupCommits(p) \/ SetupRollsBack(p)
    PROVE  ProvidersInv'
<1> USE ProcessFacts
<1>1. UNCHANGED <<applied, setupLock>>
  BY DEF SetupBegins, SetupLocks, SetupCommits, SetupRollsBack
<1>2. /\ \A q \in Processes : q # p => process'[q] = process[q]
      /\ process' \in [Processes -> Process]
      /\ process'[p].at \in {"creating", "locked", "idle"}
  <2>1. CASE SetupBegins(p)
    <3> DEFINE row == [NewProcess EXCEPT !.at = "creating", !.absent = (schema.version = 0)]
    <3>1. row \in Process /\ row.at = "creating"
      BY DEF NewProcess, Process, Stages, Administering
    <3>2. process' = [process EXCEPT ![p] = row]
      BY <2>1 DEF SetupBegins, Begins
    <3> HIDE DEF row
    <3> QED BY <3>1, <3>2
  <2>2. CASE SetupLocks(p)
    <3> DEFINE row == [process[p] EXCEPT !.at = "locked"]
    <3>1. row \in Process /\ row.at = "locked"
      BY DEF Process, Stages, Administering
    <3>2. process' = [process EXCEPT ![p] = row]
      BY <2>2 DEF SetupLocks, Moves
    <3> HIDE DEF row
    <3> QED BY <3>1, <3>2
  <2>3. CASE SetupCommits(p) \/ SetupRollsBack(p)
    <3>1. process' = [process EXCEPT ![p] = NewProcess]
      BY <2>3 DEF SetupCommits, SetupRollsBack
    <3>2. NewProcess.at = "idle"
      BY DEF NewProcess
    <3> QED BY <3>1, <3>2
  <2> QED BY <2>1, <2>2, <2>3
<1>3. process[p].at \in {"idle", "creating", "locked"}
  BY DEF SetupBegins, SetupLocks, SetupCommits, SetupRollsBack, Begins, Stage, Administering
<1>a. schema' = schema \/ schema' = [schema EXCEPT !.version = SchemaVersion]
  BY DEF SetupBegins, SetupLocks, SetupCommits, SetupRollsBack
<1>b. schema \in [version : 0 .. SchemaVersion + 1, drifted : BOOLEAN]
  BY DEF ProvidersInv, ProvidersTypeOK
<1>4. schema.version = SchemaVersion => schema'.version = SchemaVersion
  BY <1>a, <1>b
<1>5. ProvidersTypeOK'
  <2>1. schema' \in [version : 0 .. SchemaVersion + 1, drifted : BOOLEAN]
    BY <1>a, <1>b DEF SchemaVersion
  <2>2. schemaLock' \in Processes \cup {Nobody}
    BY DEF SetupBegins, SetupLocks, SetupCommits, SetupRollsBack, ProvidersInv, ProvidersTypeOK
  <2>3. starts' \in 0 .. MaxStarts
    BY ProvidersAssumption DEF SetupBegins, SetupLocks, SetupCommits, SetupRollsBack,
       ProvidersInv, ProvidersTypeOK, Begins
  <2> QED BY <1>1, <1>2, <2>1, <2>2, <2>3 DEF ProvidersInv, ProvidersTypeOK
<1>6. ProcessStands(p)'
  BY <1>1, <1>2, <1>3 DEF ProcessStands, Stage
<1> QED BY <1>1, <1>2, <1>4, <1>5, <1>6, ProcessMoves

\* A preparation that goes on without the lock, ends or is closed.
LEMMA UnlockedSafe ==
    ASSUME ProvidersInv, NEW p \in Processes,
           \/ OpenPool(p) \/ Ping(p) \/ OpenCheckpoints(p) \/ ValidateSchema(p)
           \/ CheckStatus(p) \/ Refused(p) \/ Close(p)
    PROVE  ProvidersInv'
<1> USE ProcessFacts
<1>1. UNCHANGED <<schema, schemaLock, applied, setupLock>>
  BY DEF OpenPool, Ping, OpenCheckpoints, ValidateSchema, CheckStatus, Refused, Close
<1>0. CurrentMigration' = CurrentMigration
  BY <1>1 DEF CurrentMigration
<1>2. starts' \in 0 .. MaxStarts
  BY ProvidersAssumption DEF OpenPool, Ping, OpenCheckpoints, ValidateSchema, CheckStatus,
     Refused, Close, Begins, ProvidersInv, ProvidersTypeOK
<1>3. ASSUME NEW row \in Process, process' = [process EXCEPT ![p] = row], ProcessStands(p)'
      PROVE  ProvidersInv'
  BY <1>1, <1>2, <1>3, ProcessMoves DEF ProvidersInv, ProvidersTypeOK
<1>4. CASE OpenPool(p)
  <2> DEFINE row == [NewProcess EXCEPT !.at = "opened", !.open = {"state"}]
  <2>1. row \in Process /\ row.at = "opened" /\ row.open = {"state"}
    BY DEF NewProcess, Process, Stages, Preparing, Pools
  <2>2. process' = [process EXCEPT ![p] = row] /\ Stage(p, "idle")
    BY <1>4 DEF OpenPool, Begins
  <2> HIDE DEF row
  <2>3. ProcessStands(p)'
    BY <1>1, <2>1, <2>2 DEF ProcessStands, Stage
  <2> QED BY <1>3, <2>1, <2>2, <2>3
<1>5. CASE OpenCheckpoints(p)
  <2> DEFINE row == [process[p] EXCEPT !.at = "connected", !.open = @ \cup {"checkpoints"}]
  <2>1. row \in Process /\ row.at = "connected" /\ row.open = process[p].open \cup {"checkpoints"}
    BY DEF Process, Stages, Preparing, Pools
  <2>2. process' = [process EXCEPT ![p] = row] /\ Stage(p, "pinged")
    BY <1>5 DEF OpenCheckpoints
  <2> HIDE DEF row
  <2>3. row.open = Pools
    BY <2>1, <2>2 DEF ProcessStands, Stage, Pools
  <2>4. ProcessStands(p)'
    BY <1>1, <2>1, <2>2, <2>3 DEF ProcessStands, Stage
  <2> QED BY <1>3, <2>1, <2>2, <2>4
<1>6. ASSUME NEW stage \in Stages, Moves(p, stage),
             stage = "pinged" => Stage(p, "opened") /\ Supported,
             stage = "validated" => Stage(p, "connected"),
             stage = "prepared" => Stage(p, "checking") /\ CurrentMigration = LastMigration,
             stage \in {"pinged", "validated", "prepared", "cleaning", "closing"},
             stage \in {"cleaning", "closing"} =>
                process[p].at \in {"opened", "connected", "checking", "prepared"},
             ~Stage(p, "migrating")
      PROVE  ProvidersInv'
  <2> DEFINE row == [process[p] EXCEPT !.at = stage]
  <2>1. row \in Process /\ row.at = stage /\ row.open = process[p].open
    BY DEF Process
  <2>2. process' = [process EXCEPT ![p] = row]
    BY <1>6 DEF Moves
  <2> HIDE DEF row
  <2>3. ProcessStands(p)'
    BY <1>0, <1>1, <1>6, <2>1, <2>2 DEF ProcessStands, Stage, Supported, Pools
  <2> QED BY <1>3, <2>1, <2>2, <2>3
<1>7. {"pinged", "validated", "prepared", "cleaning", "closing"} \subseteq Stages
  BY DEF Stages, Preparing
<1>8. CASE Ping(p)
  BY <1>6, <1>7, <1>8 DEF Ping, Stage
<1>9. CASE ValidateSchema(p)
  BY <1>6, <1>7, <1>9 DEF ValidateSchema, Stage
<1>10. CASE CheckStatus(p)
  BY <1>6, <1>7, <1>10 DEF CheckStatus, Stage
<1>11. CASE Refused(p)
  BY <1>6, <1>7, <1>11 DEF Refused, Stage
<1>12. CASE Close(p)
  BY <1>6, <1>7, <1>12 DEF Close, Stage
<1> QED BY <1>4, <1>5, <1>8, <1>9, <1>10, <1>11, <1>12

\* The holder of the advisory lock begins with the first migration that is missing.
LEMMA LockSafe ==
    ASSUME ProvidersInv, NEW p \in Processes, LockSetup(p)
    PROVE  ProvidersInv'
<1> USE ProcessFacts
<1> DEFINE row == [process[p] EXCEPT !.at = "migrating", !.next = CurrentMigration + 1]
<1>1. /\ row \in Process /\ row.at = "migrating" /\ row.open = process[p].open
      /\ row.next = CurrentMigration + 1
  <2>1. CurrentMigration + 1 \in 0 .. LastMigration + 2
    OBVIOUS
  <2> QED BY <2>1 DEF Process, Stages, Preparing
<1>2. /\ process' = [process EXCEPT ![p] = row] /\ setupLock' = p /\ setupLock = Nobody
      /\ UNCHANGED <<schema, schemaLock, applied, starts>> /\ Stage(p, "validated")
  BY DEF LockSetup
<1>3. CurrentMigration' = CurrentMigration
  BY <1>2 DEF CurrentMigration
<1> HIDE DEF row
<1>4. ProcessStands(p)'
  BY <1>1, <1>2, <1>3 DEF ProcessStands, Stage
<1>5. ProvidersTypeOK'
  BY <1>1, <1>2 DEF ProvidersInv, ProvidersTypeOK
<1> QED BY <1>1, <1>2, <1>4, <1>5, ProcessMoves, ProvidersAssumption

\* Only the holder migrates, so that what others have seen stays true.
LEMMA MigrateSafe ==
    ASSUME ProvidersInv, NEW p \in Processes, Migrate(p)
    PROVE  ProvidersInv'
<1> USE ProcessFacts
<1> DEFINE v == CurrentMigration
           row == [process[p] EXCEPT !.next = @ + 1]
<1>1. /\ setupLock = p /\ process[p].next = v + 1 /\ v + 1 \in 0 .. LastMigration
      /\ Stage(p, "migrating")
  BY DEF ProcessStands, Migrate, Migrations
<1>2. /\ process' = [process EXCEPT ![p] = row]
      /\ applied' = [applied EXCEPT ![v + 1] = @ + 1]
      /\ UNCHANGED <<schema, schemaLock, setupLock, starts>>
  BY <1>1 DEF Migrate
<1>3. row \in Process /\ row.at = "migrating" /\ row.open = process[p].open /\ row.next = v + 2
  BY <1>1 DEF Process, Stage
<1> HIDE DEF row
<1>9. applied = [w \in 0 .. LastMigration + 1 |-> IF w <= v THEN 1 ELSE 0]
  BY DEF ProvidersInv, MigratedTo
<1>10. v \in -1 .. LastMigration + 1 /\ LastMigration \in Nat
  OBVIOUS
<1> HIDE DEF v
<1>4. applied' = [w \in 0 .. LastMigration + 1 |-> IF w <= v + 1 THEN 1 ELSE 0]
  <2>1. v + 1 \in 0 .. LastMigration + 1 /\ applied[v + 1] = 0
    BY <1>1, <1>9, <1>10
  <2>2. applied' = [w \in 0 .. LastMigration + 1 |-> IF w = v + 1 THEN 1 ELSE applied[w]]
    BY <1>2, <1>9, <2>1
  <2>3. \A w \in 0 .. LastMigration + 1 :
            (IF w = v + 1 THEN 1 ELSE applied[w]) = IF w <= v + 1 THEN 1 ELSE 0
    BY <1>9, <1>10
  <2> QED BY <2>2, <2>3
<1>5. CurrentMigration' = v + 1
  <2>1. v + 1 \in -1 .. LastMigration + 1
    BY <1>1, <1>10
  <2>2. Max({-1} \cup {w \in DOMAIN applied' : applied'[w] > 0}) = v + 1
    BY <1>4, <2>1, LastApplied
  <2> QED BY <2>2 DEF CurrentMigration
<1>6. ProvidersTypeOK'
  <2>1. applied' \in [0 .. LastMigration + 1 -> Nat]
    BY <1>4
  <2> QED BY <1>2, <1>3, <2>1 DEF ProvidersInv, ProvidersTypeOK
<1>7. MigratedTo(CurrentMigration)'
  BY <1>4, <1>5 DEF MigratedTo
<1>8. ASSUME NEW q \in Processes PROVE ProcessStands(q)'
  <2>1. CASE q = p
    <3>1. process'[q] = row
      BY <1>2, <2>1
    <3> QED BY <1>1, <1>2, <1>3, <1>5, <2>1, <3>1 DEF ProcessStands, Stage, v
  <2>2. CASE q # p
    <3>1. process'[q] = process[q] /\ ~Stage(q, "migrating")
      BY <1>1, <1>2, <2>2 DEF ProcessStands
    <3>2. ~Stage(q, "prepared") /\ (Stage(q, "checking") => v >= LastMigration)
      BY <1>1 DEF ProcessStands, v
    <3> QED BY <1>1, <1>2, <3>1, <3>2 DEF ProcessStands, Stage
  <2> QED BY <2>1, <2>2
<1>11. CurrentMigration' \in -1 .. LastMigration + 1
  BY <1>1, <1>5, <1>10
<1> QED BY <1>6, <1>7, <1>8, <1>11 DEF ProvidersInv

\* The lock is given back with the migrations done, or by a failure.
LEMMA UnlockSafe ==
    ASSUME ProvidersInv, NEW p \in Processes, UnlockSetup(p) \/ Fails(p) \/ Dies(p)
    PROVE  ProvidersInv'
<1> USE ProcessFacts
<1>1. /\ UNCHANGED <<schema, applied, starts>> /\ setupLock' = Unlocked(p)
      /\ schemaLock' \in Processes \cup {Nobody}
  BY DEF UnlockSetup, Fails, Dies, ProvidersInv, ProvidersTypeOK
<1>2. CurrentMigration' = CurrentMigration
  BY <1>1 DEF CurrentMigration
<1>3. /\ setupLock' # p /\ setupLock' \in Processes \cup {Nobody}
      /\ \A q \in Processes : q # p => (setupLock' = q <=> setupLock = q)
  BY <1>1, ProvidersAssumption DEF Unlocked, ProvidersInv, ProvidersTypeOK
<1>4. ASSUME NEW row \in Process, process' = [process EXCEPT ![p] = row], ProcessStands(p)'
      PROVE  ProvidersInv'
  BY <1>1, <1>3, <1>4, ProcessMoves DEF ProvidersInv, ProvidersTypeOK
<1>5. CASE UnlockSetup(p)
  <2> DEFINE row == [process[p] EXCEPT !.at = "checking"]
  <2>1. row \in Process /\ row.at = "checking" /\ row.open = process[p].open
    BY DEF Process, Stages, Preparing
  <2>2. process' = [process EXCEPT ![p] = row] /\ Stage(p, "migrating")
    BY <1>5 DEF UnlockSetup, Moves
  <2>3. CurrentMigration + 1 \notin Migrations
    BY <1>5 DEF UnlockSetup, ProcessStands
  <2>4. CurrentMigration >= LastMigration
    BY <2>3 DEF Migrations
  <2> HIDE DEF row
  <2>5. ProcessStands(p)'
    BY <1>1, <1>2, <1>3, <2>1, <2>2, <2>4 DEF ProcessStands, Stage
  <2> QED BY <1>4, <2>1, <2>2, <2>5
<1>6. CASE Fails(p)
  <2> DEFINE row == [process[p] EXCEPT !.at = "cleaning"]
  <2>1. row \in Process /\ row.at = "cleaning" /\ row.open = process[p].open
    BY DEF Process, Stages
  <2>2. process' = [process EXCEPT ![p] = row]
    BY <1>6 DEF Fails, Moves
  <2>4. "state" \in process[p].open
    BY <1>6 DEF Fails, Preparing, ProcessStands, Pools
  <2> HIDE DEF row
  <2>3. ProcessStands(p)'
    BY <1>3, <2>1, <2>2, <2>4 DEF ProcessStands, Stage
  <2> QED BY <1>4, <2>1, <2>2, <2>3
<1>7. CASE Dies(p)
  <2>1. process' = [process EXCEPT ![p] = NewProcess]
    BY <1>7 DEF Dies
  <2>2. ProcessStands(p)'
    BY <1>3, <2>1 DEF ProcessStands, Stage, NewProcess
  <2> QED BY <1>4, <2>1, <2>2
<1> QED BY <1>5, <1>6, <1>7

\* The pool of the state is the last to close; only a raise before it leaves it open.
LEMMA CloseSafe ==
    ASSUME ProvidersInv, NEW p \in Processes, CloseCheckpoints(p) \/ CloseState(p)
    PROVE  ProvidersInv'
<1> USE ProcessFacts
<1>1. /\ UNCHANGED <<schema, schemaLock, applied, setupLock, starts>>
      /\ process[p].at \in {"cleaning", "closing"}
  BY DEF CloseCheckpoints, CloseState
<1>0. setupLock # p
  BY <1>1 DEF ProcessStands, Stage
<1>2. ASSUME NEW row \in Process, process' = [process EXCEPT ![p] = row],
             row.at \in {"cleaning", "closing"} \cup Ended,
             row.at \notin Ended => "state" \in row.open,
             row.at \in Ended =>
                \/ row.open = {}
                \/ row.at = "failed" /\ row.open = {"state"} /\ row.raised
      PROVE  ProvidersInv'
  <2>1. process'[p] = row
    BY <1>2
  <2>2. ProcessStands(p)'
    BY <1>0, <1>1, <1>2, <2>1 DEF ProcessStands, Stage, Ended
  <2>3. ProvidersTypeOK'
    BY <1>1, <1>2 DEF ProvidersInv, ProvidersTypeOK
  <2> QED BY <1>1, <1>2, <2>2, <2>3, ProcessMoves
<1>3. EndOf(p) \in Ended /\ (SkipsState(p) => EndOf(p) = "failed")
  BY DEF EndOf, Ended, SkipsState
<1>4. CASE process' = [process EXCEPT ![p].open = @ \ {"checkpoints"}]
  <2> DEFINE row == [process[p] EXCEPT !.open = @ \ {"checkpoints"}]
  <2>1. /\ row \in Process /\ row.at = process[p].at
        /\ row.open = process[p].open \ {"checkpoints"}
    BY DEF Process
  <2>2. process' = [process EXCEPT ![p] = row]
    BY <1>4
  <2> HIDE DEF row
  <2>4. "state" \in row.open
    BY <1>1, <2>1 DEF ProcessStands
  <2>3. row.at \in {"cleaning", "closing"} /\ row.at \notin Ended
    BY <1>1, <2>1 DEF Ended
  <2> QED BY <1>2, <2>1, <2>2, <2>3, <2>4
<1>5. CASE process' = [process EXCEPT ![p].open = @ \ {"checkpoints"}, ![p].raised = TRUE,
                                      ![p].at = IF SkipsState(p) THEN EndOf(p) ELSE @]
  <2> DEFINE row == [process[p] EXCEPT !.open = @ \ {"checkpoints"}, !.raised = TRUE,
                                       !.at = IF SkipsState(p) THEN EndOf(p) ELSE @]
  <2>1. /\ row \in Process /\ row.raised
        /\ row.at = IF SkipsState(p) THEN EndOf(p) ELSE process[p].at
        /\ row.open = process[p].open \ {"checkpoints"}
    BY <1>3 DEF Process, Stages
  <2>2. process' = [process EXCEPT ![p] = row]
    BY <1>5
  <2> HIDE DEF row
  <2>3. /\ row.at \in {"cleaning", "closing"} \cup Ended
        /\ row.at \in Ended => row.at = "failed"
    BY <1>1, <1>3, <2>1 DEF Ended
  <2>4. row.open = {"state"}
    <3>1. process[p].open \subseteq {"state", "checkpoints"} /\ "state" \in process[p].open
      BY <1>1 DEF ProcessStands, Process, Pools
    <3> QED BY <2>1, <3>1
  <2> QED BY <1>2, <2>1, <2>2, <2>3, <2>4
<1>6. CASE CloseState(p)
  <2>1. PICK raises \in BOOLEAN :
            process' = [process EXCEPT ![p].open = {}, ![p].at = EndOf(p),
                                       ![p].raised = @ \/ raises]
    BY <1>6 DEF CloseState
  <2> DEFINE row == [process[p] EXCEPT !.open = {}, !.at = EndOf(p), !.raised = @ \/ raises]
  <2>2. row \in Process /\ row.at = EndOf(p) /\ row.open = {}
    BY <1>3 DEF Process, Stages
  <2>3. process' = [process EXCEPT ![p] = row]
    BY <2>1
  <2> HIDE DEF row
  <2> QED BY <1>2, <1>3, <2>2, <2>3
<1> QED BY <1>4, <1>5, <1>6 DEF CloseCheckpoints

LEMMA ProvidersInvInit == ProvidersInit => ProvidersInv
<1> SUFFICES ASSUME ProvidersInit PROVE ProvidersInv
  OBVIOUS
<1>1. PICK v \in -1 .. LastMigration + 1 : MigratedTo(v)
  BY DEF ProvidersInit, MigratedTo
<1>2. CurrentMigration = v
  BY <1>1, LastApplied DEF MigratedTo, CurrentMigration
<1>3. applied \in [0 .. LastMigration + 1 -> Nat]
  BY <1>1 DEF MigratedTo
<1>4. ProvidersTypeOK
  BY <1>3, ProvidersAssumption
  DEF ProvidersInit, ProvidersTypeOK, NewProcess, Process, Stages, Pools
<1>5. \A p \in Processes : ProcessStands(p)
  BY ProvidersAssumption DEF ProvidersInit, ProcessStands, Stage, NewProcess
<1> QED BY <1>1, <1>2, <1>4, <1>5 DEF ProvidersInv

\* Every step keeps the invariant.
LEMMA ProvidersInvStep == ProvidersInv /\ [ProvidersNext]_providerVars => ProvidersInv'
<1> SUFFICES ASSUME ProvidersInv, [ProvidersNext]_providerVars PROVE ProvidersInv'
  OBVIOUS
<1>1. ASSUME NEW p \in Processes, ProviderStep(p) PROVE ProvidersInv'
  BY <1>1, SetupSafe, UnlockedSafe, LockSafe, MigrateSafe, UnlockSafe, CloseSafe
  DEF ProviderStep, PrepareStep
<1>2. CASE UNCHANGED providerVars
  BY <1>2 DEF providerVars, ProvidersInv, ProvidersTypeOK, CurrentMigration, MigratedTo,
     ProcessStands, Stage
<1> QED BY <1>1, <1>2 DEF ProvidersNext

\* The invariant holds in every reachable state.
THEOREM ProvidersInvAlways == ProvidersSpec => []ProvidersInv
<1> QED BY ProvidersInvInit, ProvidersInvStep, PTL DEF ProvidersSpec

\* Whoever sets the schema up, fails or dies meanwhile, a process that has been handed
\* the repositories has its pools, its schema and every checkpoint migration, and none
\* was applied twice (_postgres_runtime, setup).
THEOREM PreparedAlwaysComplete == ProvidersSpec => []PreparedIsComplete
<1>1. ProvidersInv => PreparedIsComplete
  <2> SUFFICES ASSUME ProvidersInv PROVE PreparedIsComplete
    OBVIOUS
  <2>1. \A v \in DOMAIN applied : applied[v] <= 1
    BY DEF ProvidersInv, MigratedTo
  <2>2. ASSUME NEW p \in Processes, Stage(p, "prepared")
        PROVE  /\ process[p].open = Pools
               /\ schema.version = SchemaVersion
               /\ \A v \in Migrations : applied[v] = 1
    <3>1. /\ process[p].open = Pools /\ schema.version = SchemaVersion
          /\ CurrentMigration = LastMigration
      BY <2>2 DEF ProvidersInv, ProcessStands, Stage
    <3>2. \A v \in Migrations : applied[v] = 1
      BY <3>1, ProvidersAssumption DEF ProvidersInv, MigratedTo, Migrations
    <3> QED BY <3>1, <3>2
  <2> QED BY <2>1, <2>2 DEF PreparedIsComplete
<1> QED BY <1>1, ProvidersInvAlways, PTL

-----------------------------------------------------------------------------
(* What one process owns                                                    *)

\* Between the start and the end what is owned follows from the stage.
LifespanInv ==
    /\ LifespanTypeOK
    /\ lifespan \in {"down", "stopped"} => owned = {}
    /\ lifespan = "indexing" => owned = {"vector"}
    /\ lifespan = "connecting" => owned = {"vector", "llm"}
    /\ lifespan \in {"assembling", "building"} => owned = {"vector", "llm", "cache"}
    /\ lifespan \in {"wiring", "serving"} => owned = Resources
    /\ lifespan = "closing" =>
          owned \in {Resources, {"vector", "llm", "cache"}, {"vector", "llm"}, {"vector"}}
    /\ lifespan = "interrupted" => "web" \notin owned
    /\ LifespanGivesBack

\* It holds at the start and every step keeps it.
LEMMA LifespanInvKept ==
    /\ LifespanInit => LifespanInv
    /\ LifespanInv /\ [LifespanNext]_lifespanVars => LifespanInv'
<1> USE DEF LifespanInv, LifespanTypeOK, LifespanStages, LifespanGivesBack, Resources
<1>1. LifespanInit => LifespanInv
  BY DEF LifespanInit
<1>2. ASSUME LifespanInv, [LifespanNext]_lifespanVars PROVE LifespanInv'
  <2>1. CASE CreateIndex \/ CreateLLMClient \/ CreateCache \/ BuildService
    BY <1>2, <2>1 DEF CreateIndex, CreateLLMClient, CreateCache, BuildService, Constructs
  <2>2. CASE CreateWebSearch \/ BuildAgent
    BY <1>2, <2>2 DEF CreateWebSearch, BuildAgent, Constructs
  <2>3. CASE BuildServiceFails \/ BuildAgentFails \/ Stop
    BY <1>2, <2>3 DEF BuildServiceFails, BuildAgentFails, Stop
  <2>4. CASE CloseWeb \/ CloseCache \/ CloseLLM
    BY <1>2, <2>4 DEF CloseWeb, CloseCache, CloseLLM, CloseCached
  <2>5. CASE CloseVectorIndex
    BY <1>2, <2>5 DEF CloseVectorIndex
  <2>6. CASE UNCHANGED lifespanVars
    BY <1>2, <2>6 DEF lifespanVars
  <2> QED BY <1>2, <2>1, <2>2, <2>3, <2>4, <2>5, <2>6 DEF LifespanNext
<1> QED BY <1>1, <1>2

\* However constructions and closes fail, what a process, a runtime that was closed and
\* one that could not be prepared leave open is exactly what the handlers of the code
\* skip, and never more (_lifespan, _build_policy_answer_service, CachedLLMClient.close,
\* AgentRuntimeProviders.close, _postgres_runtime).
THEOREM LeftOpenIsAlwaysKnown == LifespanSpec /\ ProvidersSpec => []LeftOpenIsKnown
<1>1. LifespanInv => LifespanGivesBack
  BY DEF LifespanInv
<1>2. ProvidersInv => PoolsAreGivenBack
  BY DEF ProvidersInv, ProcessStands, PoolsAreGivenBack, Stage
<1>3. LifespanInv /\ ProvidersInv => LeftOpenIsKnown
  BY <1>1, <1>2 DEF LeftOpenIsKnown
<1> QED BY <1>3, LifespanInvKept, ProvidersInvAlways, PTL DEF LifespanSpec

-----------------------------------------------------------------------------
(* The requests and their metrics (HttpService).                            *)

\* Targets, ids, and the keys and labels of routes.
AllTargets == UNION {TargetsOf[r] : r \in Arrivals}
AllIds == {SelectRequestId(r) : r \in Arrivals} \cup {Nothing}
RouteKeys == {NormalKey(target) : target \in AllTargets}
OverflowLabels == {<<key[1], "__overflow__">> : key \in RouteKeys}
RouteLabels == RouteKeys \cup OverflowLabels

RouteRecords ==
    [requests : Nat, statuses : [StatusClasses -> Nat], within : [DOMAIN Buckets -> Nat],
     sum : Nat, longest : Nat]

RouteTables == UNION {[D -> RouteRecords] : D \in SUBSET RouteLabels}

MetricsRecords ==
    [inFlight : Nat, peak : Nat, total : Nat, overflow : Nat, errors : Nat,
     normal : SUBSET RouteKeys,
     routes : RouteTables]

SeriesRecords ==
    [statuses : [StatusClasses -> Nat], within : Seq(Nat), sum : Nat, count : Nat]

Snapshots ==
    [inFlight : Nat, peak : Nat, total : Nat, tracked : Nat, overflow : Nat, errors : Nat,
     series : UNION {[D -> SeriesRecords] : D \in SUBSET RouteLabels}]

EventNames ==
    {"success", "client_error", "server_error", "prompt_injection_blocked",
     "readiness_probe_failed", "provider_metrics_snapshot_failed",
     "unhandled_application_error"}
Events == [name : EventNames, id : AllIds]

RequestRecords ==
    [phase : {"outside", "handling", "replying", "raised", "done"},
     target : AllTargets \cup {Nothing}, id : AllIds, context : AllIds, status : Nat,
     reply : [status : Nat, id : AllIds, body : AllIds],
     shown : Snapshots \cup {Nothing}, logs : SUBSET Events]

\* What ScrapesAddUp says of one scrape.
AddsUp(shown) ==
    /\ shown.total = Cardinality(RequestsOf(shown.series))
    /\ \A k \in DOMAIN shown.series :
          LET series == shown.series[k] IN
          /\ series.count
                = series.statuses["2xx"] + series.statuses["4xx"] + series.statuses["5xx"]
          /\ \A i, j \in DOMAIN series.within : i < j => series.within[i] <= series.within[j]
          /\ \A i \in DOMAIN series.within : series.within[i] <= series.count

\* What a request is in each phase.
RequestStands(r) ==
    LET row == request[r] IN
    /\ row \in RequestRecords
    /\ row.id = IF row.phase = "outside" THEN Nothing ELSE SelectRequestId(r)
    /\ row.phase = "outside" => row = Outside
    /\ row.phase # "outside" => row.target \in TargetsOf[r]
    /\ Inside(r) => row.context = row.id
    /\ row.phase = "replying" => row.reply.status = row.status
    /\ row.phase = "raised" => row.status = 500
    /\ row.reply # NoReply => row.reply.id = row.id /\ row.reply.body \in {Nothing, row.id}
    /\ \A line \in row.logs : line.id = row.id
    /\ Finished(r) => Event(Outcome(row.status), row.id) \in row.logs
    /\ row.phase = "done" /\ row.status # 499 => row.reply.status = row.status
    /\ row.shown # Nothing => AddsUp(row.shown)

\* A key without a label of its own was counted while the labels were all taken.
MetricsStand ==
    /\ metrics \in MetricsRecords
    /\ IsFiniteSet(metrics.normal)
    /\ metrics.normal \subseteq DOMAIN metrics.routes
    /\ DOMAIN metrics.routes \subseteq metrics.normal \cup OverflowLabels
    /\ \A r \in MeasuredRequests :
          Finished(r) /\ NormalKey(request[r].target) \notin metrics.normal =>
              Cardinality(metrics.normal) >= MaxRouteKeys
    /\ IsFiniteSet(RequestsOf(Snapshot(metrics).series))
    /\ AddsUp(Snapshot(metrics))

HttpInv ==
    /\ request = [r \in Arrivals |-> request[r]]
    /\ installed \in BOOLEAN
    /\ \A r \in Arrivals : RequestStands(r)
    /\ MetricsStand
    /\ MetricsAreConserved

-----------------------------------------------------------------------------
\* A key is no overflow label.
LEMMA KeysAreNoOverflow ==
    ASSUME NEW r \in Arrivals, NEW target \in TargetsOf[r]
    PROVE  /\ NormalKey(target) \in RouteKeys
           /\ <<NormalKey(target)[1], "__overflow__">> \in OverflowLabels
           /\ NormalKey(target) \notin OverflowLabels
<1>1. target \in AllTargets
  BY DEF AllTargets
<1>2. ASSUME NEW t \in AllTargets PROVE NormalKey(t)[2] # "__overflow__"
  BY HttpAssumption DEF AllTargets, NormalKey, RouteTemplate, Arrivals
<1> QED BY <1>1, <1>2 DEF RouteKeys, OverflowLabels

LEMMA OneMore ==
    ASSUME NEW S, IsFiniteSet(S), NEW x, x \notin S
    PROVE  IsFiniteSet(S \cup {x}) /\ Cardinality(S) \in Nat
           /\ Cardinality(S \cup {x}) = Cardinality(S) + 1
BY FS_AddElement, FS_CardinalityType

LEMMA OneLess ==
    ASSUME NEW S, IsFiniteSet(S), NEW x \in S
    PROVE  IsFiniteSet(S \ {x}) /\ Cardinality(S) \in Nat \ {0}
           /\ Cardinality(S \ {x}) = Cardinality(S) - 1
<1>1. IsFiniteSet(S \ {x}) /\ Cardinality(S \ {x}) = Cardinality(S) - 1
  BY FS_RemoveElement
<1>2. Cardinality(S \ {x}) \in Nat /\ Cardinality(S) \in Nat
  BY <1>1, FS_CardinalityType
<1> QED BY <1>1, <1>2

\* Everything that is counted is finite.
LEMMA CountsAreFinite ==
    ASSUME NEW S, S \subseteq Arrivals PROVE IsFiniteSet(S) /\ Cardinality(S) \in Nat
<1>1. IsFiniteSet(Arrivals)
  BY FS_Interval, HttpAssumption DEF Arrivals
<1> QED BY <1>1, FS_Subset, FS_CardinalityType

LEMMA HttpStarts == HttpInit => HttpInv
<1> SUFFICES ASSUME HttpInit PROVE HttpInv
  OBVIOUS
<1>1. /\ \A r \in Arrivals : request[r] = Outside
      /\ request = [r \in Arrivals |-> request[r]]
      /\ metrics = NoMetrics /\ installed \in BOOLEAN
  BY DEF HttpInit
<1>2. Outside \in RequestRecords
  BY DEF Outside, RequestRecords, NoReply, AllIds, Events
<1>3. \A r \in Arrivals : RequestStands(r)
  <2>1. /\ Outside.phase = "outside" /\ Outside.id = Nothing /\ Outside.shown = Nothing
        /\ Outside.reply = NoReply /\ Outside.logs = {}
    BY DEF Outside
  <2> QED BY <1>1, <1>2, <2>1 DEF RequestStands, Inside, Finished
<1>4. MeasuredRequests = {}
  BY <1>1 DEF MeasuredRequests, Outside
<1>5. metrics.normal = {} /\ DOMAIN metrics.routes = {} /\ metrics.total = 0
  BY <1>1 DEF NoMetrics
<1>6. RequestsOf(Snapshot(metrics).series) = {} /\ Snapshot(metrics).total = 0
      /\ DOMAIN Snapshot(metrics).series = {}
  BY <1>5 DEF RequestsOf, Snapshot
<1>7. metrics \in MetricsRecords
  <2>1. metrics.routes \in RouteTables
    BY <1>1 DEF NoMetrics, RouteTables
  <2> QED BY <1>1, <2>1 DEF NoMetrics, MetricsRecords
<1>8. MetricsStand
  BY <1>4, <1>5, <1>6, <1>7, FS_EmptySet DEF MetricsStand, AddsUp
<1>9. MetricsAreConserved
  BY <1>1, <1>4, <1>5, FS_EmptySet, HttpAssumption DEF MetricsAreConserved, NoMetrics
<1> QED BY <1>1, <1>3, <1>8, <1>9 DEF HttpInv

LEMMA EventsAreTyped ==
    ASSUME NEW name \in EventNames, NEW id \in AllIds
    PROVE  Event(name, id) \in Events /\ Event(name, id).id = id
BY DEF Event, Events

-----------------------------------------------------------------------------
\* One request moves on, and the others stand as they did.
LEMMA OthersStand ==
    ASSUME HttpInv, NEW r \in Arrivals, NEW row, request' = [request EXCEPT ![r] = row]
    PROVE  /\ request'[r] = row
           /\ request' = [s \in Arrivals |-> request'[s]]
           /\ \A s \in Arrivals \ {r} :
                 /\ request'[s] = request[s]
                 /\ RequestStands(s)'
                 /\ Inside(s)' = Inside(s) /\ Finished(s)' = Finished(s)
<1>1. /\ request'[r] = row
      /\ request' = [s \in Arrivals |-> request'[s]]
      /\ \A s \in Arrivals \ {r} : request'[s] = request[s]
  BY DEF HttpInv
<1>2. ASSUME NEW s \in Arrivals \ {r}
      PROVE  /\ RequestStands(s)'
             /\ Inside(s)' = Inside(s) /\ Finished(s)' = Finished(s)
  BY <1>1, <1>2 DEF HttpInv, RequestStands, Inside, Finished
<1> QED BY <1>1, <1>2

\* A step that counts nothing: the request stays inside, or stays finished with its status.
LEMMA NothingCounted ==
    ASSUME HttpInv, NEW r \in Arrivals, NEW row, request' = [request EXCEPT ![r] = row],
           metrics' = metrics, installed' = installed,
           RequestStands(r)', row.target = request[r].target,
           \/ request[r].phase = "handling" /\ row.phase = "replying"
           \/ /\ request[r].phase = "raised" /\ row.phase = "done"
              /\ row.status = request[r].status
    PROVE  HttpInv'
<1>1. /\ request'[r] = row
      /\ request' = [s \in Arrivals |-> request'[s]]
      /\ \A s \in Arrivals \ {r} :
            /\ request'[s] = request[s]
            /\ RequestStands(s)'
            /\ Inside(s)' = Inside(s) /\ Finished(s)' = Finished(s)
  BY OthersStand
<1>2. /\ \A s \in Arrivals : /\ request'[s].target = request[s].target
                             /\ Inside(s)' <=> Inside(s)
                             /\ Finished(s)' <=> Finished(s)
                             /\ Finished(s) => request'[s].status = request[s].status
                             /\ request'[s].phase # "outside" <=> request[s].phase # "outside"
  BY <1>1 DEF Inside, Finished
<1>3. MeasuredRequests' = MeasuredRequests
  BY <1>2 DEF MeasuredRequests
<1>4. MeasuredRequests \subseteq Arrivals
  BY DEF MeasuredRequests
<1>5. \A key : FinishedWith(key)' = FinishedWith(key)
  BY <1>2, <1>3, <1>4 DEF FinishedWith
<1>6. {s \in MeasuredRequests : Inside(s)}' = {s \in MeasuredRequests : Inside(s)}
  BY <1>2, <1>3, <1>4
<1>7. {s \in MeasuredRequests : Finished(s)}' = {s \in MeasuredRequests : Finished(s)}
  BY <1>2, <1>3, <1>4
<1>8. {s \in MeasuredRequests : Finished(s) /\ NormalKey(request[s].target) \notin metrics.normal}'
      = {s \in MeasuredRequests : Finished(s) /\ NormalKey(request[s].target) \notin metrics.normal}
  BY <1>2, <1>3, <1>4
<1>9. ASSUME NEW key
      PROVE  /\ \A c \in StatusClasses :
                  {s \in FinishedWith(key) : StatusClass(request[s].status) = c}'
                  = {s \in FinishedWith(key) : StatusClass(request[s].status) = c}
             /\ \A i \in DOMAIN Buckets :
                  {s \in FinishedWith(key) : DurationOf[s] <= Buckets[i]}'
                  = {s \in FinishedWith(key) : DurationOf[s] <= Buckets[i]}
  <2>1. \A s \in FinishedWith(key) : s \in Arrivals /\ Finished(s)
    BY <1>4 DEF FinishedWith
  <2> QED BY <1>2, <1>5, <2>1
<1>10. MetricsAreConserved'
  <2>1. \A key \in metrics.normal : RouteIsConserved(key)'
    BY <1>5, <1>9 DEF HttpInv, MetricsAreConserved, RouteIsConserved
  <2> QED BY <1>3, <1>6, <1>7, <1>8, <2>1 DEF HttpInv, MetricsAreConserved
<1>11. MetricsStand'
  BY <1>2, <1>3, <1>4 DEF HttpInv, MetricsStand, Snapshot
<1> QED BY <1>1, <1>10, <1>11 DEF HttpInv

LEMMA OneBucketMore ==
    ASSUME NEW s \in Seq(Nat), NEW n \in Nat
    PROVE  /\ DOMAIN Append(s, n) = 1..(Len(s) + 1)
           /\ \A i \in 1..Len(s) : Append(s, n)[i] = s[i]
           /\ Append(s, n)[Len(s) + 1] = n
OBVIOUS

\* A snapshot of counters that stand is one that adds up, in either format.
LEMMA SnapshotsAddUp ==
    ASSUME MetricsStand
    PROVE  \A shown \in {Snapshot(metrics), Rendered(Snapshot(metrics))} :
              shown \in Snapshots /\ AddsUp(shown)
<1> DEFINE plain == Snapshot(metrics)
           full == Rendered(plain)
<1>1. /\ metrics \in MetricsRecords
      /\ metrics.routes \in [DOMAIN metrics.routes -> RouteRecords]
      /\ DOMAIN metrics.routes \subseteq RouteLabels
  <2>1. metrics.routes \in UNION {[D -> RouteRecords] : D \in SUBSET RouteLabels}
    BY DEF MetricsStand, MetricsRecords, RouteTables
  <2> QED BY <2>1 DEF MetricsStand
<1>2. ASSUME NEW k \in DOMAIN metrics.routes
      PROVE  /\ plain.series[k] \in SeriesRecords
             /\ plain.series[k] = [statuses |-> metrics.routes[k].statuses,
                                   within |-> metrics.routes[k].within,
                                   sum |-> metrics.routes[k].sum,
                                   count |-> metrics.routes[k].requests]
  <2>1. /\ metrics.routes[k] \in RouteRecords
        /\ plain.series[k] = [statuses |-> metrics.routes[k].statuses,
                              within |-> metrics.routes[k].within,
                              sum |-> metrics.routes[k].sum,
                              count |-> metrics.routes[k].requests]
    BY <1>1 DEF Snapshot
  <2>2. metrics.routes[k].within \in Seq(Nat)
    <3>1. metrics.routes[k].within \in [1..Len(Buckets) -> Nat] /\ Len(Buckets) \in Nat
      BY <2>1, HttpAssumption DEF RouteRecords
    <3> QED BY <3>1
  <2> HIDE DEF plain
  <2> QED BY <2>1, <2>2 DEF RouteRecords, SeriesRecords
<1>3. DOMAIN plain.series = DOMAIN metrics.routes
      /\ plain.series \in [DOMAIN metrics.routes -> SeriesRecords]
  BY <1>2 DEF Snapshot
<1>4. plain \in Snapshots
  <2>1. Cardinality(metrics.normal) \in Nat
    BY FS_CardinalityType DEF MetricsStand
  <2>2. plain.series \in UNION {[D -> SeriesRecords] : D \in SUBSET RouteLabels}
    BY <1>1, <1>3
  <2> QED BY <1>1, <2>1, <2>2 DEF Snapshot, Snapshots, MetricsRecords
<1> HIDE DEF plain
<1>5. /\ full = [plain EXCEPT !.series = full.series]
      /\ DOMAIN full.series = DOMAIN plain.series /\ full.total = plain.total
      /\ \A k \in DOMAIN plain.series :
            full.series[k] = [plain.series[k] EXCEPT
                                !.within = Append(plain.series[k].within, plain.series[k].count)]
  BY <1>4 DEF Rendered, Snapshots
<1>6. ASSUME NEW k \in DOMAIN plain.series
      PROVE  /\ full.series[k].count = plain.series[k].count
             /\ full.series[k].statuses = plain.series[k].statuses
             /\ full.series[k].within = Append(plain.series[k].within, plain.series[k].count)
             /\ full.series[k] \in SeriesRecords
  <2>1. plain.series[k] \in SeriesRecords
    BY <1>2, <1>3
  <2>2. Append(plain.series[k].within, plain.series[k].count) \in Seq(Nat)
    BY <2>1 DEF SeriesRecords
  <2> HIDE DEF full
  <2> QED BY <1>5, <2>1, <2>2 DEF SeriesRecords
<1>7. full \in Snapshots
  <2>1. full.series \in [DOMAIN plain.series -> SeriesRecords]
    BY <1>4, <1>5, <1>6 DEF Rendered, Snapshots
  <2>2. full.series \in UNION {[D -> SeriesRecords] : D \in SUBSET RouteLabels}
    BY <1>1, <1>3, <2>1
  <2> HIDE DEF full
  <2> QED BY <1>4, <1>5, <2>2 DEF Snapshots
<1>8. AddsUp(plain)
  BY DEF MetricsStand, plain
<1> HIDE DEF full
<1>9. AddsUp(full)
  <2>1. RequestsOf(full.series) = RequestsOf(plain.series)
    BY <1>5, <1>6 DEF RequestsOf
  <2>2. ASSUME NEW k \in DOMAIN full.series
        PROVE  LET series == full.series[k] IN
               /\ series.count
                     = series.statuses["2xx"] + series.statuses["4xx"] + series.statuses["5xx"]
               /\ \A i, j \in DOMAIN series.within :
                     i < j => series.within[i] <= series.within[j]
               /\ \A i \in DOMAIN series.within : series.within[i] <= series.count
    <3> DEFINE s == plain.series[k]
               n == Len(s.within)
    <3>1. /\ s \in SeriesRecords /\ n \in Nat /\ s.count \in Nat /\ s.within \in Seq(Nat)
          /\ DOMAIN s.within = 1..n
      BY <1>2, <1>3, <1>5 DEF SeriesRecords
    <3>2. /\ s.count = s.statuses["2xx"] + s.statuses["4xx"] + s.statuses["5xx"]
          /\ \A i, j \in 1..n : i < j => s.within[i] <= s.within[j]
          /\ \A i \in 1..n : s.within[i] <= s.count
      BY <1>5, <1>8, <3>1 DEF AddsUp
    <3> HIDE DEF s
    <3>3. /\ DOMAIN Append(s.within, s.count) = 1..(n + 1)
          /\ \A i \in 1..n : Append(s.within, s.count)[i] = s.within[i]
          /\ Append(s.within, s.count)[n + 1] = s.count
      <4> DEFINE within == s.within
                 count == s.count
      <4>1. within \in Seq(Nat) /\ count \in Nat
        BY <3>1
      <4> HIDE DEF within, count
      <4>2. /\ DOMAIN Append(within, count) = 1..(Len(within) + 1)
            /\ \A i \in 1..Len(within) : Append(within, count)[i] = within[i]
            /\ Append(within, count)[Len(within) + 1] = count
        BY <4>1, OneBucketMore
      <4> QED BY <4>2 DEF within, count
    <3>4. full.series[k].within = Append(s.within, s.count) /\ full.series[k].count = s.count
          /\ full.series[k].statuses = s.statuses
      BY <1>5, <1>6, <2>2 DEF s
    <3> DEFINE within == Append(s.within, s.count)
    <3>5. \A i \in 1..n : within[i] = s.within[i] /\ s.within[i] \in Nat
      BY <3>1, <3>3
    <3>6. n \in Nat /\ s.count \in Nat /\ DOMAIN within = 1..(n + 1) /\ within[n + 1] = s.count
      BY <3>1, <3>3
    <3> HIDE DEF n, within
    <3>7. /\ \A i, j \in DOMAIN within : i < j => within[i] <= within[j]
          /\ \A i \in DOMAIN within : within[i] <= s.count
      <4>1. \A i \in DOMAIN within : i \in 1..n \/ i = n + 1
        BY <3>6
      <4>2. \A i \in DOMAIN within : within[i] <= s.count
        BY <3>2, <3>5, <3>6, <4>1
      <4>3. ASSUME NEW i \in DOMAIN within, NEW j \in DOMAIN within, i < j
            PROVE  within[i] <= within[j]
        <5>1. CASE j \in 1..n
          <6>1. i \in 1..n
            BY <3>6, <4>3, <5>1
          <6> QED BY <3>2, <3>5, <4>3, <5>1, <6>1
        <5>2. CASE j = n + 1
          BY <3>6, <4>2, <5>2
        <5> QED BY <4>1, <5>1, <5>2
      <4> QED BY <4>2, <4>3
    <3>8. full.series[k].within = within
      BY <3>4 DEF within
    <3> QED BY <3>2, <3>4, <3>7, <3>8
  <2> QED BY <1>5, <1>8, <2>1, <2>2 DEF AddsUp
<1> QED BY <1>4, <1>7, <1>8, <1>9 DEF plain, full

LEMMA StartsReplyKeeps ==
    ASSUME HttpInv, NEW r \in Arrivals, NEW status \in Statuses(request[r].target),
           NEW lines \in HandlerLogs(request[r], status), StartsReply(r, status, lines)
    PROVE  HttpInv'
<1> DEFINE old == request[r]
           row == [old EXCEPT
                    !.phase = "replying", !.status = status,
                    !.reply = [status |-> status, id |-> old.id, body |-> ReplyBody(old, status)],
                    !.shown = Shows(old), !.logs = old.logs \cup lines]
<1>1. /\ old.phase = "handling"
      /\ request' = [request EXCEPT ![r] = row]
      /\ metrics' = metrics /\ installed' = installed
  BY DEF StartsReply, HttpInv
<1>2. /\ old \in RequestRecords /\ old.context = old.id
      /\ old.id = SelectRequestId(r)
      /\ \A line \in old.logs : line.id = old.id
      /\ old.target \in TargetsOf[r]
  BY <1>1 DEF HttpInv, RequestStands, Inside
<1>3. status \in Nat
  BY DEF Statuses, ServiceStatuses, ComponentStatuses, ReadinessStatuses
<1>4. lines \in SUBSET Events /\ \A line \in lines : line.id = old.id
  <2>1. old.id \in AllIds /\ old.context = old.id
    BY <1>2 DEF RequestRecords
  <2>2. \A name \in EventNames : Event(name, old.id) \in Events /\ Event(name, old.id).id = old.id
    BY <2>1, EventsAreTyped
  <2>3. \/ lines = {}
        \/ \E name \in EventNames : lines = {Event(name, old.id)}
    BY <2>1 DEF HandlerLogs, EventNames
  <2> QED BY <2>2, <2>3
<1>5. ReplyBody(old, status) \in {Nothing, old.id} /\ ReplyBody(old, status) \in AllIds
  BY <1>2 DEF ReplyBody, AllIds
<1>6. Shows(old) \in Snapshots \cup {Nothing} /\ (Shows(old) # Nothing => AddsUp(Shows(old)))
  BY SnapshotsAddUp DEF Shows, HttpInv
<1>7. row \in RequestRecords
  BY <1>2, <1>3, <1>4, <1>5, <1>6 DEF RequestRecords
<1>8. /\ row.phase = "replying" /\ row.status = status /\ row.target = old.target
      /\ row.id = old.id /\ row.context = old.context /\ row.shown = Shows(old)
      /\ row.logs = old.logs \cup lines
      /\ row.reply.status = status /\ row.reply.id = old.id
      /\ row.reply.body = ReplyBody(old, status)
  BY <1>2 DEF RequestRecords
<1>9. request'[r] = row
  BY <1>1 DEF HttpInv
<1> HIDE DEF row
<1>10. RequestStands(r)'
  BY <1>2, <1>4, <1>5, <1>6, <1>7, <1>8, <1>9 DEF RequestStands, Inside, Finished
<1> QED BY <1>1, <1>8, <1>10, NothingCounted

LEMMA RepliesToErrorKeeps ==
    ASSUME HttpInv, NEW r \in Arrivals, RepliesToError(r) PROVE HttpInv'
<1> DEFINE old == request[r]
           event == Event("unhandled_application_error", old.id)
           row == [old EXCEPT
                    !.phase = "done", !.reply = [status |-> 500, id |-> old.id, body |-> old.id],
                    !.logs = old.logs \cup {event}]
<1>1. /\ old.phase = "raised"
      /\ request' = [request EXCEPT ![r] = row]
      /\ metrics' = metrics /\ installed' = installed
  BY DEF RepliesToError, HttpInv
<1>2. /\ old \in RequestRecords
      /\ old.id = SelectRequestId(r)
      /\ \A line \in old.logs : line.id = old.id
      /\ old.target \in TargetsOf[r] /\ old.status = 500
      /\ Event(Outcome(old.status), old.id) \in old.logs
      /\ old.shown # Nothing => AddsUp(old.shown)
  BY <1>1 DEF HttpInv, RequestStands, Finished
<1>3. event \in Events /\ event.id = old.id
  <2>1. old.id \in AllIds
    BY <1>2 DEF RequestRecords
  <2> QED BY <2>1, EventsAreTyped DEF EventNames
<1>4. row \in RequestRecords
  <2>1. old.id \in AllIds /\ old.logs \cup {event} \in SUBSET Events
    BY <1>2, <1>3 DEF RequestRecords
  <2> DEFINE reply == [status |-> 500, id |-> old.id, body |-> old.id]
  <2>2. reply \in [status : Nat, id : AllIds, body : AllIds]
    BY <2>1
  <2> HIDE DEF event, reply
  <2>3. row = [old EXCEPT !.phase = "done", !.reply = reply, !.logs = old.logs \cup {event}]
    BY DEF reply
  <2> HIDE DEF row
  <2> QED BY <1>2, <2>1, <2>2, <2>3 DEF RequestRecords
<1>5. /\ row.phase = "done" /\ row.status = old.status /\ row.target = old.target
      /\ row.id = old.id /\ row.shown = old.shown
      /\ row.logs = old.logs \cup {event}
      /\ row.reply.status = 500 /\ row.reply.id = old.id /\ row.reply.body = old.id
  BY <1>2 DEF RequestRecords
<1>6. request'[r] = row
  BY <1>1 DEF HttpInv
<1> HIDE DEF row, event
<1>7. RequestStands(r)'
  BY <1>2, <1>3, <1>4, <1>5, <1>6 DEF RequestStands, Inside, Finished
<1> QED BY <1>1, <1>5, <1>7, NothingCounted

LEMMA EntersKeeps ==
    ASSUME HttpInv, NEW r \in Arrivals, NEW target \in TargetsOf[r], Enters(r, target)
    PROVE  HttpInv'
<1> DEFINE old == request[r]
           row == [old EXCEPT !.phase = "handling", !.target = target,
                              !.id = SelectRequestId(r), !.context = SelectRequestId(r)]
<1>1. /\ old.phase = "outside"
      /\ request' = [request EXCEPT ![r] = row]
      /\ metrics' = IF IsMeasured(target) THEN RequestStarted(metrics) ELSE metrics
      /\ installed' = installed
  BY DEF Enters
<1>2. old \in RequestRecords /\ old.logs = {} /\ old.reply = NoReply /\ old.shown = Nothing
  BY <1>1 DEF HttpInv, RequestStands, Outside
<1>3. row \in RequestRecords
  <2>1. SelectRequestId(r) \in AllIds /\ target \in AllTargets
    BY DEF AllIds, AllTargets
  <2> QED BY <1>2, <2>1 DEF RequestRecords
<1>4. /\ row.phase = "handling" /\ row.target = target /\ row.id = SelectRequestId(r)
      /\ row.context = row.id /\ row.shown = Nothing /\ row.logs = {} /\ row.reply = NoReply
  BY <1>2 DEF RequestRecords
<1> HIDE DEF row
<1>5. /\ request'[r] = row
      /\ request' = [s \in Arrivals |-> request'[s]]
      /\ \A s \in Arrivals \ {r} :
            /\ request'[s] = request[s]
            /\ RequestStands(s)'
            /\ Inside(s)' = Inside(s) /\ Finished(s)' = Finished(s)
  BY <1>1, OthersStand
<1>6. RequestStands(r)'
  BY <1>3, <1>4, <1>5 DEF RequestStands, Inside, Finished
<1>7. ~Inside(r) /\ ~Finished(r) /\ Inside(r)' /\ ~Finished(r)' /\ r \notin MeasuredRequests
  BY <1>1, <1>4, <1>5 DEF Inside, Finished, MeasuredRequests
<1>8. MeasuredRequests \subseteq Arrivals
      /\ MeasuredRequests' = IF IsMeasured(target) THEN MeasuredRequests \cup {r} ELSE MeasuredRequests
  BY <1>1, <1>4, <1>5, <1>7 DEF MeasuredRequests
<1>9. {s \in MeasuredRequests : Inside(s)}'
      = IF IsMeasured(target) THEN {s \in MeasuredRequests : Inside(s)} \cup {r}
                              ELSE {s \in MeasuredRequests : Inside(s)}
  BY <1>5, <1>7, <1>8
<1>10. {s \in MeasuredRequests : Finished(s)}' = {s \in MeasuredRequests : Finished(s)}
  BY <1>5, <1>7, <1>8
<1>11. metrics'.normal = metrics.normal /\ metrics'.routes = metrics.routes
       /\ metrics'.total = metrics.total /\ metrics'.overflow = metrics.overflow
       /\ metrics'.errors = metrics.errors
  BY <1>1 DEF RequestStarted, HttpInv, MetricsStand, MetricsRecords
<1>12. {s \in MeasuredRequests : Finished(s) /\ NormalKey(request[s].target) \notin metrics.normal}'
       = {s \in MeasuredRequests : Finished(s) /\ NormalKey(request[s].target) \notin metrics.normal}
  BY <1>5, <1>7, <1>8, <1>11
<1>13. \A key : FinishedWith(key)' = FinishedWith(key)
  BY <1>5, <1>7, <1>8 DEF FinishedWith
<1>14. \A key \in metrics.normal : RouteIsConserved(key)'
  <2> SUFFICES ASSUME NEW key \in metrics.normal PROVE RouteIsConserved(key)'
    OBVIOUS
  <2>1. \A s \in FinishedWith(key) : s \in Arrivals /\ s # r
    BY <1>7, <1>8 DEF FinishedWith
  <2>2. \A c \in StatusClasses :
           {s \in FinishedWith(key) : StatusClass(request[s].status) = c}'
           = {s \in FinishedWith(key) : StatusClass(request[s].status) = c}
    BY <1>5, <1>13, <2>1
  <2>3. \A i \in DOMAIN Buckets :
           {s \in FinishedWith(key) : DurationOf[s] <= Buckets[i]}'
           = {s \in FinishedWith(key) : DurationOf[s] <= Buckets[i]}
    BY <1>13
  <2> QED BY <1>11, <1>13, <2>2, <2>3 DEF HttpInv, MetricsAreConserved, RouteIsConserved
<1>15. MetricsAreConserved'
  <2>1. CASE IsMeasured(target)
    <3>1. /\ metrics'.inFlight = metrics.inFlight + 1
          /\ metrics'.peak = IF metrics.inFlight + 1 > metrics.peak THEN metrics.inFlight + 1
                             ELSE metrics.peak
          /\ metrics.inFlight \in Nat /\ metrics.peak \in Nat
      BY <1>1, <2>1 DEF RequestStarted, HttpInv, MetricsStand, MetricsRecords
    <3>2. /\ Cardinality(MeasuredRequests') = Cardinality(MeasuredRequests) + 1
          /\ Cardinality(MeasuredRequests) \in Nat
      BY <1>7, <1>8, <2>1, CountsAreFinite, OneMore
    <3>3. Cardinality({s \in MeasuredRequests : Inside(s)}') = metrics.inFlight + 1
      <4>1. {s \in MeasuredRequests : Inside(s)} \subseteq Arrivals
        BY <1>8
      <4>2. r \notin {s \in MeasuredRequests : Inside(s)}
        BY <1>7
      <4> HIDE DEF row
      <4>3. Cardinality({s \in MeasuredRequests : Inside(s)}') =
              Cardinality({s \in MeasuredRequests : Inside(s)}) + 1
        BY <1>9, <2>1, <4>1, <4>2, CountsAreFinite, OneMore
      <4> QED BY <4>3 DEF HttpInv, MetricsAreConserved
    <3>4. metrics.inFlight <= Cardinality(MeasuredRequests)
      <4>1. {s \in MeasuredRequests : Inside(s)} \subseteq MeasuredRequests
        OBVIOUS
      <4>2. Cardinality({s \in MeasuredRequests : Inside(s)}) <= Cardinality(MeasuredRequests)
        BY <1>8, <4>1, CountsAreFinite, FS_Subset
      <4> QED BY <4>2 DEF HttpInv, MetricsAreConserved
    <3>5. /\ metrics'.inFlight <= metrics'.peak
          /\ metrics'.peak <= Cardinality(MeasuredRequests')
      BY <3>1, <3>2, <3>4 DEF HttpInv, MetricsAreConserved
    <3> QED BY <1>10, <1>11, <1>12, <1>14, <3>1, <3>3, <3>5 DEF HttpInv, MetricsAreConserved
  <2>2. CASE ~IsMeasured(target)
    BY <1>1, <1>8, <1>9, <1>10, <1>11, <1>12, <1>14, <2>2 DEF HttpInv, MetricsAreConserved
  <2> QED BY <2>1, <2>2
<1>16. MetricsStand'
  <2>1. metrics' \in MetricsRecords
    <3>1. metrics \in MetricsRecords
      BY DEF HttpInv, MetricsStand
    <3>2. RequestStarted(metrics) \in MetricsRecords
      <4> DEFINE peak == IF metrics.inFlight + 1 > metrics.peak THEN metrics.inFlight + 1
                         ELSE metrics.peak
      <4>1. metrics.inFlight + 1 \in Nat /\ peak \in Nat
        BY <3>1 DEF MetricsRecords
      <4>2. RequestStarted(metrics) = [metrics EXCEPT !.inFlight = metrics.inFlight + 1, !.peak = peak]
        BY DEF RequestStarted
      <4> HIDE DEF peak
      <4> QED BY <3>1, <4>1, <4>2 DEF MetricsRecords
    <3> QED BY <1>1, <3>1, <3>2
  <2>2. Snapshot(metrics)'.series = Snapshot(metrics).series
        /\ Snapshot(metrics)'.total = Snapshot(metrics).total
    BY <1>11 DEF Snapshot
  <2>3. AddsUp(Snapshot(metrics))'
    BY <2>2 DEF AddsUp, HttpInv, MetricsStand
  <2>4. \A s \in MeasuredRequests' :
          Finished(s)' /\ NormalKey(request'[s].target) \notin metrics'.normal =>
              Cardinality(metrics'.normal) >= MaxRouteKeys
    BY <1>5, <1>7, <1>8, <1>11 DEF HttpInv, MetricsStand
  <2> QED BY <1>11, <2>1, <2>2, <2>3, <2>4 DEF HttpInv, MetricsStand
<1> QED BY <1>1, <1>5, <1>6, <1>15, <1>16 DEF HttpInv

-----------------------------------------------------------------------------
\* One more request of a route.
LEMMA CountedAddsOne ==
    ASSUME NEW route \in RouteRecords, NEW status \in Nat, NEW duration \in Nat
    PROVE  /\ Counted(route, status, duration) \in RouteRecords
           /\ Counted(route, status, duration).requests = route.requests + 1
           /\ \A c \in StatusClasses :
                 Counted(route, status, duration).statuses[c]
                    = route.statuses[c] + IF StatusClass(status) = c THEN 1 ELSE 0
           /\ \A i \in DOMAIN Buckets :
                 Counted(route, status, duration).within[i]
                    = route.within[i] + IF duration <= Buckets[i] THEN 1 ELSE 0
<1> DEFINE statuses == [route.statuses EXCEPT ![StatusClass(status)] = @ + 1]
           within == [i \in DOMAIN Buckets |->
                        route.within[i] + (IF duration <= Buckets[i] THEN 1 ELSE 0)]
           sum == route.sum + duration
           longest == IF duration > route.longest THEN duration ELSE route.longest
           after == Counted(route, status, duration)
<1>1. after = [requests |-> route.requests + 1, statuses |-> statuses, within |-> within,
               sum |-> sum, longest |-> longest]
  BY DEF Counted
<1>2. StatusClass(status) \in StatusClasses
  BY DEF StatusClass, StatusClasses
<1>3. /\ statuses \in [StatusClasses -> Nat]
      /\ \A c \in StatusClasses :
            statuses[c] = route.statuses[c] + IF StatusClass(status) = c THEN 1 ELSE 0
  <2>1. route.statuses \in [StatusClasses -> Nat]
    BY DEF RouteRecords
  <2> HIDE DEF after
  <2> QED BY <1>2, <2>1
<1>4. /\ within \in [DOMAIN Buckets -> Nat]
      /\ \A i \in DOMAIN Buckets :
            within[i] = route.within[i] + IF duration <= Buckets[i] THEN 1 ELSE 0
  <2>1. route.within \in [DOMAIN Buckets -> Nat]
    BY DEF RouteRecords
  <2> QED BY <2>1
<1>5. route.requests + 1 \in Nat /\ sum \in Nat /\ longest \in Nat
  BY DEF RouteRecords
<1> HIDE DEF statuses, within, sum, longest, after
<1>6. after \in RouteRecords
  BY <1>1, <1>3, <1>4, <1>5 DEF RouteRecords
<1> QED BY <1>1, <1>3, <1>4, <1>6 DEF after

\* A route without requests.
LEMMA NoRequestsType ==
    /\ NoRequests \in RouteRecords /\ NoRequests.requests = 0
    /\ \A c \in StatusClasses : NoRequests.statuses[c] = 0
    /\ \A i \in DOMAIN Buckets : NoRequests.within[i] = 0
BY DEF NoRequests, RouteRecords

\* The counters after one more request: label gains one, the others stay.
Grown(label, before, status, duration, after) ==
    /\ before = IF label \in DOMAIN metrics.routes THEN metrics.routes[label] ELSE NoRequests
    /\ after.total = metrics.total + 1
    /\ after.routes = [k \in DOMAIN metrics.routes \cup {label} |->
           IF k = label THEN Counted(before, status, duration) ELSE metrics.routes[k]]

LEMMA SeriesGrow ==
    ASSUME MetricsStand, NEW label \in RouteLabels, NEW status \in Nat, NEW duration \in Nat,
           NEW before \in RouteRecords, NEW after, Grown(label, before, status, duration, after)
    PROVE  /\ after.routes \in RouteTables
           /\ IsFiniteSet(RequestsOf(Snapshot(after).series))
           /\ AddsUp(Snapshot(after))
<1> DEFINE routes == metrics.routes
           new == Counted(before, status, duration)
           n == before.requests
           old == Snapshot(metrics).series
           series == Snapshot(after).series
<1> USE DEF Grown
<1>1. /\ routes \in [DOMAIN routes -> RouteRecords] /\ DOMAIN routes \subseteq RouteLabels
      /\ metrics.total \in Nat
  <2>1. routes \in UNION {[D -> RouteRecords] : D \in SUBSET RouteLabels}
    BY DEF MetricsStand, MetricsRecords, RouteTables
  <2> QED BY <2>1 DEF MetricsStand, MetricsRecords
<1>2. /\ new \in RouteRecords /\ n \in Nat /\ new.requests = n + 1
      /\ \A c \in StatusClasses :
            new.statuses[c] = before.statuses[c] + IF StatusClass(status) = c THEN 1 ELSE 0
      /\ \A i \in DOMAIN Buckets :
            new.within[i] = before.within[i] + IF duration <= Buckets[i] THEN 1 ELSE 0
  <2>1. n \in Nat
    BY DEF RouteRecords
  <2>2. new \in RouteRecords
    BY CountedAddsOne
  <2>3. new.requests = n + 1
    BY DEF Counted
  <2>4. \A c \in StatusClasses :
          new.statuses[c] = before.statuses[c] + IF StatusClass(status) = c THEN 1 ELSE 0
    BY CountedAddsOne
  <2>5. \A i \in DOMAIN Buckets :
          new.within[i] = before.within[i] + IF duration <= Buckets[i] THEN 1 ELSE 0
    BY CountedAddsOne
  <2> HIDE DEF new, n
  <2> QED BY <2>1, <2>2, <2>3, <2>4, <2>5
<1>3. after.routes \in [DOMAIN routes \cup {label} -> RouteRecords]
  <2> HIDE DEF new
  <2> QED BY <1>1, <1>2 DEF new
<1>4. after.routes \in RouteTables
  BY <1>1, <1>3 DEF RouteTables
<1>5. /\ DOMAIN old = DOMAIN routes /\ DOMAIN series = DOMAIN routes \cup {label}
      /\ Snapshot(metrics).total = metrics.total /\ Snapshot(after).total = after.total
      /\ \A k \in DOMAIN routes :
            /\ old[k].count = routes[k].requests
            /\ old[k].statuses = routes[k].statuses /\ old[k].within = routes[k].within
      /\ \A k \in DOMAIN routes \ {label} : series[k] = old[k]
      /\ series[label].count = new.requests
      /\ series[label].statuses = new.statuses /\ series[label].within = new.within
  BY DEF Snapshot
<1> HIDE DEF new, old, series
<1>6. /\ RequestsOf(series) = RequestsOf(old) \cup {<<label, n + 1>>}
      /\ <<label, n + 1>> \notin RequestsOf(old)
  <2>1. ASSUME NEW k \in DOMAIN series, k # label
        PROVE  k \in DOMAIN old /\ series[k].count = old[k].count
    BY <1>5, <2>1
  <2>2. 1..series[label].count = (1..n) \cup {n + 1}
    <3>1. n \in Nat /\ series[label].count = n + 1
      BY <1>2, <1>5
    <3> HIDE DEF n
    <3> QED BY <3>1
  <2>3. n = IF label \in DOMAIN old THEN old[label].count ELSE 0
    BY <1>5, NoRequestsType
  <2>4. label \notin DOMAIN old => 1..n = {}
    BY <2>3
  <2> HIDE DEF n
  <2>5. ASSUME NEW k, NEW m
        PROVE  <<k, m>> \in RequestsOf(series) <=> <<k, m>> \in RequestsOf(old) \cup {<<label, n + 1>>}
    <3>1. <<k, m>> \in RequestsOf(series) <=> k \in DOMAIN series /\ m \in 1..series[k].count
      BY DEF RequestsOf
    <3>2. <<k, m>> \in RequestsOf(old) <=> k \in DOMAIN old /\ m \in 1..old[k].count
      BY DEF RequestsOf
    <3>3. CASE k = label
      BY <1>5, <2>2, <2>3, <2>4, <3>1, <3>2, <3>3
    <3>4. CASE k # label
      BY <1>5, <2>1, <3>1, <3>2, <3>4
    <3> QED BY <3>3, <3>4
  <2>6. \A x \in RequestsOf(series) \cup RequestsOf(old) : \E k, m : x = <<k, m>>
    BY DEF RequestsOf
  <2>7. <<label, n + 1>> \notin RequestsOf(old)
    <3>1. <<label, n + 1>> \in RequestsOf(old) => label \in DOMAIN old /\ n + 1 \in 1..old[label].count
      BY DEF RequestsOf
    <3> QED BY <1>2, <2>3, <3>1
  <2> QED BY <2>5, <2>6, <2>7
<1>7. /\ IsFiniteSet(RequestsOf(series))
      /\ after.total = Cardinality(RequestsOf(series))
  <2>1. IsFiniteSet(RequestsOf(old)) /\ metrics.total = Cardinality(RequestsOf(old))
    BY <1>5 DEF MetricsStand, AddsUp, old
  <2> QED BY <1>6, <2>1, OneMore
<1>8. ASSUME NEW k \in DOMAIN series
      PROVE  /\ series[k].count
                   = series[k].statuses["2xx"] + series[k].statuses["4xx"] + series[k].statuses["5xx"]
             /\ \A i, j \in DOMAIN series[k].within :
                   i < j => series[k].within[i] <= series[k].within[j]
             /\ \A i \in DOMAIN series[k].within : series[k].within[i] <= series[k].count
  <2>1. \A h \in DOMAIN old :
          /\ old[h].count = old[h].statuses["2xx"] + old[h].statuses["4xx"] + old[h].statuses["5xx"]
          /\ \A i, j \in DOMAIN old[h].within : i < j => old[h].within[i] <= old[h].within[j]
          /\ \A i \in DOMAIN old[h].within : old[h].within[i] <= old[h].count
    BY DEF MetricsStand, AddsUp, old
  <2>2. CASE k # label
    <3>1. k \in DOMAIN old /\ series[k] = old[k]
      BY <1>5, <2>2
    <3> QED BY <2>1, <3>1
  <2>3. CASE k = label
    <3>1. /\ n = before.statuses["2xx"] + before.statuses["4xx"] + before.statuses["5xx"]
          /\ \A i, j \in DOMAIN Buckets : i < j => before.within[i] <= before.within[j]
          /\ \A i \in DOMAIN Buckets : before.within[i] <= n
      <4>1. CASE label \in DOMAIN routes
        <5>1. /\ before = routes[label] /\ label \in DOMAIN old /\ old[label].count = n
              /\ old[label].statuses = before.statuses /\ old[label].within = before.within
          BY <1>5, <4>1
        <5>2. DOMAIN before.within = DOMAIN Buckets
          BY DEF RouteRecords
        <5> HIDE DEF n
        <5> QED BY <2>1, <5>1, <5>2
      <4>2. CASE label \notin DOMAIN routes
        BY <4>2, NoRequestsType DEF StatusClasses
      <4> QED BY <4>1, <4>2
    <3>2. /\ before.statuses \in [{"2xx", "4xx", "5xx"} -> Nat]
          /\ before.within \in [DOMAIN Buckets -> Nat] /\ DOMAIN new.within = DOMAIN Buckets
      BY <1>2 DEF RouteRecords, StatusClasses
    <3>3. new.statuses["2xx"] + new.statuses["4xx"] + new.statuses["5xx"] = n + 1
      <4>1. StatusClass(status) \in {"2xx", "4xx", "5xx"}
        BY DEF StatusClass
      <4> HIDE DEF n
      <4> QED BY <1>2, <3>1, <3>2, <4>1 DEF StatusClasses
    <3>4. ASSUME NEW i \in DOMAIN Buckets, NEW j \in DOMAIN Buckets, i < j
          PROVE  new.within[i] <= new.within[j]
      <4>1. Buckets[i] < Buckets[j] /\ Buckets[i] \in Nat /\ Buckets[j] \in Nat
        BY <3>4, HttpAssumption
      <4>2. before.within[i] <= before.within[j] /\ before.within[i] \in Nat /\ before.within[j] \in Nat
        BY <3>1, <3>2, <3>4
      <4> QED BY <1>2, <4>1, <4>2
    <3>5. ASSUME NEW i \in DOMAIN Buckets PROVE new.within[i] <= n + 1
      <4>1. before.within[i] <= n /\ before.within[i] \in Nat
        BY <3>1, <3>2
      <4> QED BY <1>2, <4>1
    <3> QED BY <1>2, <1>5, <2>3, <3>2, <3>3, <3>4, <3>5
  <2> QED BY <2>2, <2>3
<1>9. AddsUp(Snapshot(after))
  BY <1>5, <1>7, <1>8 DEF AddsUp, series
<1> QED BY <1>4, <1>7, <1>9 DEF series

\* A key has a label of its own as long as there is room for one.
LEMMA LabelsOfKeys ==
    ASSUME MetricsStand, NEW key \in RouteKeys, NEW label, label = RouteLabel(metrics, key)
    PROVE  /\ label \in RouteLabels /\ Cardinality(metrics.normal) \in Nat
           /\ label = key <=> key \in metrics.normal \/ Cardinality(metrics.normal) < MaxRouteKeys
           /\ label # key => label \in OverflowLabels
           /\ key \notin OverflowLabels
           /\ \A k \in metrics.normal : k \notin OverflowLabels
<1>1. \A k \in RouteKeys : k \notin OverflowLabels
  BY KeysAreNoOverflow DEF RouteKeys, AllTargets
<1>2. <<key[1], "__overflow__">> \in OverflowLabels
  BY DEF OverflowLabels
<1>3. Cardinality(metrics.normal) \in Nat /\ MaxRouteKeys \in Nat /\ metrics.normal \subseteq RouteKeys
  BY FS_CardinalityType, HttpAssumption DEF MetricsStand, MetricsRecords
<1> DEFINE overflow == <<key[1], "__overflow__">>
<1>4. label = IF key \notin metrics.normal /\ Cardinality(metrics.normal) >= MaxRouteKeys
              THEN overflow ELSE key
  BY DEF RouteLabel
<1>5. overflow \in OverflowLabels
  BY <1>2
<1> HIDE DEF overflow
<1> QED BY <1>1, <1>3, <1>4, <1>5 DEF RouteLabels

LEMMA DurationsAreTimes ==
    ASSUME NEW r \in Arrivals PROVE DurationOf[r] \in Nat /\ MaxRouteKeys \in Nat
BY HttpAssumption DEF Arrivals

\* A request leaves once, and what it was is counted under its label.
LEMMA LeavesKeeps ==
    ASSUME HttpInv, NEW r \in Arrivals, Inside(r), NEW phase \in {"done", "raised"},
           NEW status \in Nat, Leaves(r, request[r], phase, status),
           IF phase = "raised" THEN status = 500
           ELSE status = 499 \/ request[r].reply.status = status
    PROVE  HttpInv'
<1> DEFINE old == request[r]
           event == Event(Outcome(status), old.id)
           row == [old EXCEPT !.phase = phase, !.status = status, !.context = Nothing,
                              !.logs = old.logs \cup {event}]
           measured == IsMeasured(old.target)
           key0 == NormalKey(old.target)
           label == RouteLabel(metrics, key0)
           before == IF label \in DOMAIN metrics.routes THEN metrics.routes[label] ELSE NoRequests
           In == {s \in MeasuredRequests : Inside(s)}
           Out == {s \in MeasuredRequests : Finished(s)}
           Over == {s \in MeasuredRequests :
                      Finished(s) /\ NormalKey(request[s].target) \notin metrics.normal}
<1>1. /\ request' = [request EXCEPT ![r] = row]
      /\ metrics' = IF measured THEN RequestFinished(metrics, key0, status, DurationOf[r])
                                ELSE metrics
      /\ installed' = installed
  BY DEF Leaves
<1>2. /\ old \in RequestRecords
      /\ old.phase \in {"handling", "replying"}
      /\ old.id = SelectRequestId(r) /\ old.id \in AllIds
      /\ old.target \in TargetsOf[r]
      /\ \A line \in old.logs : line.id = old.id
      /\ old.reply # NoReply => old.reply.id = old.id /\ old.reply.body \in {Nothing, old.id}
      /\ old.shown # Nothing => AddsUp(old.shown)
  BY DEF HttpInv, RequestStands, Inside, RequestRecords
<1>3. event \in Events /\ event.id = old.id
  BY <1>2, EventsAreTyped DEF Outcome, EventNames
<1>4. row \in RequestRecords
  <2> DEFINE logs == old.logs \cup {event}
  <2>1. Nothing \in AllIds /\ logs \in SUBSET Events
    BY <1>2, <1>3 DEF RequestRecords, AllIds
  <2>2. phase \in {"outside", "handling", "replying", "raised", "done"}
    OBVIOUS
  <2>3. row = [old EXCEPT !.phase = phase, !.status = status, !.context = Nothing, !.logs = logs]
    OBVIOUS
  <2>4. old \in RequestRecords
    BY <1>2
  <2> HIDE DEF event, logs, row, old
  <2> QED BY <2>1, <2>2, <2>3, <2>4 DEF RequestRecords
<1>5. /\ row.phase = phase /\ row.status = status /\ row.target = old.target
      /\ row.id = old.id /\ row.shown = old.shown /\ row.reply = old.reply
      /\ row.logs = old.logs \cup {event}
  BY <1>2 DEF RequestRecords
<1> HIDE DEF row
<1>6. /\ request'[r] = row
      /\ request' = [s \in Arrivals |-> request'[s]]
      /\ \A s \in Arrivals \ {r} :
            /\ request'[s] = request[s]
            /\ RequestStands(s)'
            /\ Inside(s)' = Inside(s) /\ Finished(s)' = Finished(s)
  BY <1>1, OthersStand
<1>7. RequestStands(r)'
  <2> HIDE DEF event
  <2>1. event = Event(Outcome(row.status), row.id)
    BY <1>5 DEF event
  <2> QED BY <1>2, <1>3, <1>4, <1>5, <1>6, <2>1 DEF RequestStands, Inside, Finished
<1>8. ~Finished(r) /\ ~Inside(r)' /\ Finished(r)'
  BY <1>2, <1>5, <1>6 DEF Inside, Finished
<1>9. /\ MeasuredRequests' = MeasuredRequests /\ MeasuredRequests \subseteq Arrivals
      /\ r \in MeasuredRequests <=> measured
  BY <1>2, <1>5, <1>6 DEF MeasuredRequests
<1>10. \A s \in Arrivals : request'[s].target = request[s].target
  BY <1>5, <1>6
<1>11. /\ In' = In \ {r}
       /\ Out' = IF measured THEN Out \cup {r} ELSE Out
       /\ r \notin Out /\ (measured => r \in In)
       /\ In \subseteq Arrivals /\ Out \subseteq Arrivals /\ Over \subseteq Arrivals
  BY <1>6, <1>8, <1>9
<1>12. \A key : /\ FinishedWith(key)' = IF measured /\ key = key0 THEN FinishedWith(key) \cup {r}
                                        ELSE FinishedWith(key)
                /\ r \notin FinishedWith(key) /\ FinishedWith(key) \subseteq Arrivals
  BY <1>6, <1>8, <1>9, <1>10 DEF FinishedWith
<1>13. \A key : \A c \in StatusClasses :
          LET kept == {s \in FinishedWith(key) : StatusClass(request[s].status) = c} IN
          /\ {s \in FinishedWith(key) : StatusClass(request[s].status) = c}'
                = IF measured /\ key = key0 /\ StatusClass(status) = c THEN kept \cup {r} ELSE kept
          /\ r \notin kept /\ kept \subseteq Arrivals
  BY <1>5, <1>6, <1>12
<1>14. \A key : \A i \in DOMAIN Buckets :
          LET kept == {s \in FinishedWith(key) : DurationOf[s] <= Buckets[i]} IN
          /\ {s \in FinishedWith(key) : DurationOf[s] <= Buckets[i]}'
                = IF measured /\ key = key0 /\ DurationOf[r] <= Buckets[i]
                  THEN kept \cup {r} ELSE kept
          /\ r \notin kept /\ kept \subseteq Arrivals
  BY <1>12
<1>15. CASE ~measured
  <2>1. metrics' = metrics /\ r \notin MeasuredRequests
    BY <1>1, <1>9, <1>15
  <2>2. In' = In /\ Out' = Out /\ Over' = Over
    BY <1>6, <1>9, <1>10, <1>11, <1>15, <2>1
  <2>3. ASSUME NEW key \in metrics.normal PROVE RouteIsConserved(key)'
    <3>1. RouteIsConserved(key) /\ FinishedWith(key)' = FinishedWith(key)
      BY <1>12, <1>15 DEF HttpInv, MetricsAreConserved
    <3>2. \A c \in StatusClasses :
             {s \in FinishedWith(key) : StatusClass(request[s].status) = c}'
                = {s \in FinishedWith(key) : StatusClass(request[s].status) = c}
      BY <1>13, <1>15
    <3>3. \A i \in DOMAIN Buckets :
             {s \in FinishedWith(key) : DurationOf[s] <= Buckets[i]}'
                = {s \in FinishedWith(key) : DurationOf[s] <= Buckets[i]}
      BY <3>1
    <3> QED BY <2>1, <3>1, <3>2, <3>3 DEF RouteIsConserved
  <2>4. MetricsAreConserved'
    BY <1>9, <2>1, <2>2, <2>3 DEF HttpInv, MetricsAreConserved
  <2>5. MetricsStand'
    <3>1. ASSUME NEW s \in MeasuredRequests, Finished(s)', NormalKey(request'[s].target) \notin metrics.normal
          PROVE  Cardinality(metrics.normal) >= MaxRouteKeys
      <4>1. s \in Arrivals \ {r}
        BY <1>9, <2>1
      <4>2. Finished(s) /\ request'[s] = request[s]
        BY <1>6, <3>1, <4>1
      <4> QED BY <3>1, <4>2 DEF HttpInv, MetricsStand
    <3>2. /\ metrics \in MetricsRecords
          /\ IsFiniteSet(metrics.normal)
          /\ metrics.normal \subseteq DOMAIN metrics.routes
          /\ DOMAIN metrics.routes \subseteq metrics.normal \cup OverflowLabels
          /\ IsFiniteSet(RequestsOf(Snapshot(metrics).series))
          /\ AddsUp(Snapshot(metrics))
      BY DEF HttpInv, MetricsStand
    <3> QED BY <1>9, <2>1, <3>1, <3>2 DEF MetricsStand
  <2> QED BY <1>1, <1>6, <1>7, <2>4, <2>5 DEF HttpInv
<1>16. CASE measured
  <2> DEFINE normal == metrics.normal
             room == Cardinality(normal) < MaxRouteKeys
  <2>1. /\ MetricsStand /\ MetricsAreConserved /\ metrics \in MetricsRecords
        /\ key0 \in RouteKeys /\ DurationOf[r] \in Nat /\ MaxRouteKeys \in Nat
    <3>1. MetricsStand /\ MetricsAreConserved /\ metrics \in MetricsRecords
      BY DEF HttpInv, MetricsStand
    <3>2. key0 \in RouteKeys
      <4> DEFINE target == old.target
      <4>1. target \in TargetsOf[r]
        BY <1>2
      <4> HIDE DEF target
      <4>2. NormalKey(target) \in RouteKeys
        BY <4>1 DEF RouteKeys, AllTargets
      <4> QED BY <4>2 DEF target
    <3>3. DurationOf[r] \in Nat /\ MaxRouteKeys \in Nat
      BY DurationsAreTimes
    <3> QED BY <3>1, <3>2, <3>3
  <2>2. /\ label \in RouteLabels /\ Cardinality(normal) \in Nat
        /\ label = key0 <=> key0 \in normal \/ room
        /\ label # key0 => label \in OverflowLabels
        /\ key0 \notin OverflowLabels
        /\ \A k \in normal : k \notin OverflowLabels
    <3>1. label = RouteLabel(metrics, key0)
      OBVIOUS
    <3> HIDE DEF label, key0
    <3> QED BY <2>1, <3>1, LabelsOfKeys
  <2>3. /\ metrics' = RequestFinished(metrics, key0, status, DurationOf[r])
        /\ metrics'.inFlight = IF metrics.inFlight > 0 THEN metrics.inFlight - 1 ELSE 0
        /\ metrics'.peak = metrics.peak
        /\ metrics'.total = metrics.total + 1
        /\ metrics'.overflow = metrics.overflow + (IF label = key0 THEN 0 ELSE 1)
        /\ metrics'.errors = metrics.errors + (IF metrics.inFlight > 0 THEN 0 ELSE 1)
        /\ metrics'.normal = IF label = key0 THEN normal \cup {key0} ELSE normal
        /\ metrics'.routes = [k \in DOMAIN metrics.routes \cup {label} |->
               IF k = label THEN Counted(before, status, DurationOf[r]) ELSE metrics.routes[k]]
    BY <1>1, <1>16 DEF RequestFinished
  <2>4. metrics' = [inFlight |-> metrics'.inFlight, peak |-> metrics'.peak, total |-> metrics'.total,
                    overflow |-> metrics'.overflow, errors |-> metrics'.errors,
                    normal |-> metrics'.normal, routes |-> metrics'.routes]
    BY <2>3 DEF RequestFinished
  <2>5. before \in RouteRecords
    <3>1. label \in DOMAIN metrics.routes => metrics.routes[label] \in RouteRecords
      <4>1. metrics.routes \in UNION {[D -> RouteRecords] : D \in SUBSET RouteLabels}
        BY <2>1 DEF MetricsRecords, RouteTables
      <4> HIDE DEF label
      <4> QED BY <4>1
    <3> HIDE DEF label
    <3> QED BY <3>1, NoRequestsType
  <2> HIDE DEF label, before, key0
  <2>6. /\ metrics'.routes \in RouteTables
        /\ IsFiniteSet(RequestsOf(Snapshot(metrics').series))
        /\ AddsUp(Snapshot(metrics'))
    <3>1. /\ MetricsStand /\ label \in RouteLabels /\ status \in Nat /\ DurationOf[r] \in Nat
          /\ before \in RouteRecords
      BY <2>1, <2>2, <2>5
    <3> DEFINE after == metrics'
    <3>2. Grown(label, before, status, DurationOf[r], after)
      BY <2>3 DEF Grown, before
    <3> HIDE DEF after
    <3>3. /\ after.routes \in RouteTables
          /\ IsFiniteSet(RequestsOf(Snapshot(after).series))
          /\ AddsUp(Snapshot(after))
      BY ONLY <3>1, <3>2, SeriesGrow
    <3> QED BY <3>3 DEF after
  <2>7. metrics'.inFlight = Cardinality(In') /\ metrics.inFlight > 0
        /\ metrics'.inFlight \in Nat /\ metrics'.inFlight < metrics.inFlight
    <3>1. metrics.inFlight = Cardinality(In) /\ IsFiniteSet(In)
      BY <1>11, <2>1, CountsAreFinite DEF MetricsAreConserved
    <3>2. /\ Cardinality(In) \in Nat \ {0} /\ Cardinality(In \ {r}) = Cardinality(In) - 1
      BY <1>11, <1>16, <3>1, OneLess
    <3> HIDE DEF In
    <3> QED BY <1>11, <2>3, <3>1, <3>2
  <2>8. metrics'.total = Cardinality(Out')
    <3>1. metrics.total = Cardinality(Out) /\ IsFiniteSet(Out)
      BY <1>11, <2>1, CountsAreFinite DEF MetricsAreConserved
    <3>2. Cardinality(Out \cup {r}) = Cardinality(Out) + 1
      BY <1>11, <3>1, OneMore
    <3> HIDE DEF Out
    <3> QED BY <1>11, <1>16, <2>3, <3>1, <3>2
  <2>9. /\ IsFiniteSet(metrics'.normal) /\ Cardinality(metrics'.normal) <= MaxRouteKeys
        /\ Cardinality(metrics'.normal) \in Nat
        /\ Cardinality(normal) <= Cardinality(metrics'.normal)
        /\ normal \subseteq metrics'.normal /\ metrics'.normal \subseteq RouteKeys
    <3>1. /\ IsFiniteSet(normal) /\ Cardinality(normal) <= MaxRouteKeys /\ normal \subseteq RouteKeys
      BY <2>1 DEF MetricsStand, MetricsAreConserved, MetricsRecords
    <3>2. CASE label = key0 /\ key0 \notin normal
      <4>1. metrics'.normal = normal \cup {key0}
        BY <2>3, <3>2
      <4>2. IsFiniteSet(normal \cup {key0}) /\ Cardinality(normal \cup {key0}) = Cardinality(normal) + 1
        BY <3>1, <3>2, OneMore
      <4>3. Cardinality(normal) < MaxRouteKeys
        BY <2>2, <3>2
      <4> HIDE DEF normal
      <4> QED BY <2>1, <2>2, <3>1, <4>1, <4>2, <4>3
    <3>3. CASE label # key0 \/ key0 \in normal
      <4>1. metrics'.normal = normal
        BY <2>3, <3>3
      <4> QED BY <2>1, <2>2, <3>1, <4>1
    <3> QED BY <3>2, <3>3
  <2>10. label = key0 /\ key0 \notin normal => FinishedWith(key0) = {} /\ key0 \notin DOMAIN metrics.routes
    <3> SUFFICES ASSUME label = key0, key0 \notin normal
                 PROVE  FinishedWith(key0) = {} /\ key0 \notin DOMAIN metrics.routes
      OBVIOUS
    <3>1. ~(Cardinality(normal) >= MaxRouteKeys)
      BY <2>1, <2>2
    <3>2. \A s \in MeasuredRequests : ~(Finished(s) /\ NormalKey(request[s].target) = key0)
      BY <2>1, <3>1 DEF MetricsStand
    <3>3. key0 \notin DOMAIN metrics.routes
      BY <2>1, <2>2 DEF MetricsStand
    <3> QED BY <3>2, <3>3 DEF FinishedWith
  <2>11. metrics'.overflow = Cardinality(Over')
    <3>1. metrics.overflow = Cardinality(Over) /\ IsFiniteSet(Over)
      BY <1>11, <2>1, CountsAreFinite DEF MetricsAreConserved
    <3>2. r \notin Over
      BY <1>8
    <3>3. /\ NormalKey(request[r].target) = key0
          /\ \A s \in MeasuredRequests' :
                s = r \/ Finished(s)' = Finished(s)
      BY <1>6, <1>9 DEF key0
    <3>4. CASE label = key0
      <4>1. metrics'.normal = normal \cup {key0}
        BY <2>3, <3>4
      <4>2. \A s \in MeasuredRequests : Finished(s) /\ NormalKey(request[s].target) = key0 =>
                                           key0 \in normal
        BY <2>10, <3>4 DEF FinishedWith
      <4>3. Over' = Over
        BY <1>8, <1>9, <1>10, <3>3, <4>1, <4>2
      <4> HIDE DEF Over
      <4> QED BY <2>1, <2>3, <3>1, <3>4, <4>3 DEF MetricsRecords
    <3>5. CASE label # key0
      <4>1. metrics'.normal = normal /\ key0 \notin normal
        BY <2>2, <2>3, <3>5
      <4>2. Over' = Over \cup {r}
        BY <1>8, <1>9, <1>10, <1>16, <3>3, <4>1
      <4>3. Cardinality(Over \cup {r}) = Cardinality(Over) + 1
        BY <3>1, <3>2, OneMore
      <4> HIDE DEF Over
      <4> QED BY <2>3, <3>1, <3>5, <4>2, <4>3
    <3> QED BY <3>4, <3>5
  <2>12. ASSUME label = key0
         PROVE  /\ before.requests = Cardinality(FinishedWith(key0))
                /\ \A c \in StatusClasses : before.statuses[c] =
                      Cardinality({s \in FinishedWith(key0) : StatusClass(request[s].status) = c})
                /\ \A i \in DOMAIN Buckets : before.within[i] =
                      Cardinality({s \in FinishedWith(key0) : DurationOf[s] <= Buckets[i]})
    <3>1. CASE key0 \in normal
      <4>1. RouteIsConserved(key0) /\ key0 \in DOMAIN metrics.routes
        BY <2>1, <3>1 DEF MetricsAreConserved, MetricsStand
      <4>2. before = metrics.routes[key0]
        BY <2>12, <4>1 DEF before
      <4> QED BY <4>1, <4>2 DEF RouteIsConserved
    <3>2. CASE key0 \notin normal
      <4>1. FinishedWith(key0) = {} /\ before = NoRequests
        BY <2>10, <2>12, <3>2 DEF before
      <4> QED BY <4>1, NoRequestsType, FS_EmptySet
    <3> QED BY <3>1, <3>2
  <2>13. ASSUME NEW key \in metrics'.normal PROVE RouteIsConserved(key)'
    <3>1. CASE key = key0
      <4>1. label = key0
        BY <2>2, <2>3, <3>1
      <4>2. metrics'.routes[key0] = Counted(before, status, DurationOf[r])
        BY <2>3, <4>1
      <4> DEFINE route == Counted(before, status, DurationOf[r])
      <4>3. /\ route.requests = before.requests + 1
            /\ \A c \in StatusClasses :
                  route.statuses[c] = before.statuses[c] + IF StatusClass(status) = c THEN 1 ELSE 0
            /\ \A i \in DOMAIN Buckets : route.within[i]
                  = before.within[i] + IF DurationOf[r] <= Buckets[i] THEN 1 ELSE 0
        <5>1. status \in Nat /\ DurationOf[r] \in Nat /\ before \in RouteRecords
          BY <2>1, <2>5
        <5>2. route.requests = before.requests + 1
          BY DEF Counted
        <5>3. \A c \in StatusClasses :
                 route.statuses[c] = before.statuses[c] + IF StatusClass(status) = c THEN 1 ELSE 0
          BY ONLY <5>1, CountedAddsOne
        <5>4. \A i \in DOMAIN Buckets : route.within[i]
                 = before.within[i] + IF DurationOf[r] <= Buckets[i] THEN 1 ELSE 0
          BY ONLY <5>1, CountedAddsOne
        <5> HIDE DEF route
        <5> QED BY <5>2, <5>3, <5>4
      <4> HIDE DEF route
      <4>4. route.requests = Cardinality(FinishedWith(key)')
        <5>1. /\ FinishedWith(key)' = FinishedWith(key) \cup {r}
              /\ r \notin FinishedWith(key) /\ FinishedWith(key) \subseteq Arrivals
          BY <1>12, <1>16, <3>1
        <5> QED BY <2>12, <3>1, <4>1, <4>3, <5>1, CountsAreFinite, OneMore
      <4>5. ASSUME NEW c \in StatusClasses
            PROVE  route.statuses[c]
                      = Cardinality({s \in FinishedWith(key) : StatusClass(request[s].status) = c}')
        <5> DEFINE kept == {s \in FinishedWith(key) : StatusClass(request[s].status) = c}
        <5>1. /\ kept' = IF StatusClass(status) = c THEN kept \cup {r} ELSE kept
              /\ r \notin kept /\ kept \subseteq Arrivals
          BY <1>13, <1>16, <3>1
        <5>2. before.statuses[c] = Cardinality(kept)
          BY <2>12, <3>1, <4>1
        <5> HIDE DEF kept
        <5>3. IsFiniteSet(kept) /\ Cardinality(kept) \in Nat
          BY <5>1, CountsAreFinite
        <5>4. Cardinality(kept \cup {r}) = Cardinality(kept) + 1
          BY <5>1, <5>3, OneMore
        <5>5. route.statuses[c] = Cardinality(kept')
          BY <4>3, <5>1, <5>2, <5>3, <5>4
        <5> QED BY <5>5 DEF kept
      <4>6. ASSUME NEW i \in DOMAIN Buckets
            PROVE  route.within[i]
                      = Cardinality({s \in FinishedWith(key) : DurationOf[s] <= Buckets[i]}')
        <5> DEFINE kept == {s \in FinishedWith(key) : DurationOf[s] <= Buckets[i]}
        <5>1. /\ kept' = IF DurationOf[r] <= Buckets[i] THEN kept \cup {r} ELSE kept
              /\ r \notin kept /\ kept \subseteq Arrivals
          BY <1>14, <1>16, <3>1
        <5>2. before.within[i] = Cardinality(kept)
          BY <2>12, <3>1, <4>1
        <5> HIDE DEF kept
        <5>3. IsFiniteSet(kept) /\ Cardinality(kept) \in Nat
          BY <5>1, CountsAreFinite
        <5>4. Cardinality(kept \cup {r}) = Cardinality(kept) + 1
          BY <5>1, <5>3, OneMore
        <5>5. route.within[i] = Cardinality(kept')
          BY <4>3, <5>1, <5>2, <5>3, <5>4
        <5> QED BY <5>5 DEF kept
      <4>7. metrics'.routes[key] = route
        BY <3>1, <4>2 DEF route
      <4> QED BY <3>1, <4>4, <4>5, <4>6, <4>7 DEF RouteIsConserved
    <3>2. CASE key # key0
      <4>1. key \in normal
        BY <2>3, <3>2
      <4>2. RouteIsConserved(key) /\ key \in DOMAIN metrics.routes /\ key # label
        BY <2>1, <2>2, <3>2, <4>1 DEF MetricsAreConserved, MetricsStand
      <4>3. metrics'.routes[key] = metrics.routes[key]
        BY <2>3, <4>2
      <4>4. FinishedWith(key)' = FinishedWith(key)
        BY <1>12, <3>2
      <4>5. \A c \in StatusClasses :
               {s \in FinishedWith(key) : StatusClass(request[s].status) = c}'
                  = {s \in FinishedWith(key) : StatusClass(request[s].status) = c}
        BY <1>13, <3>2
      <4>6. \A i \in DOMAIN Buckets :
               {s \in FinishedWith(key) : DurationOf[s] <= Buckets[i]}'
                  = {s \in FinishedWith(key) : DurationOf[s] <= Buckets[i]}
        BY <4>4
      <4> QED BY <4>2, <4>3, <4>4, <4>5, <4>6 DEF RouteIsConserved
    <3> QED BY <3>1, <3>2
  <2>14. MetricsAreConserved'
    <3>1. /\ metrics.peak \in Nat /\ metrics.inFlight \in Nat /\ metrics.errors = 0
          /\ metrics.inFlight <= metrics.peak /\ metrics.peak <= Cardinality(MeasuredRequests)
      BY <2>1 DEF MetricsAreConserved, MetricsRecords
    <3>2. /\ metrics'.inFlight <= metrics'.peak
          /\ metrics'.peak <= Cardinality(MeasuredRequests') /\ metrics'.errors = 0
      <4>1. Cardinality(MeasuredRequests') = Cardinality(MeasuredRequests)
        BY <1>9
      <4> QED BY <2>3, <2>7, <3>1, <4>1
    <3> QED BY <2>7, <2>8, <2>9, <2>11, <2>13, <3>2 DEF MetricsAreConserved
  <2>15. metrics' \in MetricsRecords
    <3>1. /\ metrics'.inFlight \in Nat /\ metrics'.peak \in Nat /\ metrics'.total \in Nat
          /\ metrics'.overflow \in Nat /\ metrics'.errors \in Nat
      <4>1. /\ metrics.peak \in Nat /\ metrics.total \in Nat /\ metrics.overflow \in Nat
            /\ metrics.errors \in Nat
        BY <2>1 DEF MetricsRecords
      <4> QED BY <2>3, <2>7, <4>1
    <3> QED BY <2>4, <2>6, <2>9, <3>1 DEF MetricsRecords
  <2>16. /\ metrics'.normal \subseteq DOMAIN metrics'.routes
         /\ DOMAIN metrics'.routes \subseteq metrics'.normal \cup OverflowLabels
    <3>1. /\ normal \subseteq DOMAIN metrics.routes
          /\ DOMAIN metrics.routes \subseteq normal \cup OverflowLabels
      BY <2>1 DEF MetricsStand
    <3> QED BY <2>2, <2>3, <2>9, <3>1
  <2>17. ASSUME NEW s \in MeasuredRequests', Finished(s)',
                NormalKey(request'[s].target) \notin metrics'.normal
         PROVE  Cardinality(metrics'.normal) >= MaxRouteKeys
    <3>1. CASE s = r
      <4>1. label # key0
        BY <1>5, <1>6, <2>3, <2>17, <3>1 DEF key0
      <4> QED BY <2>1, <2>2, <2>9, <4>1
    <3>2. CASE s # r
      <4>1. /\ s \in MeasuredRequests /\ Finished(s)
            /\ NormalKey(request[s].target) \notin normal
        BY <1>6, <1>9, <2>9, <2>17, <3>2
      <4>2. Cardinality(normal) >= MaxRouteKeys
        BY <2>1, <4>1 DEF MetricsStand
      <4> QED BY <2>1, <2>2, <2>9, <4>2
    <3> QED BY <3>1, <3>2
  <2>18. MetricsStand'
    BY <2>6, <2>9, <2>15, <2>16, <2>17 DEF MetricsStand
  <2> QED BY <1>1, <1>6, <1>7, <2>14, <2>18 DEF HttpInv
<1> QED BY <1>15, <1>16

-----------------------------------------------------------------------------
LEMMA HttpStepsKeep == HttpInv /\ [HttpNext]_httpVars => HttpInv'
<1> SUFFICES ASSUME HttpInv, [HttpNext]_httpVars PROVE HttpInv'
  OBVIOUS
<1>1. ASSUME NEW r \in Arrivals
      PROVE  /\ request[r] \in RequestRecords
             /\ request[r].status \in Nat
             /\ Inside(r) <=> request[r].phase \in {"handling", "replying"}
             /\ request[r].phase = "replying" => request[r].reply.status = request[r].status
  BY DEF HttpInv, RequestStands, RequestRecords, Inside
<1>2. ASSUME NEW r \in Arrivals, NEW target \in TargetsOf[r], Enters(r, target)
      PROVE  HttpInv'
  BY <1>2, EntersKeeps
<1>3. ASSUME NEW r \in Arrivals, request[r].phase = "handling",
             NEW status \in Statuses(request[r].target),
             NEW lines \in HandlerLogs(request[r], status), StartsReply(r, status, lines)
      PROVE  HttpInv'
  BY <1>3, StartsReplyKeeps
<1>4. ASSUME NEW r \in Arrivals, EndsReply(r)
      PROVE  HttpInv'
  <2> DEFINE status == request[r].status
  <2>1. /\ Leaves(r, request[r], "done", status) /\ status \in Nat /\ Inside(r)
        /\ request[r].reply.status = status
    BY <1>1, <1>4 DEF EndsReply
  <2> HIDE DEF status
  <2> QED BY <2>1, LeavesKeeps
<1>5. ASSUME NEW r \in Arrivals, Raises(r)
      PROVE  HttpInv'
  <2>1. Leaves(r, request[r], "raised", 500) /\ Inside(r)
    BY <1>5 DEF Raises, Inside
  <2> QED BY <2>1, LeavesKeeps
<1>6. ASSUME NEW r \in Arrivals, RepliesToError(r)
      PROVE  HttpInv'
  BY <1>6, RepliesToErrorKeeps
<1>7. ASSUME NEW r \in Arrivals, IsCancelled(r)
      PROVE  HttpInv'
  <2>1. Leaves(r, request[r], "done", 499) /\ Inside(r)
    BY <1>7 DEF IsCancelled, Inside
  <2> QED BY <2>1, LeavesKeeps
<1>8. CASE UNCHANGED httpVars
  <2>1. request' = request /\ metrics' = metrics /\ installed' = installed
    BY <1>8 DEF httpVars
  <2>2. \A r \in Arrivals : Inside(r)' = Inside(r) /\ Finished(r)' = Finished(r)
    BY <2>1 DEF Inside, Finished
  <2>3. \A r \in Arrivals : RequestStands(r)'
    BY <2>1, <2>2 DEF HttpInv, RequestStands
  <2>4. /\ MeasuredRequests' = MeasuredRequests /\ MeasuredRequests \subseteq Arrivals
        /\ \A key : FinishedWith(key)' = FinishedWith(key)
    BY <2>1, <2>2 DEF MeasuredRequests, FinishedWith
  <2>5. MetricsStand'
    BY <2>1, <2>2, <2>4 DEF HttpInv, MetricsStand, Snapshot
  <2>6. MetricsAreConserved'
    <3>1. ASSUME NEW key \in metrics.normal PROVE RouteIsConserved(key)'
      <4>1. RouteIsConserved(key) /\ FinishedWith(key)' = FinishedWith(key)
        BY <2>4 DEF HttpInv, MetricsAreConserved
      <4> QED BY <2>1, <4>1 DEF RouteIsConserved
    <3>2. /\ {r \in MeasuredRequests : Inside(r)}' = {r \in MeasuredRequests : Inside(r)}
          /\ {r \in MeasuredRequests : Finished(r)}' = {r \in MeasuredRequests : Finished(r)}
      BY <2>2, <2>4
    <3>3. {r \in MeasuredRequests :
               Finished(r) /\ NormalKey(request[r].target) \notin metrics.normal}'
          = {r \in MeasuredRequests :
               Finished(r) /\ NormalKey(request[r].target) \notin metrics.normal}
      BY <2>1, <2>2, <2>4
    <3> QED BY <2>1, <2>4, <3>1, <3>2, <3>3 DEF HttpInv, MetricsAreConserved
  <2> QED BY <2>1, <2>3, <2>5, <2>6 DEF HttpInv
<1> QED BY <1>2, <1>3, <1>4, <1>5, <1>6, <1>7, <1>8 DEF HttpNext

\* What stands accounts for every request.
LEMMA StandingAccounts == HttpInv => RequestsAreAccounted
<1> SUFFICES ASSUME HttpInv PROVE RequestsAreAccounted
  OBVIOUS
<1>1. ScrapesAddUp
  BY DEF HttpInv, RequestStands, AddsUp, ScrapesAddUp
<1>2. ASSUME NEW r \in Arrivals, NEW s \in Arrivals \ {r},
             request[r].id # Nothing, request[r].id = request[s].id
      PROVE  HeaderOf[r] = HeaderOf[s] /\ HeaderOf[r] \in SafeHeaders
  <2>1. request[r].id = SelectRequestId(r) /\ request[s].id = SelectRequestId(s)
    BY <1>2 DEF HttpInv, RequestStands
  <2>2. <<"req", r>> \notin SafeHeaders /\ <<"req", s>> \notin SafeHeaders
    BY HttpAssumption DEF Arrivals
  <2>3. <<"req", r>> # <<"req", s>>
    BY <1>2
  <2>4. SelectRequestId(r) = SelectRequestId(s)
    BY <1>2, <2>1
  <2> DEFINE own == <<"req", r>>
             other == <<"req", s>>
  <2>5. /\ SelectRequestId(r) = IF HeaderOf[r] \in SafeHeaders THEN HeaderOf[r] ELSE own
        /\ SelectRequestId(s) = IF HeaderOf[s] \in SafeHeaders THEN HeaderOf[s] ELSE other
    BY DEF SelectRequestId
  <2> HIDE DEF own, other
  <2> QED BY <2>2, <2>3, <2>4, <2>5 DEF own, other
<1>3. RequestsAreCorrelated
  BY <1>2 DEF HttpInv, RequestStands, RequestsAreCorrelated
<1> QED BY <1>1, <1>3 DEF HttpInv, RequestsAreAccounted

\* The counters agree with the requests that caused them, however those interleave, raise
\* or are cancelled; a client, the log and a refusal name one request by one id; and every
\* scrape adds up (request_started, request_finished, RuntimeObservabilityMiddleware).
THEOREM RequestsAlwaysAccounted == HttpInit /\ [][HttpNext]_httpVars => []RequestsAreAccounted
<1>1. HttpInit => HttpInv
  BY HttpStarts
<1>2. HttpInv /\ [HttpNext]_httpVars => HttpInv'
  BY HttpStepsKeep
<1>3. HttpInv => RequestsAreAccounted
  BY StandingAccounts
<1> QED BY <1>1, <1>2, <1>3, PTL

------------------------------------------------------------------------------
(* Indexing: what a run reports is what happened to the table               *)

\* What any table contains: rows of their document, or without one and then without a
\* fingerprint a run could look for.
SoundRow(id, row) ==
    \/ row = NoEntry
    \/ /\ row = Row(row.document, row.print)
       /\ row.document \in {DocumentOf(id), Nowhere}
       /\ row.document = Nowhere =>
             \A library \in Libraries, p \in Workers :
                id \in DOMAIN library => row.print # Fingerprint(p, library[id])

SoundTable(entries) ==
    /\ entries = [id \in ChunkIds |-> entries[id]]
    /\ \A id \in ChunkIds : SoundRow(id, entries[id])

\* What a table contains once the library is applied to it.
Wanted(p) ==
    [id \in ChunkIds |-> IF id \in DOMAIN worker[p].chunks
                         THEN Record(p, id, worker[p].chunks[id]) ELSE NoEntry]

WorkerPhases == {"none", "connecting", "preparing", "open", "failed", "read", "listed", "reported"}

WorkerStands(p) ==
    /\ worker[p] = [at |-> worker[p].at, chunks |-> worker[p].chunks, view |-> worker[p].view,
                    after |-> worker[p].after, report |-> worker[p].report]
    /\ worker[p].at \in {"read", "listed", "reported"} => worker[p].chunks \in Libraries
    /\ worker[p].at \in {"listed", "reported"} => SoundTable(worker[p].view)
    /\ worker[p].at = "reported" =>
          /\ worker[p].report = Report(p)
          /\ ~worker[p].after.disturbed => worker[p].after.rows = Wanted(p)

IndexingInv ==
    /\ DOMAIN table = Stores /\ DOMAIN worker = Workers
    /\ \A s \in Stores : SoundTable(table[s])
    /\ \A p \in Workers : WorkerStands(p)

\* Applied to what was listed, the difference makes the table that is wanted.
LEMMA AppliedIsWanted ==
    ASSUME NEW p \in Workers, worker[p].chunks \in Libraries, SoundTable(worker[p].view)
    PROVE  ApplyChanges(worker[p].view,
                        [id \in Changed(p) |-> Record(p, id, worker[p].chunks[id])], Stale(p))
             = Wanted(p)
<1> DEFINE records == [id \in Changed(p) |-> Record(p, id, worker[p].chunks[id])]
           view == worker[p].view
           chunks == worker[p].chunks
<1>1. DOMAIN chunks \subseteq ChunkIds
  BY IndexingAssumption
<1>2. DOMAIN records = Changed(p)
  OBVIOUS
<1>3. ASSUME NEW id \in ChunkIds
      PROVE  (IF id \in DOMAIN records THEN records[id] ELSE IF id \in Stale(p) THEN NoEntry ELSE view[id])
               = (IF id \in DOMAIN chunks THEN Record(p, id, chunks[id]) ELSE NoEntry)
  <2>1. CASE id \in Changed(p)
    BY <2>1, <1>2 DEF Changed
  <2>2. CASE id \in DOMAIN chunks /\ id \notin Changed(p)
    <3>1. view[id].print = Fingerprint(p, chunks[id]) /\ id \notin Stale(p)
      BY <2>2 DEF Changed, Stale
    <3>2. view[id] # NoEntry
      <4>1. Fingerprint(p, chunks[id]) # Nowhere
        BY <2>2, IndexingAssumption DEF Fingerprint
      <4>2. NoEntry.print = Nowhere
        BY DEF NoEntry, Row
      <4> QED BY <3>1, <4>1, <4>2
    <3>3. view[id] = Row(DocumentOf(id), Fingerprint(p, chunks[id]))
      <4>1. SoundRow(id, view[id])
        BY DEF SoundTable
      <4> QED BY <4>1, <3>1, <3>2, <2>2 DEF SoundRow
    <3> QED BY <3>1, <3>3, <2>2, <1>2 DEF Record
  <2>3. CASE id \notin DOMAIN chunks
    <3>1. id \notin Changed(p)
      BY <2>3 DEF Changed
    <3>2. id \in Stale(p) \/ view[id] = NoEntry
      BY <2>3 DEF Stale, Stored
    <3> QED BY <3>1, <3>2, <2>3, <1>2
  <2> QED BY <2>1, <2>2, <2>3
<1> QED BY <1>3 DEF ApplyChanges, Wanted

LEMMA WantedIsSound ==
    ASSUME NEW p \in Workers, worker[p].chunks \in Libraries
    PROVE  SoundTable(Wanted(p))
<1>1. ASSUME NEW id \in ChunkIds, NEW content
      PROVE  SoundRow(id, Record(p, id, content))
  BY IndexingAssumption DEF SoundRow, Record, Row
<1>2. ASSUME NEW id \in ChunkIds PROVE SoundRow(id, NoEntry)
  BY DEF SoundRow
<1>3. Wanted(p) = [id \in ChunkIds |-> Wanted(p)[id]]
  BY DEF Wanted
<1>4. ASSUME NEW id \in ChunkIds PROVE SoundRow(id, Wanted(p)[id])
  BY <1>1, <1>2 DEF Wanted
<1> QED BY <1>3, <1>4 DEF SoundTable

\* Whatever a run applies, the table stays sound.
LEMMA ChangesKeepSound ==
    ASSUME NEW entries, SoundTable(entries), NEW p \in Workers, NEW stale
    PROVE  SoundTable(ApplyChanges(entries, [id \in Changed(p) |-> Record(p, id, worker[p].chunks[id])], stale))
<1> DEFINE records == [id \in Changed(p) |-> Record(p, id, worker[p].chunks[id])]
           after == ApplyChanges(entries, records, stale)
<1>1. ASSUME NEW id \in ChunkIds, NEW content
      PROVE  SoundRow(id, Record(p, id, content))
  BY IndexingAssumption DEF SoundRow, Record, Row
<1>2. ASSUME NEW id \in ChunkIds PROVE SoundRow(id, NoEntry)
  BY DEF SoundRow
<1>3. after = [id \in ChunkIds |-> after[id]]
  BY DEF ApplyChanges
<1>4. ASSUME NEW id \in ChunkIds PROVE SoundRow(id, after[id])
  <2>1. after[id] = IF id \in DOMAIN records THEN records[id] ELSE IF id \in stale THEN NoEntry ELSE entries[id]
    BY DEF ApplyChanges
  <2>2. CASE id \in DOMAIN records
    BY <1>1, <2>1, <2>2
  <2>3. CASE id \notin DOMAIN records
    BY <1>2, <2>1, <2>3 DEF SoundTable
  <2> QED BY <2>2, <2>3
<1> QED BY <1>3, <1>4 DEF SoundTable

\* Elements that are placed are as many as the counts of the places add up to.
LEMMA PlacesAddUp ==
    ASSUME NEW D, NEW S, IsFiniteSet(S), NEW place \in [S -> D]
    PROVE  Cardinality(Numbered([d \in D |-> Cardinality({x \in S : place[x] = d})])) = Cardinality(S)
<1> DEFINE at(d) == {x \in S : place[x] = d}
           n == [d \in D |-> Cardinality(at(d))]
           order == [d \in D |-> CHOOSE f : f \in Bijection(1..Cardinality(at(d)), at(d))]
           g == [pair \in Numbered(n) |-> order[pair[1]][pair[2]]]
<1>1. ASSUME NEW d \in D
      PROVE  /\ n[d] \in Nat /\ n[d] = Cardinality(at(d))
             /\ order[d] \in [1..n[d] -> at(d)]
             /\ \A i, j \in 1..n[d] : order[d][i] = order[d][j] => i = j
             /\ \A x \in at(d) : \E i \in 1..n[d] : order[d][i] = x
  <2>1. IsFiniteSet(at(d))
    BY FS_Subset
  <2>2. Cardinality(at(d)) \in Nat /\ ExistsBijection(1..Cardinality(at(d)), at(d))
    BY <2>1, FS_CardinalityType
  <2>3. order[d] \in Bijection(1..n[d], at(d))
    BY <2>2 DEF ExistsBijection
  <2>4. n[d] \in Nat /\ n[d] = Cardinality(at(d))
    BY <2>2
  <2> HIDE DEF order, n, at
  <2> QED BY <2>3, <2>4 DEF Bijection, Injection, Surjection, IsInjective
<1>2. Numbered(n) = UNION {{d} \X (1..n[d]) : d \in D}
  BY DEF Numbered
<1>3. ASSUME NEW pair \in Numbered(n)
      PROVE  pair = <<pair[1], pair[2]>> /\ pair[1] \in D /\ pair[2] \in 1..n[pair[1]]
  <2> HIDE DEF n
  <2>1. PICK d \in D : pair \in {d} \X (1..n[d])
    BY <1>2
  <2> QED BY <2>1
<1>4. g \in Injection(Numbered(n), S)
  <2>1. ASSUME NEW pair \in Numbered(n)
        PROVE  /\ g[pair] = order[pair[1]][pair[2]]
               /\ g[pair] \in at(pair[1]) /\ g[pair] \in S /\ place[g[pair]] = pair[1]
    <3>1. pair[1] \in D /\ pair[2] \in 1..n[pair[1]] /\ g[pair] = order[pair[1]][pair[2]]
      BY <1>3
    <3>2. g[pair] \in at(pair[1])
      <4> HIDE DEF order, n, g, at
      <4> QED BY <3>1, <1>1
    <3> QED BY <3>1, <3>2
  <2>2. ASSUME NEW a \in Numbered(n), NEW b \in Numbered(n), g[a] = g[b] PROVE a = b
    <3>1. a[1] = b[1]
      <4>1. place[g[a]] = a[1] /\ place[g[b]] = b[1]
        BY <2>1
      <4> HIDE DEF g
      <4> QED BY <4>1, <2>2
    <3>2. a[2] = b[2]
      <4>1. a[1] \in D /\ a[2] \in 1..n[a[1]] /\ b[2] \in 1..n[a[1]]
        BY <1>3, <3>1
      <4>2. order[a[1]][a[2]] = order[a[1]][b[2]]
        BY <2>1, <2>2, <3>1
      <4> HIDE DEF order, n, g, at
      <4> QED BY <1>1, <4>1, <4>2
    <3> QED BY <3>1, <3>2, <1>3
  <2>3. g \in [Numbered(n) -> S]
    BY <2>1
  <2> HIDE DEF g
  <2> QED BY <2>2, <2>3 DEF Injection, IsInjective
<1>5. g \in Surjection(Numbered(n), S)
  <2>1. ASSUME NEW x \in S PROVE \E pair \in Numbered(n) : g[pair] = x
    <3>1. place[x] \in D /\ x \in at(place[x])
      OBVIOUS
    <3>2. PICK i \in 1..n[place[x]] : order[place[x]][i] = x
      BY <1>1, <3>1
    <3>3. <<place[x], i>> \in Numbered(n)
      BY <1>2, <3>1, <3>2
    <3> WITNESS <<place[x], i>> \in Numbered(n)
    <3> HIDE DEF order, n
    <3> QED BY <3>2, <3>3
  <2>2. g \in [Numbered(n) -> S]
    BY <1>4 DEF Injection
  <2> HIDE DEF g
  <2> QED BY <2>1, <2>2 DEF Surjection
<1>6. Cardinality(Numbered(n)) = Cardinality(S)
  <2> HIDE DEF n, g
  <2> QED BY <1>4, <1>5, FS_Injection
<1> QED BY <1>6

\* The report depends on the library and on what was listed, and on nothing else.
LEMMA ReportStands ==
    ASSUME NEW p \in Workers, worker'[p].chunks = worker[p].chunks, worker'[p].view = worker[p].view
    PROVE  Report(p)' = Report(p) /\ Wanted(p)' = Wanted(p)
<1>1. Changed(p)' = Changed(p)
  BY DEF Changed
<1>2. Stale(p)' = Stale(p)
  BY DEF Stale
<1>3. Documents(p)' = Documents(p)
  BY DEF Documents
<1>4. ASSUME NEW d PROVE WantedOf(p, d)' = WantedOf(p, d)
  BY DEF WantedOf
<1>5. ASSUME NEW d PROVE Status(p, d)' = Status(p, d)
  BY <1>4 DEF Status
<1>6. ASSUME NEW d PROVE DocumentResult(p, d)' = DocumentResult(p, d)
  BY <1>1, <1>2, <1>4, <1>5 DEF DocumentResult
<1>7. [d \in Documents(p) |-> DocumentResult(p, d)]' = [d \in Documents(p) |-> DocumentResult(p, d)]
  BY <1>3, <1>6
<1>8. Wanted(p)' = Wanted(p)
  BY DEF Wanted
<1>9. Report(p)' = Report(p)
  BY <1>1, <1>2, <1>7 DEF Report
<1> QED BY <1>8, <1>9

LEMMA IndexingStarts == IndexingInit => IndexingInv
<1> SUFFICES ASSUME IndexingInit PROVE IndexingInv
  OBVIOUS
<1>1. DOMAIN table = Stores /\ DOMAIN worker = Workers
  BY DEF IndexingInit
<1>2. ASSUME NEW s \in Stores PROVE SoundTable(table[s])
  <2>1. table[s] \in StoredEarlier \cup {EmptyTable}
    BY DEF IndexingInit
  <2>2. CASE table[s] = EmptyTable
    BY <2>2 DEF EmptyTable, SoundTable, SoundRow
  <2>3. CASE table[s] \in StoredEarlier
    BY <2>3, IndexingAssumption DEF SoundTable, SoundRow, Row, Fingerprint
  <2> QED BY <2>1, <2>2, <2>3
<1>3. ASSUME NEW p \in Workers PROVE WorkerStands(p)
  BY DEF IndexingInit, WorkerStands, Idle
<1> QED BY <1>1, <1>2, <1>3 DEF IndexingInv

\* A step of one worker: the others stand.
LEMMA WorkerMoves ==
    ASSUME IndexingInv, NEW p \in Workers, NEW state, worker' = [worker EXCEPT ![p] = state],
           WorkerStands(p)', DOMAIN table' = Stores, \A s \in Stores : SoundTable(table'[s])
    PROVE  IndexingInv'
<1>1. DOMAIN worker' = Workers
  BY DEF IndexingInv
<1>2. ASSUME NEW q \in Workers, q # p PROVE WorkerStands(q)'
  <2>1. worker'[q] = worker[q]
    BY <1>2
  <2>2. Report(q)' = Report(q) /\ Wanted(q)' = Wanted(q)
    BY <2>1, ReportStands
  <2>3. WorkerStands(q)
    BY DEF IndexingInv
  <2> QED BY <2>1, <2>2, <2>3 DEF WorkerStands
<1>3. \A q \in Workers : WorkerStands(q)'
  BY <1>2
<1>4. Stores' = Stores
  BY DEF Stores
<1> QED BY <1>1, <1>3, <1>4 DEF IndexingInv, SoundTable

LEMMA IndexingStays ==
    IndexingInv /\ [IndexingNext]_indexingVars => IndexingInv'
<1> SUFFICES ASSUME IndexingInv, [IndexingNext]_indexingVars PROVE IndexingInv'
  OBVIOUS
<1>1. CASE UNCHANGED indexingVars
  <2>1. \A p \in Workers : Report(p)' = Report(p) /\ Wanted(p)' = Wanted(p)
    BY <1>1, ReportStands DEF indexingVars
  <2>2. \A p \in Workers : WorkerStands(p)'
    BY <1>1, <2>1 DEF IndexingInv, WorkerStands, indexingVars
  <2> QED BY <1>1, <2>2 DEF IndexingInv, SoundTable, Stores, indexingVars
<1>2. ASSUME NEW p \in Workers, IndexingWorker(p) PROVE IndexingInv'
  <2> DEFINE w == worker[p]
  <2>1. WorkerStands(p) /\ DOMAIN worker = Workers /\ DOMAIN table = Stores
    BY DEF IndexingInv
  <2>2. Store(p) \in Stores /\ SoundTable(table[Store(p)])
    BY IndexingAssumption DEF IndexingInv, Store, Stores
  <2>3. SoundTable(EmptyTable)
    BY DEF EmptyTable, SoundTable, SoundRow
  <2>4. ASSUME NEW state, worker' = [worker EXCEPT ![p] = state], UNCHANGED table, WorkerStands(p)'
        PROVE  IndexingInv'
    BY <2>4, WorkerMoves DEF IndexingInv
  <2>5. ASSUME NEW phase \in WorkerPhases \ {"read", "listed", "reported"}, WorkerGoes(p, phase), UNCHANGED table
        PROVE  IndexingInv'
    <3>1. worker' = [worker EXCEPT ![p] = [w EXCEPT !.at = phase]]
      BY <2>5 DEF WorkerGoes
    <3>2. worker'[p] = [w EXCEPT !.at = phase]
      BY <3>1, <2>1
    <3>3. WorkerStands(p)'
      BY <3>2, <2>1 DEF WorkerStands, WorkerPhases
    <3> QED BY <3>1, <3>3, <2>4, <2>5
  <2>6. CASE \/ OpenIndexPool(p) \/ PoolIsReady(p) \/ SchemaIsReady(p) \/ OpenFails(p) \/ OpenMemory(p)
    BY <2>6, <2>5 DEF OpenIndexPool, PoolIsReady, SchemaIsReady, OpenFails, OpenMemory, WorkerPhases
  <2>7. CASE CloseIndex(p)
    <3>1. worker' = [worker EXCEPT ![p] = Idle] /\ worker'[p] = Idle
      BY <2>7, <2>1 DEF CloseIndex
    <3>2. WorkerStands(p)'
      BY <3>1 DEF WorkerStands, Idle
    <3>3. DOMAIN table' = Stores /\ \A s \in Stores : SoundTable(table'[s])
      BY <2>7, <2>1, <2>3 DEF CloseIndex, IndexingInv
    <3> QED BY <3>1, <3>2, <3>3, WorkerMoves
  <2>8. ASSUME NEW library \in Libraries, ReadDirectory(p, library) PROVE IndexingInv'
    <3> DEFINE state == [Idle EXCEPT !.at = IF DOMAIN library = {} THEN "failed" ELSE "read", !.chunks = library]
    <3>1. worker' = [worker EXCEPT ![p] = state] /\ worker'[p] = state
      BY <2>8, <2>1 DEF ReadDirectory
    <3>2. worker'[p] = [at |-> IF DOMAIN library = {} THEN "failed" ELSE "read", chunks |-> library,
                        view |-> <<>>, after |-> <<>>, report |-> <<>>]
      BY <3>1 DEF Idle
    <3>3. WorkerStands(p)'
      <4> HIDE DEF state
      <4>1. worker'[p].at \in {"failed", "read"} /\ worker'[p].chunks = library
        BY <3>2
      <4>2. worker'[p] = [at |-> worker'[p].at, chunks |-> worker'[p].chunks, view |-> worker'[p].view,
                         after |-> worker'[p].after, report |-> worker'[p].report]
        BY <3>2
      <4> QED BY <4>1, <4>2 DEF WorkerStands
    <3> HIDE DEF state
    <3> QED BY <2>8, <3>1, <3>3, <2>4 DEF ReadDirectory
  <2>9. CASE ListStored(p)
    <3> DEFINE state == [w EXCEPT !.at = "listed", !.view = table[Store(p)]]
    <3>1. worker' = [worker EXCEPT ![p] = state] /\ worker'[p] = state
      BY <2>9, <2>1 DEF ListStored
    <3>2. WorkerStands(p)'
      BY <2>9, <3>1, <2>1, <2>2 DEF WorkerStands, ListStored, At, SoundTable
    <3> QED BY <2>9, <3>1, <3>2, <2>4 DEF ListStored
  <2>10. CASE EmbeddingFails(p) \/ ApplyFails(p)
    <3> DEFINE state == [Idle EXCEPT !.at = "failed"]
    <3>1. worker' = [worker EXCEPT ![p] = state] /\ worker'[p] = state /\ UNCHANGED table
      BY <2>10, <2>1 DEF EmbeddingFails, ApplyFails
    <3>2. WorkerStands(p)'
      BY <3>1 DEF WorkerStands, Idle
    <3> QED BY <3>1, <3>2, <2>4
  <2>11. CASE Apply(p)
    <3> DEFINE records == [id \in Changed(p) |-> Record(p, id, worker[p].chunks[id])]
               entries == ApplyChanges(table[Store(p)], records, Stale(p))
               state == [at |-> "reported", chunks |-> w.chunks, view |-> w.view, report |-> Report(p),
                         after |-> [rows |-> entries, disturbed |-> table[Store(p)] # w.view]]
    <3>1. worker' = [worker EXCEPT ![p] = state] /\ worker'[p] = state
      BY <2>11, <2>1 DEF Apply
    <3>2. table' = [table EXCEPT ![Store(p)] = entries] /\ w.at = "listed"
      BY <2>11 DEF Apply, At
    <3>3. w.chunks \in Libraries /\ SoundTable(w.view)
      BY <3>2, <2>1 DEF WorkerStands
    <3>4. SoundTable(entries)
      BY <2>2, ChangesKeepSound
    <3>5. Report(p)' = Report(p) /\ Wanted(p)' = Wanted(p)
      <4> HIDE DEF entries
      <4>1. worker'[p].chunks = worker[p].chunks /\ worker'[p].view = worker[p].view
        BY <3>1
      <4> QED BY <4>1, ReportStands
    <3>6. table[Store(p)] = w.view => entries = Wanted(p)
      BY <3>3, AppliedIsWanted
    <3>7. SoundTable(w.view)'
      BY <3>3, <3>1 DEF SoundTable
    <3>8. WorkerStands(p)'
      <4> HIDE DEF entries
      <4>1. /\ worker'[p].at = "reported" /\ worker'[p].chunks = w.chunks /\ worker'[p].view = w.view
            /\ worker'[p].report = Report(p)' /\ worker'[p].after.rows = entries
            /\ worker'[p].after.disturbed = (table[Store(p)] # w.view)
            /\ worker'[p] = [at |-> worker'[p].at, chunks |-> worker'[p].chunks, view |-> worker'[p].view,
                             after |-> worker'[p].after, report |-> worker'[p].report]
        BY <3>1, <3>5
      <4>2. ~worker'[p].after.disturbed => worker'[p].after.rows = Wanted(p)'
        BY <4>1, <3>5, <3>6
      <4>3. SoundTable(worker'[p].view)
        BY <4>1, <3>3
      <4> QED BY <4>1, <4>2, <4>3, <3>3 DEF WorkerStands, SoundTable
    <3>9. DOMAIN table' = Stores /\ \A s \in Stores : SoundTable(table'[s])
      <4> HIDE DEF entries
      <4> QED BY <3>2, <3>4, <2>1, <2>2 DEF IndexingInv
    <3> HIDE DEF entries, state
    <3> QED BY <3>1, <3>8, <3>9, WorkerMoves
  <2> QED BY <1>2, <2>6, <2>7, <2>8, <2>9, <2>10, <2>11 DEF IndexingWorker
<1> QED BY <1>1, <1>2 DEF IndexingNext

\* The row a document's chunk has afterwards differs from the one listed when its
\* fingerprint does.
LEMMA ChangedRows ==
    ASSUME NEW p \in Workers, worker[p].chunks \in Libraries, SoundTable(worker[p].view),
           NEW id \in DOMAIN worker[p].chunks
    PROVE  /\ id \in ChunkIds /\ Wanted(p)[id] # NoEntry
           /\ Wanted(p)[id].document = DocumentOf(id)
           /\ Wanted(p)[id].print = Fingerprint(p, worker[p].chunks[id])
           /\ Wanted(p)[id] = Row(DocumentOf(id), Fingerprint(p, worker[p].chunks[id]))
           /\ worker[p].view[id].print = Fingerprint(p, worker[p].chunks[id])
                <=> worker[p].view[id] = Wanted(p)[id]
<1> DEFINE view == worker[p].view
           chunks == worker[p].chunks
<1>1. id \in ChunkIds /\ Fingerprint(p, chunks[id]) # Nowhere /\ DocumentOf(id) # Nowhere
  BY IndexingAssumption DEF Fingerprint
<1>2. Wanted(p)[id] = Row(DocumentOf(id), Fingerprint(p, chunks[id]))
  BY <1>1 DEF Wanted, Record
<1>3. /\ Wanted(p)[id].print = Fingerprint(p, chunks[id]) /\ Wanted(p)[id] # NoEntry
      /\ Wanted(p)[id].document = DocumentOf(id)
  BY <1>1, <1>2 DEF Row, NoEntry
<1>4. ASSUME view[id].print = Fingerprint(p, chunks[id]) PROVE view[id] = Wanted(p)[id]
  <2>1. SoundRow(id, view[id])
    BY <1>1 DEF SoundTable
  <2>2. view[id] # NoEntry
    BY <1>1, <1>4 DEF NoEntry, Row
  <2> QED BY <2>1, <2>2, <1>2, <1>4 DEF SoundRow
<1> QED BY <1>1, <1>2, <1>3, <1>4

\* What ReportIsTrue says of one document, and what the totals need.
Reported(p, d, after, result) ==
    LET before == worker[p].view
        old == DocumentRows(before, d)
        new == DocumentRows(after, d)
    IN /\ result.status = "unchanged" <=> old = new
       /\ result.status = "added" <=> DOMAIN old = {}
       /\ result.status = "deleted" <=> DOMAIN new = {}
       /\ result.chunks = Cardinality(DOMAIN new)
       /\ result.upserted = Cardinality({id \in DOMAIN new : after[id] # before[id]})
       /\ result.deleted = Cardinality(DOMAIN old \ DOMAIN new)
       /\ DOMAIN old = RowsOf(before, d) /\ DOMAIN new = WantedOf(p, d)
       /\ result.chunks = Cardinality(WantedOf(p, d))
       /\ result.upserted = Cardinality(Changed(p) \cap WantedOf(p, d))

LEMMA DocumentReported ==
    ASSUME NEW p \in Workers, worker[p].chunks \in Libraries, SoundTable(worker[p].view),
           NEW d \in Documents(p), NEW after, after = Wanted(p),
           NEW result, result = DocumentResult(p, d)
    PROVE  Reported(p, d, after, result)
<1> DEFINE view == worker[p].view
           chunks == worker[p].chunks
           wanted == WantedOf(p, d)
           before == RowsOf(view, d)
           old == DocumentRows(view, d)
           new == DocumentRows(after, d)
<1>1. DOMAIN chunks \subseteq ChunkIds
  BY IndexingAssumption
<1>2. Stored(after) = DOMAIN chunks
  <2>1. \A id \in DOMAIN chunks : after[id] # NoEntry
    BY ChangedRows
  <2>2. \A id \in ChunkIds \ DOMAIN chunks : after[id] = NoEntry
    BY DEF Wanted
  <2> QED BY <1>1, <2>1, <2>2 DEF Stored
<1>3. \A id \in DOMAIN chunks : Origin(after, id) = DocumentOf(id)
  <2> SUFFICES ASSUME NEW id \in DOMAIN chunks PROVE Origin(after, id) = DocumentOf(id)
    OBVIOUS
  <2>1. after[id].document = DocumentOf(id)
    BY ChangedRows
  <2>2. DocumentOf(id) # Nowhere
    BY <1>1, IndexingAssumption
  <2> QED BY <2>1, <2>2 DEF Origin
<1>4. RowsOf(after, d) = wanted
  BY <1>2, <1>3 DEF RowsOf, WantedOf
<1>5. DOMAIN old = before /\ DOMAIN new = wanted
  BY <1>4 DEF DocumentRows
<1>6. wanted # {} \/ before # {}
  BY DEF Documents, WantedOf, RowsOf
<1>7. \A id \in wanted : view[id].print = Fingerprint(p, chunks[id]) <=> view[id] = after[id]
  BY ChangedRows DEF WantedOf
<1>8. old = new <=> before = wanted /\ \A id \in wanted : view[id] = after[id]
  <2>1. old = [id \in before |-> view[id]] /\ new = [id \in wanted |-> after[id]]
    BY <1>4 DEF DocumentRows
  <2>2. ASSUME before = wanted, \A id \in wanted : view[id] = after[id] PROVE old = new
    <3> HIDE DEF old, new, before, wanted, view
    <3> QED BY <2>1, <2>2
  <2>3. ASSUME old = new PROVE before = wanted /\ \A id \in wanted : view[id] = after[id]
    <3>1. before = wanted
      BY <1>5, <2>3
    <3>2. ASSUME NEW id \in wanted PROVE old[id] = view[id] /\ new[id] = after[id]
      <4> HIDE DEF old, new, before, wanted, view
      <4> QED BY <2>1, <3>1
    <3> HIDE DEF old, new, before, wanted, view
    <3> QED BY <3>1, <3>2, <2>3
  <2> HIDE DEF old, new, before, wanted, view
  <2> QED BY <2>2, <2>3
<1>9. result.status = Status(p, d) /\ result.chunks = Cardinality(wanted)
      /\ result.upserted = Cardinality(Changed(p) \cap wanted)
      /\ result.deleted = IF wanted = {} THEN Cardinality(before) ELSE Cardinality(Stale(p) \cap before)
  BY DEF DocumentResult
<1>10. /\ Status(p, d) = "unchanged" <=> old = new
       /\ Status(p, d) = "added" <=> before = {}
       /\ Status(p, d) = "deleted" <=> wanted = {}
  <2>1. Status(p, d) = IF wanted = {} THEN "deleted" ELSE IF before = {} THEN "added"
                       ELSE IF before = wanted /\ \A id \in wanted : view[id] = after[id]
                            THEN "unchanged" ELSE "updated"
    <3>1. Status(p, d) = IF wanted = {} THEN "deleted" ELSE IF before = {} THEN "added"
                         ELSE IF before = wanted /\ \A id \in wanted : view[id].print = Fingerprint(p, chunks[id])
                              THEN "unchanged" ELSE "updated"
      BY DEF Status
    <3> HIDE DEF wanted, before, view, chunks
    <3> QED BY <3>1, <1>7
  <2> HIDE DEF old, new, before, wanted, view
  <2> QED BY <2>1, <1>6, <1>8
<1>11. Changed(p) \cap wanted = {id \in wanted : after[id] # view[id]}
  BY <1>7 DEF Changed, WantedOf
<1>12. before \ wanted = IF wanted = {} THEN before ELSE Stale(p) \cap before
  <2>1. CASE wanted # {}
    <3>1. PICK other \in DOMAIN chunks : DocumentOf(other) = d
      BY <2>1 DEF WantedOf
    <3>2. ASSUME NEW id \in before, id \in DOMAIN chunks PROVE id \in wanted
      <4>1. id \in ChunkIds /\ Origin(view, id) = d /\ view[id] # NoEntry
        BY <3>2 DEF RowsOf, Stored
      <4>2. view[id].document = d
        <5>1. d # <<"orphan", id>>
          BY <3>1, <4>1, <1>1, IndexingAssumption
        <5> QED BY <4>1, <5>1 DEF Origin
      <4>3. d # Nowhere
        BY <3>1, <1>1, IndexingAssumption
      <4>4. SoundRow(id, view[id])
        BY <4>1 DEF SoundTable
      <4>5. DocumentOf(id) = d
        BY <4>1, <4>2, <4>3, <4>4 DEF SoundRow
      <4> QED BY <4>5, <3>2 DEF WantedOf
    <3>3. before \subseteq Stored(view) /\ wanted \subseteq DOMAIN chunks
      BY DEF RowsOf, WantedOf
    <3> QED BY <2>1, <3>2, <3>3 DEF Stale
  <2> QED BY <2>1
<1>13. /\ result.status = "unchanged" <=> old = new
       /\ result.status = "added" <=> DOMAIN old = {}
       /\ result.status = "deleted" <=> DOMAIN new = {}
       /\ result.chunks = Cardinality(DOMAIN new)
       /\ result.upserted = Cardinality({id \in DOMAIN new : after[id] # view[id]})
       /\ result.deleted = Cardinality(DOMAIN old \ DOMAIN new)
       /\ DOMAIN old = before /\ DOMAIN new = wanted
       /\ result.chunks = Cardinality(wanted)
       /\ result.upserted = Cardinality(Changed(p) \cap wanted)
  <2> HIDE DEF old, new, before, wanted, view, chunks
  <2> QED BY <1>5, <1>9, <1>10, <1>11, <1>12
<1> QED BY <1>13 DEF Reported

\* A run whose listing was still true when it wrote reports the truth.
LEMMA ReportsTrue == IndexingInv => ReportIsTrue
<1> SUFFICES ASSUME IndexingInv, NEW p \in Workers, At(p, "reported"), ~worker[p].after.disturbed
             PROVE  LET before == worker[p].view
                        after == worker[p].after.rows
                        report == worker[p].report
                        Told(field) == Cardinality(Numbered([d \in DOMAIN report.documents |->
                                                               report.documents[d][field]]))
                        adopted == {id \in Stored(after) \cap Stored(before) :
                                       before[id].document = Nowhere /\ after[id].document # Nowhere}
                    IN /\ \A d \in DOMAIN report.documents :
                             LET result == report.documents[d]
                                 old == DocumentRows(before, d)
                                 new == DocumentRows(after, d)
                             IN /\ result.status = "unchanged" <=> old = new
                                /\ result.status = "added" <=> DOMAIN old = {}
                                /\ result.status = "deleted" <=> DOMAIN new = {}
                                /\ result.chunks = Cardinality(DOMAIN new)
                                /\ result.upserted = Cardinality({id \in DOMAIN new : after[id] # before[id]})
                                /\ result.deleted = Cardinality(DOMAIN old \ DOMAIN new)
                       /\ {Origin(after, id) : id \in Stored(after)} \subseteq DOMAIN report.documents
                       /\ report.upserted = Told("upserted")
                       /\ report.deleted + Cardinality(adopted) = Told("deleted")
                       /\ report.total = Told("chunks") /\ report.total = Cardinality(Stored(after))
                       /\ report.snapshot = Prints(after)
                       /\ table[Store(p)] = after =>
                              \A problem \in Range(SnapshotProblems(p)) : problem = {}
  BY DEF ReportIsTrue
<1> DEFINE before == worker[p].view
           after == worker[p].after.rows
           chunks == worker[p].chunks
           report == worker[p].report
           number(field) == [d \in Documents(p) |-> report.documents[d][field]]
           adopted == {id \in Stored(after) \cap Stored(before) :
                          before[id].document = Nowhere /\ after[id].document # Nowhere}
<1>1. /\ chunks \in Libraries /\ SoundTable(before) /\ report = Report(p) /\ after = Wanted(p)
  BY DEF IndexingInv, WorkerStands, At
<1>2. DOMAIN chunks \subseteq ChunkIds /\ IsFiniteSet(DOMAIN chunks) /\ IsFiniteSet(ChunkIds)
  BY <1>1, IndexingAssumption, FS_Subset
<1>3. /\ DOMAIN report.documents = Documents(p)
      /\ \A d \in Documents(p) : report.documents[d] = DocumentResult(p, d)
  BY <1>1 DEF Report
<1>4. \A id \in DOMAIN chunks :
         /\ id \in ChunkIds /\ after[id] # NoEntry
         /\ after[id].document = DocumentOf(id) /\ after[id].print = Fingerprint(p, chunks[id])
  BY <1>1, ChangedRows
<1>5. Stored(after) = DOMAIN chunks
  <2>1. \A id \in ChunkIds \ DOMAIN chunks : after[id] = NoEntry
    BY <1>1 DEF Wanted
  <2> QED BY <1>2, <1>4, <2>1 DEF Stored
<1>6. \A id \in DOMAIN chunks : Origin(after, id) = DocumentOf(id) /\ DocumentOf(id) \in Documents(p)
  <2> SUFFICES ASSUME NEW id \in DOMAIN chunks
               PROVE  Origin(after, id) = DocumentOf(id) /\ DocumentOf(id) \in Documents(p)
    OBVIOUS
  <2>1. after[id].document = DocumentOf(id)
    BY <1>4
  <2>2. DocumentOf(id) # Nowhere
    BY <1>2, IndexingAssumption
  <2> QED BY <2>1, <2>2 DEF Origin, Documents
<1>7. \A d \in Documents(p) : DocumentRows(after, d) = DocumentRows(Wanted(p), d)
  BY <1>1
<1>8. ASSUME NEW d \in Documents(p) PROVE Reported(p, d, after, report.documents[d])
  <2>1. report.documents[d] = DocumentResult(p, d)
    BY <1>3
  <2> HIDE DEF after, report
  <2> QED BY <1>1, <2>1, DocumentReported
<1>9. number("upserted") = [d \in Documents(p) |-> Cardinality({x \in Changed(p) : [id \in Changed(p) |-> DocumentOf(id)][x] = d})]
  <2> SUFFICES ASSUME NEW d \in Documents(p)
               PROVE  report.documents[d].upserted = Cardinality({x \in Changed(p) : [id \in Changed(p) |-> DocumentOf(id)][x] = d})
    BY DEF number
  <2>1. report.documents[d].upserted = Cardinality(Changed(p) \cap WantedOf(p, d))
    BY <1>8 DEF Reported
  <2>2. {x \in Changed(p) : [id \in Changed(p) |-> DocumentOf(id)][x] = d} = Changed(p) \cap WantedOf(p, d)
    BY DEF Changed, WantedOf
  <2> QED BY <2>1, <2>2
<1>10. Cardinality(Changed(p)) = Cardinality(Numbered(number("upserted")))
  <2>1. IsFiniteSet(Changed(p))
    BY <1>2, FS_Subset DEF Changed
  <2>2. [id \in Changed(p) |-> DocumentOf(id)] \in [Changed(p) -> Documents(p)]
    BY <1>6 DEF Changed
  <2> HIDE DEF number
  <2> QED BY <2>1, <2>2, <1>9, PlacesAddUp
<1>11. number("chunks") = [d \in Documents(p) |-> Cardinality({x \in DOMAIN chunks : [id \in DOMAIN chunks |-> DocumentOf(id)][x] = d})]
  <2> SUFFICES ASSUME NEW d \in Documents(p)
               PROVE  report.documents[d].chunks = Cardinality({x \in DOMAIN chunks : [id \in DOMAIN chunks |-> DocumentOf(id)][x] = d})
    BY DEF number
  <2>1. report.documents[d].chunks = Cardinality(WantedOf(p, d))
    BY <1>8 DEF Reported
  <2>2. {x \in DOMAIN chunks : [id \in DOMAIN chunks |-> DocumentOf(id)][x] = d} = WantedOf(p, d)
    BY DEF WantedOf
  <2> QED BY <2>1, <2>2
<1>12. Cardinality(DOMAIN chunks) = Cardinality(Numbered(number("chunks")))
  <2> DEFINE ids == DOMAIN chunks
             document == [id \in ids |-> DocumentOf(id)]
  <2>1. document \in [ids -> Documents(p)] /\ IsFiniteSet(ids)
    BY <1>6, <1>2
  <2>2. number("chunks") = [d \in Documents(p) |-> Cardinality({x \in ids : document[x] = d})]
    BY <1>11
  <2>3. Cardinality(ids) = Cardinality(Numbered(number("chunks")))
    <3> HIDE DEF number, ids, document
    <3> QED BY <2>1, <2>2, PlacesAddUp
  <2> QED BY <2>3
<1> DEFINE gone == Stale(p) \cup adopted
           place == [id \in gone |-> Origin(before, id)]
<1>13. gone \subseteq Stored(before) /\ place \in [gone -> Documents(p)]
  BY DEF Stale, Documents
<1>14. ASSUME NEW d \in Documents(p) PROVE RowsOf(before, d) \ WantedOf(p, d) = {x \in gone : place[x] = d}
  <2>1. ASSUME NEW id \in RowsOf(before, d), id \notin WantedOf(p, d) PROVE id \in gone /\ place[id] = d
    <3>1. id \in Stored(before) /\ Origin(before, id) = d /\ id \in ChunkIds /\ before[id] # NoEntry
      BY <2>1 DEF RowsOf, Stored
    <3>2. CASE id \notin DOMAIN chunks
      BY <3>1, <3>2 DEF Stale
    <3>3. CASE id \in DOMAIN chunks
      <4>1. SoundRow(id, before[id]) /\ DocumentOf(id) # d
        BY <3>1, <3>3, <1>1, <2>1 DEF SoundTable, WantedOf
      <4>2. before[id].document = Nowhere
        BY <3>1, <4>1 DEF SoundRow, Origin
      <4>3. after[id].document # Nowhere
        BY <1>4, <3>1, <3>3, IndexingAssumption
      <4> QED BY <3>1, <3>3, <4>2, <4>3, <1>5
    <3> QED BY <3>2, <3>3
  <2>2. ASSUME NEW id \in gone, place[id] = d PROVE id \in RowsOf(before, d) /\ id \notin WantedOf(p, d)
    <3>1. id \in Stored(before) /\ Origin(before, id) = d /\ id \in ChunkIds
      BY <2>2, <1>13 DEF Stored
    <3>2. CASE id \in Stale(p)
      BY <3>1, <3>2 DEF RowsOf, Stale, WantedOf
    <3>3. CASE id \in adopted
      <4>1. d = <<"orphan", id>>
        BY <3>1, <3>3 DEF Origin
      <4>2. \A other \in DOMAIN chunks : DocumentOf(other) # d
        BY <4>1, <3>1, <1>2, IndexingAssumption
      <4> QED BY <3>1, <4>2 DEF RowsOf, WantedOf
    <3> QED BY <2>2, <3>2, <3>3
  <2> HIDE DEF gone, place
  <2> QED BY <2>1, <2>2
<1>15. number("deleted") = [d \in Documents(p) |-> Cardinality({x \in gone : place[x] = d})]
  <2> SUFFICES ASSUME NEW d \in Documents(p)
               PROVE  report.documents[d].deleted = Cardinality({x \in gone : place[x] = d})
    BY DEF number
  <2> HIDE DEF gone, place
  <2> QED BY <1>8, <1>14 DEF Reported
<1>16. Cardinality(gone) = Cardinality(Numbered(number("deleted")))
  <2>1. IsFiniteSet(gone)
    BY <1>2, <1>13, FS_Subset DEF Stored
  <2> HIDE DEF number, gone, place
  <2> QED BY <2>1, <1>13, <1>15, PlacesAddUp
<1>17. Cardinality(gone) = Cardinality(Stale(p)) + Cardinality(adopted)
  <2>1. Stale(p) \cap adopted = {} /\ Stale(p) \subseteq ChunkIds /\ adopted \subseteq ChunkIds
    BY <1>5 DEF Stale, Stored
  <2>2. IsFiniteSet(Stale(p)) /\ IsFiniteSet(adopted) /\ Cardinality({}) = 0
    BY <2>1, <1>2, FS_Subset, FS_EmptySet
  <2>3. Cardinality(Stale(p)) \in Nat /\ Cardinality(adopted) \in Nat
    BY <2>2, FS_CardinalityType
  <2>4. Cardinality(gone) = Cardinality(Stale(p)) + Cardinality(adopted) - Cardinality(Stale(p) \cap adopted)
    <3> HIDE DEF adopted
    <3> QED BY <2>2, FS_Union
  <2>5. Cardinality(Stale(p) \cap adopted) = 0
    BY <2>1, <2>2
  <2> HIDE DEF gone, adopted
  <2> QED BY <2>3, <2>4, <2>5
<1>18. /\ report.upserted = Cardinality(Changed(p)) /\ report.deleted = Cardinality(Stale(p))
       /\ report.total = Cardinality(DOMAIN chunks)
       /\ report.snapshot = [id \in DOMAIN chunks |-> Fingerprint(p, chunks[id])]
  BY <1>1 DEF Report
<1>19. report.snapshot = Prints(after)
  <2>1. \A id \in DOMAIN chunks : after[id].print = Fingerprint(p, chunks[id])
    BY <1>4
  <2>2. Prints(after) = [id \in DOMAIN chunks |-> after[id].print]
    BY <1>5 DEF Prints
  <2> HIDE DEF report, after, chunks
  <2> QED BY <1>18, <2>1, <2>2
<1>20. table[Store(p)] = after => \A problem \in Range(SnapshotProblems(p)) : problem = {}
  <2> SUFFICES ASSUME table[Store(p)] = after PROVE \A problem \in Range(SnapshotProblems(p)) : problem = {}
    OBVIOUS
  <2>1. \A id \in DOMAIN chunks : after[id].print = Fingerprint(p, chunks[id])
    BY <1>4
  <2>2. SnapshotProblems(p) = [missing |-> {}, unexpected |-> {}, mismatched |-> {}]
    <3> DEFINE wanted == [id \in DOMAIN chunks |-> Fingerprint(p, chunks[id])]
    <3>1. DOMAIN wanted = DOMAIN chunks /\ \A id \in DOMAIN wanted : after[id].print = wanted[id]
      BY <2>1
    <3>2. /\ DOMAIN wanted \ Stored(after) = {} /\ Stored(after) \ DOMAIN wanted = {}
          /\ {id \in DOMAIN wanted \cap Stored(after) : after[id].print # wanted[id]} = {}
      <4> HIDE DEF wanted, after
      <4> QED BY <3>1, <1>5
    <3> QED BY <3>2 DEF SnapshotProblems
  <2> QED BY <2>2 DEF Range
<1>21. {Origin(after, id) : id \in Stored(after)} \subseteq Documents(p)
  BY <1>5, <1>6
<1>22. /\ report.upserted = Cardinality(Numbered(number("upserted")))
       /\ report.deleted + Cardinality(adopted) = Cardinality(Numbered(number("deleted")))
       /\ report.total = Cardinality(Numbered(number("chunks"))) /\ report.total = Cardinality(Stored(after))
  <2> HIDE DEF number, gone, adopted, report, after
  <2> QED BY <1>5, <1>10, <1>12, <1>16, <1>17, <1>18
<1> HIDE DEF gone, place
<1> QED BY <1>3, <1>8, <1>19, <1>20, <1>21, <1>22 DEF Reported

\* What a finished run reports is what happened to the table, for any workers, libraries
\* and earlier rows, unless another worker wrote meanwhile (synchronize).
THEOREM ReportsStayTrue == IndexingSpec => []ReportIsTrue
<1>1. IndexingInit => IndexingInv
  BY IndexingStarts
<1>2. IndexingInv /\ [IndexingNext]_indexingVars => IndexingInv'
  BY IndexingStays
<1>3. IndexingInv => ReportIsTrue
  BY ReportsTrue
<1> QED BY <1>1, <1>2, <1>3, PTL DEF IndexingSpec

=============================================================================

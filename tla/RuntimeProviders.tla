---------------------------- MODULE RuntimeProviders ----------------------------
(***************************************************************************)
(* Preparing the PostgreSQL runtime of the agent: a process opens its pool  *)
(* for the state tables and one for the checkpoints, tests the schema,      *)
(* brings the checkpoint tables up to date under an advisory lock and hands *)
(* out the repositories, while administrators set the schema up and         *)
(* processes die.  Whatever fails on the way, the pools are asked to close,  *)
(* with one exception.                                                       *)
(*                                                                          *)
(* And, sharing no state with it, what one application process owns between *)
(* its start and its end: the vector index, the model client, its cache and *)
(* the web search.  The start may fail at any constructor, and each close    *)
(* may raise or be cancelled.                                                *)
(***************************************************************************)
EXTENDS Integers, FiniteSets, FiniteSetsExt

CONSTANTS
    Processes,      \* processes, each of which may prepare a runtime or set up the schema
    Nobody,           \* nobody
    LastMigration,  \* the last checkpoint migration this application knows
    MaxStarts       \* bound: preparations and setups in one behaviour

ASSUME ProvidersAssumption ==
    /\ Nobody \notin Processes
    /\ LastMigration \in Nat
    /\ MaxStarts \in Nat

VARIABLES
    schema,      \* agent_runtime: its version, and whether a table or column is missing
    schemaLock,  \* who holds the table of schema migrations
    applied,     \* checkpoint_migrations: how many rows each version has
    setupLock,   \* who holds the advisory lock
    process,     \* what each process is doing, and the pools it has open
    starts,      \* preparations and setups so far
    lifespan,    \* where _lifespan is
    owned        \* resources created and not yet asked to close

providerVars == <<schema, schemaLock, applied, setupLock, process, starts>>
lifespanVars == <<lifespan, owned>>

-----------------------------------------------------------------------------
SchemaVersion == 1
Migrations == 0 .. LastMigration
Pools == {"state", "checkpoints"}

Preparing == {"opened", "pinged", "connected", "validated", "migrating", "checking"}
Administering == {"creating", "locked"}
Ended == {"failed", "closed"}
Stages == {"idle", "prepared", "cleaning", "closing"} \cup Preparing \cup Administering \cup Ended

\* open: the pools not yet asked to close.  raised: closing one raised.  next: the
\* migration to apply.  absent: there was no schema when the setup began.
Process == [at : Stages, open : SUBSET Pools, raised : BOOLEAN,
            next : 0 .. LastMigration + 2, absent : BOOLEAN]
NewProcess == [at |-> "idle", open |-> {}, raised |-> FALSE, next |-> 0, absent |-> FALSE]

ProvidersTypeOK ==
    /\ schema \in [version : 0 .. SchemaVersion + 1, drifted : BOOLEAN]
    /\ schemaLock \in Processes \cup {Nobody}
    /\ applied \in [0 .. LastMigration + 1 -> Nat]
    /\ setupLock \in Processes \cup {Nobody}
    /\ process \in [Processes -> Process]
    /\ starts \in 0 .. MaxStarts

\* The highest version in checkpoint_migrations; an empty table counts as -1.
CurrentMigration == Max({-1} \cup {v \in DOMAIN applied : applied[v] > 0})

\* A database that is empty, half set up, current, or of a newer application.
ProvidersInit ==
    /\ schema \in [version : 0 .. SchemaVersion + 1, drifted : BOOLEAN]
    /\ schema.version = 0 => ~schema.drifted
    /\ \E v \in -1 .. LastMigration + 1 :
          applied = [w \in 0 .. LastMigration + 1 |-> IF w <= v THEN 1 ELSE 0]
    /\ schema.version = 0 => CurrentMigration = -1
    /\ schemaLock = Nobody
    /\ setupLock = Nobody
    /\ process = [p \in Processes |-> NewProcess]
    /\ starts = 0

Stage(p, stage) == process[p].at = stage
Moves(p, stage) == process' = [process EXCEPT ![p].at = stage]

Begins(p, row) ==
    /\ Stage(p, "idle")
    /\ starts < MaxStarts
    /\ starts' = starts + 1
    /\ process' = [process EXCEPT ![p] = row]

-----------------------------------------------------------------------------
(* Setting up the schema, in one transaction.  CREATE ... IF NOT EXISTS      *)
(* waits for a creation in flight and fails if that commits; who finds the   *)
(* tables waits for the lock on the table of migrations.                     *)

SetupBegins(p) ==
    /\ Begins(p, [NewProcess EXCEPT !.at = "creating", !.absent = schema.version = 0])
    /\ UNCHANGED <<schema, schemaLock, applied, setupLock>>

SetupLocks(p) ==
    /\ Stage(p, "creating")
    /\ schemaLock = Nobody
    /\ process[p].absent => schema.version = 0
    /\ schemaLock' = p
    /\ Moves(p, "locked")
    /\ UNCHANGED <<schema, applied, setupLock, starts>>

\* A newer schema and one that is not complete after the setup raise.
SetupCommits(p) ==
    /\ Stage(p, "locked")
    /\ schema.version <= SchemaVersion
    /\ ~schema.drifted
    /\ schema' = [schema EXCEPT !.version = SchemaVersion]
    /\ schemaLock' = Nobody
    /\ process' = [process EXCEPT ![p] = NewProcess]
    /\ UNCHANGED <<applied, setupLock, starts>>

SetupRollsBack(p) ==
    /\ process[p].at \in Administering
    /\ schemaLock' = IF schemaLock = p THEN Nobody ELSE schemaLock
    /\ process' = [process EXCEPT ![p] = NewProcess]
    /\ UNCHANGED <<schema, applied, setupLock, starts>>

-----------------------------------------------------------------------------
(* _postgres_runtime                                                         *)

OpenPool(p) ==
    /\ Begins(p, [NewProcess EXCEPT !.at = "opened", !.open = {"state"}])
    /\ UNCHANGED <<schema, schemaLock, applied, setupLock>>

\* The version must be the application's own; the tables are not looked at.
Supported == schema.version = SchemaVersion

Ping(p) ==
    /\ Stage(p, "opened")
    /\ Supported
    /\ Moves(p, "pinged")
    /\ UNCHANGED <<schema, schemaLock, applied, setupLock, starts>>

OpenCheckpoints(p) ==
    /\ Stage(p, "pinged")
    /\ process' = [process EXCEPT ![p].at = "connected", ![p].open = @ \cup {"checkpoints"}]
    /\ UNCHANGED <<schema, schemaLock, applied, setupLock, starts>>

ValidateSchema(p) ==
    /\ Stage(p, "connected")
    /\ Supported
    /\ Moves(p, "validated")
    /\ UNCHANGED <<schema, schemaLock, applied, setupLock, starts>>

\* Mutant: the migrations of a process begin where it found the tables.
LockAnyway(p) ==
    /\ Stage(p, "validated")
    /\ process' = [process EXCEPT ![p].at = "migrating", ![p].next = CurrentMigration + 1]
    /\ UNCHANGED <<schema, schemaLock, applied, setupLock, starts>>

\* The saver reads the version of the tables once it has the lock.
LockSetup(p) ==
    /\ Stage(p, "validated")
    /\ setupLock = Nobody
    /\ setupLock' = p
    /\ process' = [process EXCEPT ![p].at = "migrating", ![p].next = CurrentMigration + 1]
    /\ UNCHANGED <<schema, schemaLock, applied, starts>>

\* Each migration commits on its own.
Migrate(p) ==
    /\ Stage(p, "migrating")
    /\ process[p].next \in Migrations
    /\ applied' = [applied EXCEPT ![process[p].next] = @ + 1]
    /\ process' = [process EXCEPT ![p].next = @ + 1]
    /\ UNCHANGED <<schema, schemaLock, setupLock, starts>>

Unlocked(p) == IF setupLock = p THEN Nobody ELSE setupLock

UnlockSetup(p) ==
    /\ Stage(p, "migrating")
    /\ process[p].next \notin Migrations
    /\ setupLock' = Unlocked(p)
    /\ Moves(p, "checking")
    /\ UNCHANGED <<schema, schemaLock, applied, starts>>

\* status raises if the tables are newer than the application.
CheckStatus(p) ==
    /\ Stage(p, "checking")
    /\ CurrentMigration = LastMigration
    /\ Moves(p, "prepared")
    /\ UNCHANGED <<schema, schemaLock, applied, setupLock, starts>>

\* Mutant: the lock is released after the migrations only.
FailsLocked(p) ==
    /\ process[p].at \in Preparing
    /\ Moves(p, "cleaning")
    /\ UNCHANGED <<schema, schemaLock, applied, setupLock, starts>>

\* Another version of the schema, or newer checkpoint tables: the test raises.
Refused(p) ==
    /\ \/ process[p].at \in {"opened", "connected"} /\ ~Supported
       \/ Stage(p, "checking") /\ CurrentMigration # LastMigration
    /\ Moves(p, "cleaning")
    /\ UNCHANGED <<schema, schemaLock, applied, setupLock, starts>>

\* A lost connection, a timeout or a cancellation.
Fails(p) ==
    /\ process[p].at \in Preparing
    /\ setupLock' = Unlocked(p)
    /\ Moves(p, "cleaning")
    /\ UNCHANGED <<schema, schemaLock, applied, starts>>

-----------------------------------------------------------------------------
(* Giving back, after a failure ("cleaning") or by AgentRuntimeProviders     *)
(* ("closing"): first the pool of the checkpoints, then the pool of the      *)
(* state.  A close that raises ends the former and not the latter.           *)

Close(p) ==
    /\ Stage(p, "prepared")
    /\ Moves(p, "closing")
    /\ UNCHANGED <<schema, schemaLock, applied, setupLock, starts>>

EndOf(p) == IF Stage(p, "cleaning") THEN "failed" ELSE "closed"

\* Mutant: close ends with the first error as well.
SkipsStateAlways(p) == TRUE

\* Whether an error of the checkpoint pool leaves the state pool open.
SkipsState(p) == Stage(p, "cleaning")

CloseCheckpoints(p) ==
    /\ process[p].at \in {"cleaning", "closing"}
    /\ "checkpoints" \in process[p].open
    /\ \/ process' = [process EXCEPT ![p].open = @ \ {"checkpoints"}]
       \/ process' = [process EXCEPT
              ![p].open = @ \ {"checkpoints"}, ![p].raised = TRUE,
              ![p].at = IF SkipsState(p) THEN EndOf(p) ELSE @]
    /\ UNCHANGED <<schema, schemaLock, applied, setupLock, starts>>

CloseState(p) ==
    /\ process[p].at \in {"cleaning", "closing"}
    /\ process[p].open = {"state"}
    /\ \E raises \in BOOLEAN :
          process' = [process EXCEPT ![p].open = {}, ![p].at = EndOf(p),
                                     ![p].raised = @ \/ raises]
    /\ UNCHANGED <<schema, schemaLock, applied, setupLock, starts>>

\* PostgreSQL rolls back and releases what the process held.
Dies(p) ==
    /\ ~Stage(p, "idle")
    /\ schemaLock' = IF schemaLock = p THEN Nobody ELSE schemaLock
    /\ setupLock' = Unlocked(p)
    /\ process' = [process EXCEPT ![p] = NewProcess]
    /\ UNCHANGED <<schema, applied, starts>>

-----------------------------------------------------------------------------
PrepareStep(p) ==
    \/ Ping(p)
    \/ OpenCheckpoints(p)
    \/ ValidateSchema(p)
    \/ LockSetup(p)
    \/ Migrate(p)
    \/ UnlockSetup(p)
    \/ CheckStatus(p)
    \/ Refused(p)

ProviderStep(p) ==
    \/ SetupBegins(p)
    \/ SetupLocks(p)
    \/ SetupCommits(p)
    \/ SetupRollsBack(p)
    \/ OpenPool(p)
    \/ PrepareStep(p)
    \/ Fails(p)
    \/ Close(p)
    \/ CloseCheckpoints(p)
    \/ CloseState(p)
    \/ Dies(p)

ProvidersNext == \E p \in Processes : ProviderStep(p)

\* Every statement of a preparation ends, and who waits for the advisory lock gets it
\* when it is free; nothing makes a preparation fail.
ProvidersFairness == \A p \in Processes : WF_providerVars(PrepareStep(p))

ProvidersSpec == ProvidersInit /\ [][ProvidersNext]_providerVars /\ ProvidersFairness

-----------------------------------------------------------------------------
(* _lifespan                                                                 *)

Resources == {"vector", "llm", "cache", "web"}
LifespanStages ==
    {"down", "indexing", "connecting", "assembling", "building", "wiring", "serving",
     "closing", "interrupted", "stopped", "cut", "unbuilt", "unwired"}

LifespanTypeOK ==
    /\ lifespan \in LifespanStages
    /\ owned \subseteq Resources

LifespanInit ==
    /\ lifespan = "down"
    /\ owned = {}

Constructs(from, resource, to) ==
    /\ lifespan = from
    /\ lifespan' = to
    /\ owned' = owned \cup resource

\* _build_policy_answer_service: the vector index; then, under the handler, the policy
\* directory is synchronised and the model client connected, the cache opened, and the
\* service built on them.
CreateIndex == Constructs("down", {"vector"}, "indexing")
CreateLLMClient == Constructs("indexing", {"llm"}, "connecting")
CreateCache == Constructs("connecting", {"cache"}, "assembling")
BuildService == Constructs("assembling", {}, "building")

\* The handler closes the index, and the index alone.
BuildServiceFails ==
    /\ lifespan \in {"indexing", "connecting", "assembling"}
    /\ lifespan' = "unbuilt"
    /\ owned' = owned \ {"vector"}

\* Checkers, stores and the executor, then the web search, then the rest of the agent.
CreateWebSearch == Constructs("building", {"web"}, "wiring")
BuildAgent == Constructs("wiring", {}, "serving")

\* There is no handler here: a newer SQLite schema, say, gives nothing back.
BuildAgentFails ==
    /\ lifespan \in {"building", "wiring"}
    /\ lifespan' = "unwired"
    /\ UNCHANGED owned

Stop ==
    /\ lifespan = "serving"
    /\ lifespan' = "closing"
    /\ UNCHANGED owned

\* The closes are nested in finally clauses: whether the first one returns, raises or
\* is cancelled, the others follow.
CloseWeb ==
    /\ lifespan = "closing"
    /\ "web" \in owned
    /\ owned' = owned \ {"web"}
    /\ UNCHANGED lifespan

\* CachedLLMClient.close asks the cache, logs its error and asks the model client.  A
\* cancellation before or in one of them leaves it for the clause that closes the index.
CloseCached(resource) ==
    /\ lifespan = "closing"
    /\ \/ owned' = owned \ {resource} /\ UNCHANGED lifespan
       \/ /\ \E asked \in SUBSET {resource} : owned' = owned \ asked
          /\ lifespan' = "interrupted"

CloseCache == "web" \notin owned /\ "cache" \in owned /\ CloseCached("cache")
CloseLLM == owned = {"vector", "llm"} /\ CloseCached("llm")

CloseVectorIndex ==
    /\ lifespan = "interrupted" \/ (lifespan = "closing" /\ owned = {"vector"})
    /\ lifespan' = IF lifespan = "closing" THEN "stopped" ELSE "cut"
    /\ owned' = owned \ {"vector"}

LifespanNext ==
    \/ CreateIndex \/ CreateLLMClient \/ CreateCache \/ BuildService
    \/ BuildServiceFails
    \/ CreateWebSearch \/ BuildAgent
    \/ BuildAgentFails
    \/ Stop
    \/ CloseWeb \/ CloseCache \/ CloseLLM \/ CloseVectorIndex

LifespanSpec == LifespanInit /\ [][LifespanNext]_lifespanVars

-----------------------------------------------------------------------------
(* Properties                                                                *)

\* Who has been handed the repositories has both pools, the schema of this
\* application and every checkpoint migration, and no two processes that started
\* together have applied one twice (_postgres_runtime, setup).
PreparedIsComplete ==
    /\ \A v \in DOMAIN applied : applied[v] <= 1
    /\ \A p \in Processes : Stage(p, "prepared") =>
          /\ process[p].open = Pools
          /\ schema.version = SchemaVersion
          /\ \A v \in Migrations : applied[v] = 1

\* A runtime that was closed has asked both pools to close, even if the first one
\* raised.  A preparation that failed leaves at most the pool of the state open, and only
\* when closing the one of the checkpoints raised (close, and the except branch of
\* _postgres_runtime, which has no such care).
PoolsAreGivenBack ==
    \A p \in Processes :
        /\ Stage(p, "closed") => process[p].open = {}
        /\ Stage(p, "failed") =>
              process[p].open = {} \/ (process[p].open = {"state"} /\ process[p].raised)

\* A shutdown asks every resource to close; cancelled in the middle, it leaves at most the
\* model client and its cache.  A start that fails building the answers gives the index
\* back and leaves the client and the cache it has created; one that fails later leaves
\* all it has created (_lifespan, _build_policy_answer_service, CachedLLMClient.close).
LifespanGivesBack ==
    /\ lifespan = "stopped" => owned = {}
    /\ lifespan = "cut" => owned \subseteq {"llm", "cache"}
    /\ lifespan = "unbuilt" => owned \in {{}, {"llm"}, {"llm", "cache"}}
    /\ lifespan = "unwired" => owned \in {Resources \ {"web"}, Resources}

\* Of what a process and a runtime opened, this and no more is left when they have ended.
LeftOpenIsKnown == LifespanGivesBack /\ PoolsAreGivenBack

\* Nobody waits for ever for the advisory lock: every preparation ends (setup).
PreparationsEnd ==
    \A p \in Processes : process[p].at \in Preparing ~> process[p].at \notin Preparing
=============================================================================

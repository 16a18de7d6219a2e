# TLA+ models and proofs of the enterprise policy agent

This directory holds TLA+ models of the application: the PostgreSQL control plane
of the vector index, what every process does when it starts, serves requests and
shuts down, the limiter and the cache in front of the LLM provider, the workflow
that takes an application from draft to submission with its SQLite and PostgreSQL
stores, the rules and the retrieval that decide what a user is told, and the
offline experiments that measure them. TLC checks the models on small instances;
TLAPS proves the safety theorems for instances of any size: everything checked of the
control plane, of the PostgreSQL stores, of the start, of indexing and of the HTTP
service, of the workflow, the memory, the limiter and the cache, and most of what is
checked of routes, drafts, answers and experiments. Section 6 ends with what only TLC
checks.

Contents: [inventory](#1-inventory), [modules](#2-modules-and-how-they-map-to-the-code),
[runs](#3-runs-what-each-checks-and-its-bounds), [findings](#4-where-code-and-documents-disagree),
[fairness](#5-fairness), [proofs](#6-proofs), [not modelled](#7-what-is-not-modelled-and-why),
[plan](#8-plan).

## 1. Inventory

| Component | State | Operations | Talks to |
|---|---|---|---|
| Indexing lease (`rag/indexing_lease.py`, `scripts/index_policy_documents.py`) | one control row per collection: owner, token, fencing token, acquired/renewed/expires/released | acquire, heartbeat renew, guard of a write, release, status | locks the same control row as release and GC; reads release aliases |
| Document indexing (`rag/indexing.py`, `rag/pgvector_index.py`) | vector rows with fingerprint and update time | list entries, apply the difference (guarded or not) | called by the indexing command under a lease and by every application start without one |
| Collection release (`rag/collection_release.py`) | alias pointer (generation, active, previous, digest), append-only history | publish, rollback, resolve, status | pointer row lock, then control row lock of the target |
| Collection GC (`rag/collection_gc.py`, `scripts/manage_vector_collection_gc.py`) | one mark per collection | plan, mark, sweep, status | control row lock of the candidate; reads aliases and vectors |
| Application start (`main.py`) | the collection named in the settings | synchronise, serve, stop | writes vectors without a lease |
| LLM limiter (`llm/concurrency.py`) | permits in use, FIFO queue, closed flags, counters | chat, status, close | sits between the cache and the HTTP client; one event loop |
| LLM cache and single-flight (`cache/*.py`) | entries in Redis, registry of shared calls, closed flag | chat, close | calls the limiter |
| Provider preparation (`persistence/runtime_provider.py`, `postgres_schema.py`, `postgres_checkpointer.py`) | schema version, checkpoint migrations, advisory lock, pools of each process | set the schema up, prepare, close | PostgreSQL, several processes at once |
| Agent workflow (`agent/workflow.py`) | a graph checkpoint and a lock per session | run a turn, confirm/submit/cancel a draft, clear a session | checkpointer, state store, memory, submitter, tool executor |
| State stores (`persistence/*_runtime.py`) | session head (turn, phase, version, tombstone), draft revisions | save a turn, delete a session, read | SQLite: blind upsert; PostgreSQL: compare-and-swap |
| Submission (`tools/mock_approval_submission.py`, `persistence/*`) | receipts by idempotency key and by draft, audit records | submit (first or replay), list, get | called through the tool executor |
| Tool executor (`resilience/tool_execution.py`) | none | execute with timeout and bounded retry | abandons what it timed out |
| Conversation memory (`memory/conversation.py`, `persistence/*_memory.py`) | the latest messages of each session | append a turn, snapshot, clear | called at the end of each turn |
| Checkpointers (`persistence/*_checkpointer.py`) | checkpoints and writes by thread | put, put writes, list, delete thread | called by the graph runtime |
| Rules, materials, drafts (`tools/*.py`) | none; a text grows message by message | check, compare materials, generate, revise | read the policy documents' numbers |
| Documents and retrieval (`rag/*.py`, `research/*.py`) | the index; one request's results | load, cut, search, fuse, rerank, answer, search the web | index, LLM, access control |
| HTTP service (`api/*`, `observability/*`) | registry of metrics, request id of the context | enter, reply, raise, leave, scrape | wraps every route |
| Experiments (`evaluation/*`, `scripts/*retrieval*`, `scripts/*semantic*`) | frozen files, reports | freeze, load, measure, publish | repository under edit |
| LLM client, settings, probes, gate experiments | - | - | environment, or out of scope (section 7) |

The behaviours that make these hard, and the properties that make them correct:

* **Control plane.** Four kinds of processes write the same rows at READ
  COMMITTED. Tests and writes of one operation are separate statements, so what
  a statement found may be false when the next one runs. Only the control row's
  `FOR UPDATE` lock, the fencing token and the generation stand between them.
  `CURRENT_TIMESTAMP` is the time of `BEGIN`, so every expiry is tested against
  the past. Builders die and start again under the same owner. *Correct* means:
  a write belongs to the current generation; what an alias serves is the
  snapshot that was validated; what it can roll back to is intact as well; a
  sweep deletes exactly what was marked; the history tells the truth.
* **Starts.** Processes synchronise the same collection at once, without a lock.
  *Correct* means: whoever serves finds its corpus.
* **Limiter.** Tasks are woken in bulk and run again in any order, timers and
  cancellations strike tasks that are already runnable, and a close waits for
  all of them. *Correct* means: permits are conserved, no newcomer overtakes,
  nobody sleeps beside a free permit, close ends, and the upstream client is
  closed only when nobody uses it.
* **Cache and single-flight.** A shared call outlives the waiters that cancel, and
  is cancelled by shutdown while others run past it. *Correct* means: the registry
  names exactly the calls that run, and nobody's end is somebody else's.
* **Preparation and shutdown.** Processes migrate the same tables at once, fail at
  any statement and die. *Correct* means: who has been handed the repositories has
  all of them, and what was opened is closed.
* **Workflow, state and submission.** A turn writes a checkpoint, a session head
  and a memory record one after the other; a submission that timed out may still
  commit; a cleared session may have a request waiting on its old lock; several
  instances may hold one session in PostgreSQL. *Correct* means: one receipt per
  draft, nothing submitted that was not confirmed, a late writer never wins.
* **Requests.** Three independent readers (checker, material checker, generator)
  take numbers and cues from the same growing text, and parallel lists (pages,
  blocks, chunks, ranks) must stay aligned. *Correct* means: the route is the one
  the policy gives, a ready draft is complete, a citation is evidence, what the
  asker may not see has no influence.
* **HTTP service.** Requests interleave at each await, are cancelled before or after
  the reply has begun, and fail outside the middleware. *Correct* means: each is
  counted once under one label and every line it causes carries its id.
* **Experiments.** Files change between two reads and calls fail half way.
  *Correct* means: what is published was measured on what it names.

`PROJECT.json` lists every component with its status and every such hazard with
the line where it bites and the properties that watch it.

## 2. Modules and how they map to the code

```
 VectorTables -- IndexingLease, CollectionRelease, CollectionGC
      -- VectorControlPlane (INSTANCE ReleaseLog, abstract)
             -- VectorControlPlaneProofs
             -- VectorControlPlaneMC
             -- ApplicationStartup --+
 RuntimeProviders, HttpService ------+-- ApplicationProofs
 DocumentIndexing -------------------+-- ApplicationLifecycleMC
 ProviderLimiter -- ProviderLimiterProofs
 ApprovalWorkflow -- ApprovalWorkflowProofs
 LLMCache, CheckpointSaver, LocalSubmission, ConversationMemory -- AgentSessionsProofs
      (with ApprovalWorkflow) -- AgentSessionsMC
 PostgresPool -- PostgresSession, PostgresSubmission (INSTANCE ReceiptLedger, abstract)
      -- PostgresStores -- PostgresStoresProofs, PostgresStoresMC
 RequestText -- ApprovalRules, MaterialRules
      -- DraftRules (INSTANCE ApprovalPolicy, reference) --+
 PolicyDocuments -- PolicySearch -- PolicyAnswers ---------+-- AgentRequests
      PolicyAnswers -- RetrievalEvaluation
      AgentRequests -- ExperimentsProofs -- EvaluationProofs (with RetrievalEvaluation)
      AgentRequests, RetrievalEvaluation, SemanticContract, FacetSets -- ExperimentsMC
```

**VectorTables** declares the tables (`rows`, `lease`, `pointer`, `history`,
`mark`), the clock `now` and the two kinds of row locks, with what the
statements of every component read and write. A digest is modelled as the
manifest it digests: the code compares digests only for equality, and only of
manifests. The lease token and the fencing token are drawn together, so `fence`
stands for both; the mark token is a number for the same reason. A missing
control row behaves as a fresh one (`lock_indexing_lease_row` inserts it first).

**A transaction is several steps** of one client: `BEGIN` records the time every
later test uses, each statement whose answer can be overtaken is a step of its
own, and the writes appear in the step that commits. A row lock is a variable; a
step that needs a held lock is not enabled. Where several statements touch rows
that are locked already, or the transaction wrote nothing others read in
between, they are one step. Every transaction may fail at any point
(`AcquireFails`, `BuildFails`, `ReleaseAborts`, `GCAborts`); that action also
stands for each failed test, which in the code raises and rolls back.

**IndexingLease** is `MaintainedIndexingLease` around one build:
`AcquireBegin, AcquireLock, AcquireCheckReferences, AcquireCommit` are
`acquire`; `ListEntries, WriteBegin, WriteLock, WriteCommit` are
`synchronize` with `apply_changes_guarded`; `HeartbeatBegin, Renew,
HeartbeatFails` are the heartbeat thread, which has a connection of its own and
may outlive the join of `__exit__`; `BuildDone, BuildFails, Release,
ReleaseLost` are `__exit__`; `BuilderCrash` is the death of the process.

**CollectionRelease** is `publish` and `rollback`: `PublishBegin`/`RollbackBegin`
(with the generation the operator saw in an earlier status), the pointer lock and
the compare of the generation, the lock of the target's control row, the
validation of the target's manifest, and the commit of pointer and history. A
first publish finds no pointer row and locks nothing; two of them meet at the
primary key.

**CollectionGC** is `mark` and `sweep`, the latter with the test of references,
generation and grace period, the comparison of the contents, and the `DELETE`
as three separate steps. The mark row's own lock is left out: whoever takes it
holds the control row of the same collection already.

**VectorControlPlane** composes the three with the clock and states the
properties that relate them. Its `ImplementsReleaseLog` maps the state to
**ReleaseLog**, what readers of an alias may rely on: a log of immutable
snapshots, the last one served, a rollback releasing the one before it. The
snapshots of the log are the *present contents* of the collections, so a build
or a sweep that touched a released collection would be a step the log does not
have.

**ApplicationStartup** adds the processes of `app/main.py`, which list, embed and
write without a lease, to the control plane.

**RuntimeProviders** is the preparation of the PostgreSQL runtime
(`_postgres_runtime`, the schema setup, the setup of the checkpoint tables under
their advisory lock, `close`): one action per statement that others can overtake,
for several processes that fail and die anywhere. In variables of its own it also
has what one process opens and closes in `_lifespan`; each constructor may fail and
each close may raise.

**DocumentIndexing** is `PolicyDocumentIndexer.synchronize` with its report and
`validate_policy_index_snapshot`, over the shared table or a memory index, with
embedding and database failures, by workers of an older and a newer version.

**HttpService** is `RuntimeObservabilityMiddleware` with `HttpMetricsRegistry`:
a request enters, its route replies or raises, its exception handler replies, the
reply starts and ends, and the `finally` clause counts it. An unhandled error is
answered 500 outside the middleware, after the context was given back; a
cancellation counts as 499. Labels of routes are bounded and overflow into one.
A scrape reads the registry (`Snapshot`, `Rendered`). What a service answers is
external.

**ProviderLimiter** is `ConcurrencyLimitedLLMClient`. No critical section of its
condition awaits anything, so one step is what runs between two suspensions.
`notify_all` makes the suspended tasks runnable (`woken`); each tests its
predicate when its turn comes (`StartWaiter`, `WaitOn`, `LeaveClosed`), in any
order, and a timeout or a cancellation may reach it first (`TimeOut`,
`CancelQueued`). `close` is `Close, CloseBegin, CloserWakes, UpstreamCloses`,
with `CloseFails` for a cancelled caller or an upstream that raises. The
counters of `status` are kept modulo `Modulus`, which keeps their sums checkable
and the state finite; peak and average values are left out.

**ApprovalWorkflow** is one session of `AgentWorkflow` on the SQLite runtime.
Sessions share only the database file, since draft ids and idempotency keys
contain the session id, so one session is enough. `turn` holds the coroutine of
each request with the copy of the graph state it works on; `checkpoint`, `head`,
`snapshots` and `receipts` are the database; `threads` are database threads whose
turn has given up waiting.

* *Locks.* `Arrive` fetches the registered lock, `AcquireLock` gets it.
  `clear_session` (`DeleteThread`, `DeleteSession`) pops the registry after it has
  released its lock; who waits for the old lock keeps it (`turn[r].lock`), who
  comes later gets a new one, and the two turns overlap.
* *A turn.* `BeginTurn` is the read of the checkpoint, the routing
  (`_infer_turn_action`, at the gate the explicit commands only, `Actions`) and the
  turn counter; `PendingReply` the answer at the gate that runs no graph. Then one
  action per node and outcome: `Ask`, `GenerateDraft`/`Fails`,
  `UpdateDraft`/`Fails`/`Refused`, `ConfirmDraft`/`Refused`,
  `CancelDraft`/`Refused`, `SubmitRefused`. Each stores a checkpoint. The
  checkpoint of `resolve_turn` is written while the next node runs, so `SaveRoute`
  may happen or be overtaken. `Persist` is `_persist_route_state`. `TurnFails`
  ends a turn anywhere, `Crash` ends all of them.
* *Submission.* `SubmitDraft` starts the tool call, `Transaction` is
  `_submit_transaction` (one step, thanks to `BEGIN IMMEDIATE`), `SubmitReturns`
  and `SubmitRejected` its answers, `SubmitTimesOut` the executor's `wait_for`,
  before or after the commit. A thread left behind commits later
  (`AbandonedTransaction`) or never.
* *Data.* A draft's id is the text it was generated from, which the id digests;
  its content is one of the texts and complete or not; a key is the pair of id and
  revision. `approved` is a history variable: what the user confirmed.
* *Cleared threads.* A checkpoint stores only the channels written since the last
  one and refers to the others by version. After `adelete_thread` those
  references dangle and read as unset (`kept`, `Stored`). A session id channel
  that is lost in this way raises in `_session_id_from`; `TurnFails` covers it.

**LLMCache** is `CachedLLMClient` over `RedisLLMCache` with `AsyncSingleFlight`:
chats join or start a shared call (`call`, `registry`), leave by cancellation, and
`close` cancels what runs, then closes Redis and the model. Redis may fail at each
access and entries may expire at any time; keys are model values.

**ConversationMemory** is the in-memory and SQLite memory of one session:
`append_turn`, `get_snapshot`, `clear_session`, redaction, truncation and the
context a request reads. **CheckpointSaver** is the SQLite saver of one thread:
`put`, `put_writes`, `get_tuple`, `delete_thread`, with values stored once per
version. **LocalSubmission** is the in-process and the SQLite submitter with its
audit records.

**PostgresPool** is what the PostgreSQL modules share: instances that borrow one
connection per transaction, and lose it before or after the commit.
**PostgresSession** is one session's head (turn, version, tombstone), the revisions
of its drafts and its conversation; **PostgresSubmission** is `submit` at READ
COMMITTED, each statement a step, the unique constraints deciding. **PostgresStores**
composes them; its `ImplementsReceiptLedger` maps the receipts to
**ReceiptLedger**, a ledger that issues a receipt in one step, and only for a key, a
draft and an id that have none.

**RequestText** is a text as the sequence of messages it was typed in, each with
its cues, numbers and materials. **ApprovalRules** (`approval_check.py`),
**MaterialRules** (`material_check.py`) and **DraftRules** (`draft_generation.py`:
generate and revise) each read it in their own way, as the code does;
**ApprovalPolicy** states the tables of `data/policies/*.md` as the reference.

**PolicyDocuments** is loader, parser and chunker with their parallel lists;
**PolicySearch** the access scope, the vector and keyword rankings, their
reciprocal rank fusion and the reranking; **PolicyAnswers** guard, search, context,
reply, test of citations, retries and web search. **AgentRequests** routes messages
to the tools and to research.

**RetrievalEvaluation** is the offline retrieval experiments (evidence, confirmed
coverage, candidate windows, replay) with failing calls and edits of the
repository; **SemanticContract** decoding, validation and cycle search of semantic
parse records and their JSONL checker; **FacetSets** freezing, loading (parse, join,
hash) and scoring of confirmed facet data sets.

**Merged properties.** A named property often is the conjunction of those that
guard one promise: `FencingIsExact` (`WriterIsCurrentGeneration`,
`GenerationsAreUnique`), `HistoryIsTrue` (`AuditTrailMatchesPointer`,
`RollbackTargetIntact`), `SweepsFollowTheirMark` (`SweepSparesNewerGenerations`,
`ReceiptIsFinal`), `LeftOpenIsKnown` (`LifespanGivesBack`, `PoolsAreGivenBack`),
`PermitsAreConserved` (with the balance of the counters and the upstream client),
`EveryoneIsServedInTurn` (`NoOvertaking`, `WaitersAreServed`, `CloseEnds`),
`StoresAreCurrent` (`HeadMatchesDraft`, `MemoryIsNewest`), `NothingMovesBack`
(`HeadMovesForward`, `DraftsOnlyAdvance`), `SharingIsInvisible`
(`RegistryIsExact`, `NobodyEndsForAnother`), `MemoryIsFaithful`
(`RemembersNewestTurns`, `HistoryIsRecentAndClean`), `ReportIsSound`
(`PublishedIsMeasured`, `RowsAreSound`), `RequestsAreAccounted`
(`MetricsAreConserved`, `RequestsAreCorrelated`, `ScrapesAddUp`).

The `...MC` modules only add symmetry sets, small inputs and the initial states of
seeded runs: tables as earlier, released builds left them, or a session whose
earlier turns left it with a confirmed draft (`SeededInit`, `ConfirmedInit`), so
that short behaviours reach the interesting part. These states are all reachable.
`ApplicationLifecycleMC`, `AgentSessionsMC` and `ExperimentsMC` each run several
modules that share no state: a behaviour picks one part and runs only that, so that
the parts' states add up instead of multiplying.

Definitions headed *Mutant* are plausible bugs (a missing guard, a stale
compare, a missing notification). No specification uses them; they are there to
show that each property fails when the code is wrong.

## 3. Runs: what each checks and its bounds

P in the last column: proved for every value of the constants as well (section 6).

| Run | Instance | Properties | States |
|---|---|---|---|
| `lease_and_gc` | 2 builders with heartbeats, 1 collector, 1 collection of 1 record with 2 fingerprints, clock 1-3, 3 generations, guards up to 1 unit late | `FencingIsExact` P, `BuildIsExact` P, `LiveLeaseIsNeverTaken` P, `SweepsFollowTheirMark` P | 1,479,115 |
| `release_vs_build` | 1 builder, 1 operator, 2 built collections, 2 fingerprints, 3 releases, clock 1-3, guards up to 1 unit late | `ReleasedContentIntact` P, the refinement `ImplementsReleaseLog` P | 619,194 |
| `release_vs_gc` | 2 operators, 1 collector, no builder, 3 built collections, 3 releases, clock 1-2 | `Protection` (an inductive invariant) P, `HistoryIsTrue` P, `SweepSparesReferenced` P, `ReleaseSawItsPredecessor` P | 561,900 |
| `application_lifecycle` | in turn: 3 processes of one corpus of 3 records with 2 fingerprints over any earlier contents; one process with its resources; 3 processes that prepare, 3 starts, migrations 0 to 1; indexing workers of 2 versions or over a memory index; 3 HTTP requests with 1 key of own label | `ServingMatchesCorpus` P, `LeftOpenIsKnown` P, `PreparedIsComplete` P, `ReportIsTrue` P, `RequestsAreAccounted` P, the liveness property `PreparationsEnd` | 254,569 |
| `limiter` | 5 requests, 2 permits, 2 queue places, 1 closer, counters modulo 2, fairness | `PermitsAreConserved` P, `EveryoneIsServedInTurn` (`NoOvertaking` P, and the liveness of waiters and of close) | 49,536 |
| `agent_sessions` | in turn: 2 overlapping requests, 4 in all, 2 texts of which 1 is complete, 2 revisions; a memory of 2 turns with 2 callers; 3 checkpoints of 2 runs; 4 answers of the submitter; 3 chats with 2 keys, 1 key in flight | `OneReceiptPerDraft` P, `ReceiptsWereConfirmed` P, `SubmittedMeansReceipt` P, `MemoryIsFaithful` P, `CheckpointsReadBackWhole` P, `ReceiptsAreAudited` P, `SharingIsInvisible` P | 740,209 |
| `postgres_stores` | 2 instances, turns 0-2, 2 appends, 3 submission calls, connections lost before or after the commit | `StoresAreCurrent` P, `AnswersAreDurable` P, `NothingMovesBack` P, the refinement `ImplementsReceiptLedger` P | 1,248,129 |
| `requests_and_experiments` | in turn: texts of up to 2 revisions; documents with 2 scans, 2 attempts, 2 days; experiments with 2 faults and 2 edits; records, with all relation graphs on 3 nodes; facet sets with 2 changes and 2 script runs | `RouteFollowsPolicy` P, `ReadyIsComplete` P, `LastChangeWins` P, `ChunksAreArticles`, `FusionIsFair` P, `CitationsAreEvidence` P, `RestrictionIsInvisible` P, `ReportIsSound` P, `PublishedWithoutDrift` P, `ContractIsExact` P, `FacetsAreConfirmed` | 270,646 |

The four other runs find behaviours that a document excludes (section 4):
`stale_guard`, `confirmation_refused`, `stale_quotations`, `failed_rows`.

Each property is stated in words above its definition, and PROJECT.json names for
each a mutant of the code that the run catches.

Why the bounds are enough. *Control plane:* one clock unit is enough to expire a
lease (TTL 1) and to pass a grace period; the clock runs far enough for a lease to
expire, be taken over and be released, and for a mark to be made, outlive a build
and be swept. A second fingerprint makes a rewrite distinguishable from the
original; two collections are an active and a candidate, the third of
`release_vs_gc` is one that falls out of an alias and becomes collectable. Two
builders (operators) are enough for each conflict between equals: a lock has one
holder and one waiter; with two of them, two corpora and three generations
a collection is built, crashed upon, taken over and rebuilt with other contents.
`release_vs_gc` has no builders: the conjuncts of `Protection` about them are
empty there and rest on the proof. *Limiter:* five requests fill both permits and both queue
places and leave one to be refused. *Workflow:* two requests overlap after a clear,
and four arrivals allow a timed-out submission, a clear or a revision, and another
submission against the thread left behind; two revisions are what one draft needs
to have two keys. *PostgreSQL:* two instances are a winner and a loser of each race,
an older turn arrives after a newer one, and a third call meets receipt and key of the
first two. *Preparation:* three processes are one that migrates, one that waits for
the advisory lock and one that sets the schema up. *Cache:* three chats are the
first of a key, one that joins it and one that finds the registry full. *HTTP:* one
route of its own and one that overflows need one key; three requests are two that
interleave and a scrape. What the control plane, the stores, the cache, the limiter
and the preparation need of these bounds is shown by their proofs to be no matter
of size. *Experiments:* an edit and its undoing are two edits, and a fault besides a
success needs two calls.

`MaxTime`, `MaxFence`, `MaxGeneration`, `MaxRevision`, `MaxArrivals`, `MaxTurn`,
`MaxAppends`, `MaxStarts`, `MaxAttempts`, `MaxFaults`, `MaxEdits`, `MaxRuns` and the
like bound clocks, counters and the number of things that begin; they appear only in
guards of actions that begin something, so what has begun can always finish.

Deadlock is checked in `postgres_stores` and `confirmation_refused`, where an
instance can always begin another call or stop. Elsewhere the bounded model may
really stop: the clock is at its last instant, the limiter is closed and idle, the
session has had its requests, the experiment has ended. A wait that should end is
stated as liveness there.

Abstractions a reader should know. Web status is one of found, none, timed out
(disabled, no results and failed are one). A reply without markers also stands for
a blank one. One message or question per part of the application; tables and the
day change only while a request is searching, and there is at most one foreign
write. The saver's `list` reads what `get_tuple` of the newest row reads and is
merged with it; special write indexes are left out. The local submitter's reasons to
refuse are one set of defects. In the retrieval experiments there is one cohort per
evidence run, frozen files are versions, metrics are whole numbers, windows are 3
and 4 for a final K of 2. Semantic records have single and double faults, files up
to three lines. A digest equals the content it digests.

## 4. Where code and documents disagree

Four runs show behaviours of the code that a document excludes.

* `stale_guard`: the guard of a write (`indexing_lease.py:309`, and `renew`,
  `:235`) compares `expires_at` with `CURRENT_TIMESTAMP`, the time of `BEGIN`. If
  the `SELECT` reaches the row after the lease expired - it had to wait for the
  row lock, or the client was slow - and a release validated and published the
  collection meanwhile, the expired builder still passes and overwrites the
  active collection, which `docs/distributed_indexing_lease.md:70` rules out
  (`PublishedSnapshotIntact`). `MaxDelay` bounds the number of clock units a guard
  may be late; no theorem assumes anything of it. What holds for any delay is
  `ReleasedContentIntact`: the history variable `overrun` keeps the collections on
  which a guard has passed after the lease had expired, and what is served from any
  other collection is what was released. Comparing with `clock_timestamp()` after the lock
  is taken would close the gap.
* `confirmation_refused`: the identity of a draft's content in PostgreSQL includes
  its warnings (`postgres_runtime.py:96`), and `confirm_draft` changes them; the
  store refuses the confirmation of a waiting draft, a transition that
  `docs/multi_instance_shared_state.md:330` allows.
* `stale_quotations`: after a revision raises a purchase above 50,000 the material
  checker still takes the amount of the earlier messages (`material_check.py:663`)
  and lets it wait for confirmation with two quotations.
* `failed_rows`: a call of one channel that fails although its siblings succeed ends
  the whole comparison of candidate windows
  (`run_retrieval_coverage_candidate_window_eval.py:349`), whose rows were to remain.

Seen while modelling, and described by the models but not by a run of their own:

* *Control plane and start.* A start synchronises the configured physical collection
  also when an alias serves it (`main.py:134`; `docs/vector_collection_release.md:88`
  says it does not). `sweep` compares and deletes in two statements
  (`collection_gc.py:370`): a write without a lease that keeps the number of rows is
  deleted. A mark is not withdrawn when the collection is published and later
  unreferenced (`collection_gc.py:442`). Two first
  schema setups at once: one fails with a unique violation. Preparation tests
  versions only, not tables.
* *What stays open* (`LeftOpenIsKnown` says this much and no more). A start that fails
  inside `_build_policy_answer_service` closes its index and leaves the model client
  and the Redis client it may have created by then (`main.py:166`); one that fails
  later leaves index, clients and web search (`main.py:246-285` has no handler). A
  shutdown cancelled while the cached client closes leaves that client, or it and
  Redis (`cache/llm.py:290-298`). A failed preparation whose checkpoint close raises
  leaves the state pool (`runtime_provider.py:249-251`), although
  `docs/multi_instance_shared_state.md:472` says that any failed initialisation closes
  what was opened.
* *Drafts and submissions.* The same text sent again gives the same draft id, and
  after an update the key of the submitted revision: the old receipt answers the new
  content (`sqlite_runtime.py:363`; `README.md:847-850` promises a conflict). A draft
  cancelled after its submission timed out is told it was not submitted while the
  transaction may still commit (`workflow.py:1523`). In PostgreSQL, regenerating a
  cancelled text, and cancelling twice, are refused; a lost confirm save makes the
  SUBMITTED save refused; deleting a session without a row writes no tombstone; the
  workflow deletes the checkpoint before the tombstone.
* *Texts.* An amount typed with a comma, or a missing price of 1000 or more supplied
  later, leaves the draft waiting for materials. "非紧急采购" is not an emergency to
  the generator and one to the checker. Purchase texts that mention travel take the
  travel route (so `ReadyIsComplete` tests the route of purchase drafts whose route
  is a purchase route). A revision "改为采购30台" keeps the old quantity; a leave draft
  revised with a reason that mentions a purchase becomes a purchase draft under its
  old id; the canonical text adds an IT review on any revision of a non-IT purchase.
* *Context.* History stands before the present request and the tools read both, so a
  self-contained question may get the route of an earlier one
  (`docs/conversation_memory.md:79`). The turn of a cancelled request may be appended
  after `clear_session`. The present request is not redacted.
* *Documents and retrieval.* Text before the first article of a chapter is in no
  chunk; images in DOCX paragraphs with text are ignored; more than 64 query tokens
  make the hybrid search fail; chunks that give instructions occupy places before
  they are quarantined.
* *Indexing.* A row without a document whose id is a wanted chunk is reported deleted
  although it is overwritten; snapshot validation is used by tests only.
* *HTTP.* A cancellation after the reply started counts as 499 although the client
  has seen a 200; a client's request id is taken as it is.
* *Experiments.* Facet records are parsed in one read and hashed in another, so an
  edit in between that is undone is joined unseen; an interrupted freeze leaves a
  folder the next one refuses; the reports of a candidate window
  (`run_retrieval_coverage_candidate_window_eval.py:993-1007`) and of a data set
  (`run_retrieval_evidence.py:157-170`) are written before the last test of drift
  (`:1010-1017`, `:188-195`) and stay when it fails (the variable `early`);
  a directly built semantic record may have an id that is no string.
* *Shared calls.* Two calls of a key may run at once when one starts as the other
  ends (`llm.py:250`); nothing promises against it. `executescript` in the SQLite
  setup commits its transaction, so a migration is not atomic.

## 5. Fairness

Two specifications state liveness. `ProviderLimiter!FairSpec` assumes weak fairness
of a woken task running (the event loop runs every runnable task), of a running
call ending (the HTTP client of `llm/openai_compatible_client.py` has a timeout
and a bounded number of retries) and of a closer proceeding. It assumes nothing
of new requests, timers, cancellations or the decision to close, so
`WaitersAreServed` shows that a waiting request needs no timeout to be rid of
the queue. `RuntimeProviders!ProvidersSpec` assumes weak fairness of the next step
of each preparation: a statement returns, and PostgreSQL grants the advisory lock to
a waiter when it is free (starvation by others needs endless starts, which
`MaxStarts` bounds); it assumes no failure and no end of a process. The control plane,
the stores and the workflow have safety properties only: nothing in the code obliges
an operator, a collector, a builder or a user to come back.

## 6. Proofs

The theorems hold for every value of the constants the named assumptions allow.
Each is proved down to steps the provers check; the inductive invariants were
checked by TLC on the instances of section 3 before they were proved. Specifications
start from empty tables (or, where said, from any), while some runs start from the
seeded states of section 2, which are reachable.

Items 1 to 5 are about `VectorControlPlane`, for any finite or infinite sets of
collections, aliases and clients, any TTL, retention, grace period and delay of guards, and a
finite set of record ids (`TablesAssumption`, `LeaseAssumption`,
`GCAssumption`).

1. `VectorControlPlaneProofs!TypeCorrect`: `Spec => []TypeOK`. Typing is not
   inductive alone (a session in a late phase must name a collection, a rollback
   past its first step must name a target), so it is proved together with
   `WellFormed`. Typing a mark needs the maximum of a set of times, hence the
   lemmas about `Max`.
2. In the same module, **with no assumption on time**: guards may be late by any
   number of units.
   * `SweepsSpareReferenced`: no sweep deletes a collection that an alias names. The
     invariant `Locked` says that a collector past its reference test and an operator
     past its lock hold the control row of their collection and that a collector's
     candidate is still unreferenced; it is inductive because a release adds a
     collection to an alias only while holding that row.
   * `FencingStaysExact`, `LiveLeasesAreNeverTaken`, `SweepsAlwaysFollowTheirMark`,
     from `LeaseInvAlways`. `LeaseInv` says what each holder of a control row has
     tested and may still rely on: a builder about to acquire found the lease dead at
     the time its transaction began, and time only advances (`BuilderHolds`); a
     builder's fence is at most the row's; a sweep's mark, generation and grace
     period are those of its tests (`CollectorHolds`). Fences grow by one at each
     acquisition, hence two builds never share one.
   * `ReleasesSeeTheirPredecessor`: the step that moves a pointer compares the
     generation its operator saw with the row it has locked.
3. `ProtectionAlways`, `ReleasedContentStaysIntact`,
   `ReferencedCollectionsStayUnleased`, again for any delay. PostgreSQL does not
   promise that a guard is evaluated at the time it compares with, and `stale_guard`
   shows what follows when it is not. The theorems therefore do not assume it: the
   history variable `overrun` (read by no action) gets a collection when
   `lock_for_write` or `renew` passes on it although the lease has expired at present
   (`PassGuard`), and loses it when the next generation acquires the collection or a
   release validates it (`Revalidated`). The theorems say that such a late guard is
   the **only** way by which released content can change and a lease on a referenced
   collection be live.

   The inductive invariant is `Safe == TypeOK /\ Protection`.
   `ReleasedContentIntact` alone is not inductive: a builder about to write could
   hold a row of a referenced collection. `Protection` adds why it cannot: whoever
   works on a collection holds its control row; a builder found the collection
   unreferenced when it acquired, and its lease live or its collection is overrun
   (`BuildersExclude`); a collector found it unreferenced (`CollectorsExclude`); a
   release found no live lease and a manifest that is still the present one
   (`OperatorsExclude`). The run `release_vs_gc` checks the invariant itself, without
   builders; `release_vs_build` its conclusion with one.

   The argument per step is organised by client: first what a builder, operator or
   collector can change of the tables at all, then that whoever changes a row
   excludes the others, then that each conjunct survives.
4. `AuditTrailAlwaysMatches`: the newest row of the history is the pointer.
   `TrailInv` adds that generations are a key of the history and that an operator
   whose expected generation is still the pointer's has decided by the present
   pointer, and a validated rollback carries the snapshot its target was last
   released with (`DecisionStands`). With `Safe` it gives `HistoryStaysTrue`: what a
   rollback returns to has its history row and, unless a late guard reached it,
   still the content recorded there.
5. `BuildsAreExact` and `ControlPlaneImplementsReleaseLog`. A builder whose lease is
   live and was not revived finds the manifest it listed (`WorkStands`), so the
   difference it computed is still the difference when it is written, whatever other
   generations and sweeps did before. For the refinement the log read through the
   mapping, whose newest snapshots are the *present* contents of collections that no
   late guard reached, equals the log recorded in the history (`ServedIsRecorded`);
   that changes only by a release, which appends one entry, and a rollback appends
   exactly the one before (`PreviousIsLatest`), so each step is a `Publish` or
   `Rollback` of `ReleaseLog` or a stutter.

Item 6 is about `ApprovalWorkflow`, for any set of requests and of
texts and any bounds (`WorkflowAssumption`, `NoneAssumption`).

6. `ApprovalWorkflowProofs!OneReceiptAlways`, `ConfirmedBeforeSubmitted`,
   `SubmittedHasReceipt`, `WorkflowTypeCorrect`. None of the first three is
   inductive alone: a turn or an abandoned thread holds a copy of the draft that
   may be older than everything in the database. `SubmissionInv` therefore says
   of **every** copy (in the checkpoint, a turn, a snapshot, a thread) that it is
   `Sound`: where it says confirmed or submitted, the user confirmed that content
   in that revision, and where it says submitted there is a receipt. Receipts and
   confirmations are never taken back, so a sound copy stays sound however late it
   is used; that is why no property of the locks is needed, and why the theorems
   survive overlapping turns. `PhaseFits` links the phase, which is all the
   session head shows, to the draft's status. The proof has one lemma for nodes
   that end with a new state (`GoesSound`), one for steps that replace a turn's
   record (`TurnSound`) and one for the transaction (`TransactionSound`); each
   action is reduced to one of them.

7. `ProviderLimiterProofs` (any requests, permits, queue places, closers and modulus):
   `PermitsAlwaysConserved` and `NobodyOvertakes`. `LimiterInv` is the type invariant,
   a queue without repetitions whose elements are the waiting tasks, no queue when the
   limiter is off, and permits equal to the running calls. Counting needs
   cardinalities of the sets an action moves one task between, the balance of the
   counters arithmetic modulo a number (`ModSum`); the order of the queue is proved
   from what appending and removing do to positions. The two other parts of
   `EveryoneIsServedInTurn` are liveness and stay with TLC.
8. `PostgresStoresProofs` (any instances, drafts, turns, keys and calls):
   `StoresAlwaysCurrent`, `NothingEverMovesBack`, `AnswersAlwaysDurable`,
   `TransactionsImplementTheLedger`. The two halves of `StoresInv` rest on different
   mechanisms. A transaction on the session holds its row from its first statement on,
   so what it read is true when it writes (`RowIsLocked`, `TransactionIsCurrent`). A
   submission locks nothing until it inserts; what it read may be stale, and the unique
   constraints decide: an inserted, uncommitted receipt clashes with no other
   (`SubmissionIsCurrent`). Each commit of a receipt is then an `Issue` of `ReceiptLedger`, every
   other step a stutter.
9. `AgentSessionsProofs`.
    * `SharingStaysInvisible` (any chats, keys and places): `CacheInv` adds to the
      registry what a chat knows of the call it awaits (`ChatStands`): its own unshared
      one, which runs as long as it waits, or a shared one that has started and that
      only the shutdown cancels (`CallStands`).
    * `CheckpointsAlwaysReadBack` (any runs, channels, writes and number of
      checkpoints): a blob is found by its channel and version, and the random part of a
      version is the id of its checkpoint, so a put never changes what another version
      answers (`BlobsAreUnique`, `WholeOnesReadBack`); what a run has read stays what it
      would read again until its thread is deleted (`RunStands`).
    * `ReceiptsAlwaysAudited` (any calls, any number of them): receipts are numbered as
      they are stored, so a new one is in no record of the audit yet
      (`SubmissionsAreNumbered`), and the audit grows at its end, so the first record of
      a receipt stays its first.
    * `MemoryIsAlwaysFaithful` (any callers, texts, replies and limits, under
      `MemoryAssumption`: what is said is a finite sequence, and a pattern matches at
      least two pieces). `MemoryInv` says that the stored messages are those of the
      newest turns (`Remembers`), each without a credential (`IsHistory`), and that a
      waiting request reads some such list. Marking leaves no secret piece because a
      lone one does not occur (`RedactedIsClean`), and cutting a clean message leaves it
      clean, which is why the order of the two matters. Both stores keep the same end of
      a list, though one counts messages and the other compares numbers (`KeptOfBoth`).
      The pieces behind a message are counted as a set of pairs, so that the budget of a
      request is a difference of cardinalities and needs no fold (`SelectedIsRecent`).
10. `ApplicationProofs`.
    * `ServingAlwaysMatches`: from **any** typed tables, for any number of processes of
      one corpus when no builder or collector writes (`OneCorpusOnly`). Once a record
      is what the corpus says it stays so, as every writer writes the same; that is
      all an old listing needs to promise. With two corpora, or with a sweep, the
      claim is false.
    * `PreparedAlwaysComplete`: the migrations applied are always those up to the
      current one, once each (`MigratedTo`), and the one who migrates is the holder of
      the advisory lock and continues with the next (`ProcessStands`).
    * `LeftOpenIsAlwaysKnown`: between start and end what a process owns follows from
      its stage (`LifespanInv`); the pool of the state is open as long as a runtime is
      being given back, so that only a raise before its turn leaves it (`ProcessStands`).
    * `RequestsAlwaysAccounted` (any requests, targets, headers, buckets and durations,
      under `HttpAssumption`: buckets grow, no client sends a fresh id, and no route is
      named like the overflow). The counters of `MetricsAreConserved` are not inductive
      alone: a key may get its label after requests of it went to the overflow, and
      would then count too few. `MetricsStand` says why not: a finished request without a
      label of its own means that the labels are all taken, and labels are never given
      back. A scrape adds up because the counters do (`AddsUp`); the total is compared
      with the number of the pairs of a series and a number up to its count, a disjoint
      union that grows by one pair with each request (`SeriesGrow`). `RequestStands`
      ties the id, the status, the context, the reply and the log of a request to its
      phase.
    * `ReportsStayTrue` (any workers, libraries and rows of earlier pipelines, under
      `IndexingAssumption`: a chunk id belongs to one document and a fingerprint digests
      it). `WorkerStands` says that what a worker listed is a sound table and that its
      report is computed from that alone; applied to what was listed the difference
      makes the wanted table (`AppliedIsWanted`), and an undisturbed transaction applies
      it to what was listed. The totals are the number of pairs of a document and a
      number up to its count, a disjoint union that maps to the records added, updated,
      kept and removed.
11. `ExperimentsProofs`. Texts, chunks and totals are finite sets and functions here, and
    where something is chosen by order (the first article, the newest change, the best
    rank) the proofs use that finite sets of integers have a least element and that
    removing elements from a finite set ends, instead of induction on a list.
    * `RoutesFollowThePolicy`, `ReadyDraftsAreComplete`, `LastChangesWin` (any messages,
      under `TextAssumption` and `RulesAssumption`: a message is a record of cues and
      integers). `DraftInv` says that an answer is the answer to some text and a draft
      what `Generate` or `Revise` makes of one; the rest is about these operators, for
      every text. The route is compared with the tables of `ApprovalPolicy` tier by tier.
      `LastChangesWin` follows a number from the amendment through the fields rendered
      before it and the earlier messages to the draft.
    * `AnswersCiteEvidence`, `FusionsAreFair`, `RestrictionsDoNotShow` (any directories,
      rows, questions and replies, under `AnswerAssumption` and `RequestAssumption`).
      `AnswerInv` says of each phase of a request which chunks its search admitted, what
      its evidence was numbered from and which markers its reply may hold
      (`AnswerSound`). What loader, parser and chunker make of a directory is assumed to
      be a sequence of chunks with ids and finitely many lines, which TLC evaluates for
      every directory of the run; *which* sequence is `ChunksAreArticles`, checked by
      TLC. The table of logarithms is any that is long enough, and `RerankK <= 900`
      is needed because scores are whole millionths: from there on two neighbouring
      ranks could score the same (the setting's default is far below).
      For `RestrictionsDoNotShow` each ranking of the search is shown to be that over
      the chunks of its scope alone: totals over them are the same, and rows outside
      take no place among the candidates.
12. `EvaluationProofs` (any cases, links, edits, faults and two candidate windows,
    under `EvaluationAssumption`: a case has two rankings without repetitions of chunks
    with a relevance, and no window is smaller than what a search returns, which
    `normalize_candidate_windows` enforces).
    * `NothingDriftsUnseen`: `EvaluationInv` says what source, corpora and inputs a
      phase has verified; the report of the whole is behind the comparison with the
      disk. `EarlyInv` says which reports of parts are there by then, phase by phase:
      those of the passes that are over, none of the confirmed queries. It needs
      `Counted`, because the part that is written is the last pass and belongs to the
      last runtime.
    * `ReportsAreSound`: `Measurement` says of an experiment under way that each row of
      a pass was recorded at the window of that pass (`PassSound`), that as many passes
      are measured as its phase says (`Counted`), that exactly the failed calls are
      counted, that a query not measured yet has left no trace (`TraceKept`), and that
      a report sums up the passes (`ReportOf`). The folds of a summary are not
      unrolled: an error count is the cardinality of the rows with the error
      (`SummariesOfPass`), in bijection with the failed calls of its pass and channel
      (`FailuresCounted`). What rows promise follows from how one is recorded
      (`RecordedIsSound`, `DiagnosedIsSound`, `SourcesAgree`): a cut of a cut is a cut,
      fusing and reranking keep the chunks, and a rank found in a cut is the one in the
      whole ranking. `SelectionIsSound` is about the links, for any set of rules.
    * `ContractsAreExact` (any files of records, under `ContractAssumption`: what decodes
      has lists of objects, ids ordered like numbers and members of the enumerations).
      `SearchInv` is the invariant of the depth-first search: the stack is a path of the
      graph without repetition and its ids are the open ones (`PathSound`); what was
      followed of an id on it was left or is the next of the path, what was left leads
      only to what was left, and in every set of left ids one leads to none of the set
      (`LeftSound`). So a search that ends without a cycle has an acyclic graph, and an
      open target closes one (`SearchIsExact`). The issues of a record but for cycles
      are none exactly when the record is what the interface says (`LocalAreExact`); the
      one rule without counterpart there, that a scope is not its own parent, is a cycle
      of the scopes (`NoSelfParent`). `ErrorsSound` says for the lines read so far what
      `ContractIsExact` says for the file.

Only model-checked, and why:

* *Liveness*: the waiters and the close of the limiter, `PreparationsEnd`. The prover
  does not handle `ENABLED`.
* *Induction over data*: `ChunksAreArticles` and `FacetsAreConfirmed` are about what
  folds and recursive definitions compute on lines and files; what those compute for
  every input needs induction with an operator as parameter. `CitationsAreEvidence` and its neighbours
  rest on the first only for what `AnswerAssumption` states.

## 7. What is not modelled and why

* `resolve`, `status`, `plan` read and decide nothing; validation of names and
  arguments, settings (`core/config.py`), report formatting, CLI output and the
  translation of results to response schemas are left out.
* Embeddings and the replies of the model: any order of equal similarities, any
  reply. An embedding failure is a failing build or search.
* The LLM client (HTTP) is the environment of the limiter: a call ends in a bounded
  time with an answer or an error. Services behind the HTTP routes are outcomes.
* Connection failures after a commit was sent are modelled for PostgreSQL submissions
  and sessions; for a sweep the repeated call is; a publish whose answer is lost is,
  for the tables, a publish.
* Of a turn: replies, citations and traces. Which tool a message is routed to
  (`AgentRequests`) and the memory a request reads (`ConversationMemory`) are modelled
  apart from the concurrent turns of `ApprovalWorkflow`.
* The PostgreSQL stores are prepared but not wired into `main.py`; they are modelled
  as the providers hand them out.
* Patterns of the prompt guard, of credentials and of headings are cues or kinds of
  lines; layout, tables and metadata syntax are left out. The SQLite memory's
  snapshot, which counts and reads in two statements, is one.
* HTTP: averages, non-finite durations, and the series of limiter and prompt guard in
  the text format, which repeat counters of those components.
* Semantic records constructed directly, without decoding, and their type checks; a
  load without a manifest.
* The agent evaluation runner, the benchmark, the demonstration and the probes of live
  services measure one call after the other and keep nothing. The gate experiments
  (`scripts/gate_v3_intent.py`, `replay_gate_v3.py` and their like) are deterministic
  text patterns of one process, kept for one decision.

## 8. Plan

1. A draft's life as an abstract specification (confirmed, then submitted or
   cancelled, once) with the workflow refining it as far as it does.
2. An operator-level link between `ApprovalWorkflow` and `PostgresStores`, should the
   application run on PostgreSQL.

---------------------------- MODULE DocumentIndexing ----------------------------
(***************************************************************************)
(* PolicyDocumentIndexer over a vector index: a worker opens the index it is *)
(* configured for, lists what is stored, embeds the chunks whose fingerprint *)
(* changed, applies the difference and reports, document by document, what   *)
(* it did.  Workers with pgvector share one table, each with the version of  *)
(* the pipeline it was built with; a worker with the memory index has its    *)
(* own.                                                                      *)
(***************************************************************************)
EXTENDS Naturals, FiniteSets, Functions

CONSTANTS
    Workers,        \* processes that index
    SharedWorkers,  \* those configured for pgvector
    ChunkIds,       \* ids of chunks
    DocumentOf(_),  \* the document an id belongs to
    Libraries,      \* what policy directories contain: chunk ids with their contents
    VersionOf(_),   \* pipeline version and embedding model of a worker
    StoredEarlier,  \* what the shared table may contain at first
    Nowhere         \* no row, no document, no fingerprint

\* A chunk id belongs to one document, whose id is never empty nor that of a row without
\* a document; a fingerprint digests the document's id, so a row that lacks the document
\* does not have it.
ASSUME IndexingAssumption ==
    /\ IsFiniteSet(ChunkIds) /\ SharedWorkers \subseteq Workers /\ "pgvector" \notin Workers
    /\ \A id, other \in ChunkIds : DocumentOf(id) \notin {Nowhere, <<"orphan", other>>}
    /\ \A library \in Libraries :
          /\ library = [id \in DOMAIN library |-> library[id]]
          /\ DOMAIN library \subseteq ChunkIds
          /\ \A id \in DOMAIN library, p \in Workers : <<VersionOf(p), library[id]>> # Nowhere
    /\ \A rows \in StoredEarlier :
          /\ rows = [id \in ChunkIds |-> [document |-> rows[id].document, print |-> rows[id].print]]
          /\ \A id \in ChunkIds :
                /\ rows[id].document \in {DocumentOf(id), Nowhere}
                /\ rows[id].document = Nowhere =>
                      \A library \in Libraries, p \in Workers :
                         id \in DOMAIN library => rows[id].print # <<VersionOf(p), library[id]>>

VARIABLES
    table,     \* the rows of each store, by record id
    worker     \* the indexing run of each worker

indexingVars == <<table, worker>>

-----------------------------------------------------------------------------
(* Records.  A fingerprint digests version, text and metadata: it is the     *)
(* pair of version and content.  Rows of other origin may lack a document or *)
(* a fingerprint.                                                            *)

Row(document, print) == [document |-> document, print |-> print]
NoEntry == Row(Nowhere, Nowhere)

Fingerprint(p, content) == <<VersionOf(p), content>>
Record(p, id, content) == Row(DocumentOf(id), Fingerprint(p, content))

EmptyTable == [id \in ChunkIds |-> NoEntry]
Stored(rows) == {id \in ChunkIds : rows[id] # NoEntry}
Prints(rows) == [id \in Stored(rows) |-> rows[id].print]

Store(p) == IF p \in SharedWorkers THEN "pgvector" ELSE p
Stores == {"pgvector"} \cup (Workers \ SharedWorkers)

At(p, phase) == worker[p].at = phase

Idle == [at |-> "none", chunks |-> <<>>, view |-> <<>>, after |-> <<>>, report |-> <<>>]

IndexingInit ==
    /\ table \in [Stores -> StoredEarlier \cup {EmptyTable}]
    /\ \A s \in Stores \ {"pgvector"} : table[s] = EmptyTable
    /\ worker = [p \in Workers |-> Idle]

-----------------------------------------------------------------------------
(* Opening and closing the index                                            *)

WorkerGoes(p, phase) == worker' = [worker EXCEPT ![p].at = phase]

\* from_dsn opens the pool and waits for a connection.
OpenIndexPool(p) ==
    /\ At(p, "none") /\ p \in SharedWorkers
    /\ WorkerGoes(p, "connecting")
    /\ UNCHANGED table

PoolIsReady(p) ==
    /\ At(p, "connecting")
    /\ WorkerGoes(p, "preparing")
    /\ UNCHANGED table

SchemaIsReady(p) ==
    /\ At(p, "preparing")
    /\ WorkerGoes(p, "open")
    /\ UNCHANGED table

\* The wait or the schema fails: the pool is closed before the error goes on.
OpenFails(p) ==
    /\ worker[p].at \in {"connecting", "preparing"}
    /\ WorkerGoes(p, "none")
    /\ UNCHANGED table

OpenMemory(p) ==
    /\ At(p, "none") /\ p \notin SharedWorkers
    /\ WorkerGoes(p, "open")
    /\ UNCHANGED table

\* The worker is done, has failed or dies, at any time, and may start again.  What
\* the memory index held goes with it.
CloseIndex(p) ==
    /\ ~At(p, "none")
    /\ worker' = [worker EXCEPT ![p] = Idle]
    /\ table' = IF p \in SharedWorkers THEN table ELSE [table EXCEPT ![p] = EmptyTable]

-----------------------------------------------------------------------------
(* One run                                                                  *)

\* A directory without chunks is refused, so that it cannot clear the collection.
ReadDirectory(p, library) ==
    /\ worker[p].at \in {"open", "reported"}
    /\ worker' = [worker EXCEPT ![p] =
           [Idle EXCEPT !.at = IF DOMAIN library = {} THEN "failed" ELSE "read",
                        !.chunks = library]]
    /\ UNCHANGED table

ListStored(p) ==
    /\ At(p, "read")
    /\ worker' = [worker EXCEPT ![p] = [@ EXCEPT !.at = "listed", !.view = table[Store(p)]]]
    /\ UNCHANGED table

Changed(p) ==
    {id \in DOMAIN worker[p].chunks :
        worker[p].view[id].print # Fingerprint(p, worker[p].chunks[id])}
Stale(p) == Stored(worker[p].view) \ DOMAIN worker[p].chunks

-----------------------------------------------------------------------------
(* The report                                                               *)

\* A row without a document is reported as a document of its own.
Origin(rows, id) == IF rows[id].document = Nowhere THEN <<"orphan", id>> ELSE rows[id].document
RowsOf(rows, document) == {id \in Stored(rows) : Origin(rows, id) = document}
WantedOf(p, document) == {id \in DOMAIN worker[p].chunks : DocumentOf(id) = document}

Documents(p) ==
    {DocumentOf(id) : id \in DOMAIN worker[p].chunks}
    \cup {Origin(worker[p].view, id) : id \in Stored(worker[p].view)}

\* Mutant: a document with the same ids is unchanged.
StatusByIds(p, document) ==
    LET before == RowsOf(worker[p].view, document)
        wanted == WantedOf(p, document)
    IN  IF wanted = {} THEN "deleted"
        ELSE IF before = {} THEN "added"
        ELSE IF before = wanted THEN "unchanged" ELSE "updated"

Status(p, document) ==
    LET before == RowsOf(worker[p].view, document)
        wanted == WantedOf(p, document)
    IN  IF wanted = {} THEN "deleted"
        ELSE IF before = {} THEN "added"
        ELSE IF /\ before = wanted
                /\ \A id \in wanted : worker[p].view[id].print
                                      = Fingerprint(p, worker[p].chunks[id])
             THEN "unchanged" ELSE "updated"

DocumentResult(p, document) ==
    LET wanted == WantedOf(p, document)
        before == RowsOf(worker[p].view, document)
    IN  [status |-> Status(p, document), chunks |-> Cardinality(wanted),
         upserted |-> Cardinality(Changed(p) \cap wanted),
         deleted |-> IF wanted = {} THEN Cardinality(before)
                     ELSE Cardinality(Stale(p) \cap before)]

Report(p) ==
    LET wanted == worker[p].chunks
    IN  [snapshot |-> [id \in DOMAIN wanted |-> Fingerprint(p, wanted[id])],
         documents |-> [d \in Documents(p) |-> DocumentResult(p, d)],
         total |-> Cardinality(DOMAIN wanted), upserted |-> Cardinality(Changed(p)),
         deleted |-> Cardinality(Stale(p)),
         unchanged |-> Cardinality(DOMAIN wanted) - Cardinality(Changed(p))]

-----------------------------------------------------------------------------
(* Writing                                                                  *)

\* The model answers with too few vectors, one of another dimension, one that is
\* zero or not finite, or not at all.
EmbeddingFails(p) ==
    /\ At(p, "listed") /\ Changed(p) # {}
    /\ worker' = [worker EXCEPT ![p] = [Idle EXCEPT !.at = "failed"]]
    /\ UNCHANGED table

\* The batch is checked as a whole, then written and deleted in one transaction.
ApplyChanges(rows, records, stale) ==
    [id \in ChunkIds |-> IF id \in DOMAIN records THEN records[id]
                         ELSE IF id \in stale THEN NoEntry ELSE rows[id]]

Apply(p) ==
    LET records == [id \in Changed(p) |-> Record(p, id, worker[p].chunks[id])]
        rows == ApplyChanges(table[Store(p)], records, Stale(p))
    IN /\ At(p, "listed")
       /\ table' = [table EXCEPT ![Store(p)] = rows]
       /\ worker' = [worker EXCEPT ![p] =
              [at |-> "reported", chunks |-> @.chunks, view |-> @.view, report |-> Report(p),
               after |-> [rows |-> rows, disturbed |-> table[Store(p)] # worker[p].view]]]

ApplyFails(p) ==
    /\ At(p, "listed") /\ p \in SharedWorkers
    /\ worker' = [worker EXCEPT ![p] = [Idle EXCEPT !.at = "failed"]]
    /\ UNCHANGED table

\* validate_policy_index_snapshot against the table as it is now.
SnapshotProblems(p) ==
    LET rows == table[Store(p)]
        wanted == [id \in DOMAIN worker[p].chunks |-> Fingerprint(p, worker[p].chunks[id])]
    IN  [missing |-> DOMAIN wanted \ Stored(rows), unexpected |-> Stored(rows) \ DOMAIN wanted,
         mismatched |-> {id \in DOMAIN wanted \cap Stored(rows) : rows[id].print # wanted[id]}]

IndexingWorker(p) ==
    \/ OpenIndexPool(p) \/ PoolIsReady(p) \/ SchemaIsReady(p) \/ OpenFails(p) \/ OpenMemory(p)
    \/ CloseIndex(p)
    \/ \E library \in Libraries : ReadDirectory(p, library)
    \/ ListStored(p)
    \/ EmbeddingFails(p) \/ Apply(p) \/ ApplyFails(p)

IndexingNext == \E p \in Workers : IndexingWorker(p)

IndexingSpec == IndexingInit /\ [][IndexingNext]_indexingVars

-----------------------------------------------------------------------------
(* Properties                                                               *)

DocumentRows(rows, document) == [id \in RowsOf(rows, document) |-> rows[id]]

\* As many pairs as the numbers add up to.
Numbered(numbers) == UNION {{d} \X (1..numbers[d]) : d \in DOMAIN numbers}

\* What a finished run reports is what happened to the table, read from the rows
\* before and after and not from the decisions of the run: the status and counts
\* of each document, the totals, and a snapshot that a validation right after it
\* accepts (synchronize, validate_policy_index_snapshot) - unless another worker
\* wrote between the listing and the transaction, which the report cannot know.
\* The rows without a document are the exception: one that a chunk takes over is
\* reported deleted as well.
ReportIsTrue ==
    \A p \in Workers : At(p, "reported") /\ ~worker[p].after.disturbed =>
        LET before == worker[p].view
            after == worker[p].after.rows
            report == worker[p].report
            Told(field) == Cardinality(Numbered([d \in DOMAIN report.documents |->
                                                   report.documents[d][field]]))
            adopted == {id \in Stored(after) \cap Stored(before) :
                           before[id].document = Nowhere /\ after[id].document # Nowhere}
        IN /\ \A d \in DOMAIN report.documents :
                 LET result == report.documents[d]
                     old == DocumentRows(before, d)
                     new == DocumentRows(after, d)
                 IN /\ result.status = "unchanged" <=> old = new
                    /\ result.status = "added" <=> DOMAIN old = {}
                    /\ result.status = "deleted" <=> DOMAIN new = {}
                    /\ result.chunks = Cardinality(DOMAIN new)
                    /\ result.upserted = Cardinality({id \in DOMAIN new : after[id] # before[id]})
                    /\ result.deleted = Cardinality(DOMAIN old \ DOMAIN new)
           /\ {Origin(after, id) : id \in Stored(after)} \subseteq DOMAIN report.documents
           /\ report.upserted = Told("upserted")
           /\ report.deleted + Cardinality(adopted) = Told("deleted")
           /\ report.total = Told("chunks") /\ report.total = Cardinality(Stored(after))
           /\ report.snapshot = Prints(after)
           /\ table[Store(p)] = after =>
                  \A problem \in Range(SnapshotProblems(p)) : problem = {}

=================================================================================

------------------------- MODULE ApplicationLifecycleMC -------------------------
(* Five things application processes do that share no state, one of them in     *)
(* each behaviour: the synchronisation of processes that start together, the    *)
(* preparation of the PostgreSQL runtime, the life of what a process owns, the  *)
(* indexing runs of workers with their reports, and the requests it serves.     *)
EXTENDS ApplicationStartup, RuntimeProviders, DocumentIndexing, HttpService

VARIABLE part

Parts == {"starts", "lifespan", "providers", "indexing", "indexingAlone", "http"}

lifecycleVars == <<part, appVars, lifespanVars, providerVars, indexingVars, httpVars>>

-----------------------------------------------------------------------------
\* Two fingerprints and a record that is gone, if the constants allow them.
OneCorpus == {CHOOSE m \in Corpora :
                 \A n \in Corpora : Cardinality({m[r] : r \in RecordIds})
                                    >= Cardinality({n[r] : r \in RecordIds})}
AnyCorpus == Corpora

EarlierContents == [Collections -> Manifests]

SeededInit ==
    /\ \E build \in EarlierContents :
          rows = [c \in Collections |-> [r \in RecordIds |->
                     [fingerprint |-> build[c][r],
                      updated |-> IF build[c][r] = None THEN 0 ELSE 1]]]
    /\ now = 1
    /\ lease = [c \in Collections |->
           [owner |-> None, fence |-> 1, acquired |-> 1, renewed |-> 1,
            expires |-> 0, released |-> 1]]
    /\ leaseLock = [c \in Collections |-> None]
    /\ pointer = [a \in Aliases |-> NoPointer]
    /\ pointerLock = [a \in Aliases |-> None]
    /\ history = [a \in Aliases |-> {}]
    /\ mark = [c \in Collections |-> NoMark]
    /\ LeaseInit /\ ReleaseInit /\ GCInit /\ AppInit

-----------------------------------------------------------------------------
\* Two documents of two chunks and one, with two contents each.  What is stored may
\* stem from either version, from elsewhere without a document, or lack a fingerprint.
TestChunkIds == {<<"a", 1>>, <<"a", 2>>, <<"b", 1>>}
TestDocumentOf(id) == <<id[1]>>
TestVersionOf(p) == IF p = "old" THEN 1 ELSE 2
TestLibraries ==
    {<<>>, [id \in TestChunkIds |-> "x"], [id \in {<<"a", 1>>} |-> "x"],
     [id \in TestChunkIds \ {<<"a", 2>>} |-> IF id[1] = "a" THEN "x" ELSE "y"]}
TestStored ==
    {[id \in TestChunkIds |->
        IF id = <<"a", 2>> THEN IF second = None THEN NoEntry ELSE Row(<<"a">>, <<second, "x">>)
        ELSE IF id = <<"b", 1>> THEN third ELSE Row(<<"a">>, <<1, "x">>)] :
            second \in {None, 1, 2},
            third \in {NoEntry, Row(<<"b">>, Nowhere), Row(Nowhere, <<0, "x">>), Row(<<"b">>, <<2, "x">>)}}

-----------------------------------------------------------------------------
\* Two clients send the same id, one an id that is not accepted.
TestTargetsOf == <<{<<"POST", "answers">>},
                   {<<"POST", "answers">>, <<"GET", "nowhere">>, <<"GET", "observability">>},
                   {<<"BREW", "answers">>, <<"GET", "provider">>, <<"GET", "ready">>, <<"GET", "metrics">>}>>
TestHeaderOf == <<<<"client", "a">>, <<"client", "!">>, <<"client", "a">>>>
TestSafeHeaders == {<<"client", "a">>}
TestBuckets == <<1, 2>>
TestDurationOf == <<1, 3, 1>>

-----------------------------------------------------------------------------
CollectionsAreEmpty == \A c \in Collections : Manifest(c) = EmptyManifest

LifecycleInit ==
    /\ part \in Parts
    /\ SeededInit
    /\ part # "starts" => CollectionsAreEmpty
    /\ LifespanInit
    /\ ProvidersInit
    /\ IndexingInit
    /\ HttpInit
    /\ part # "http" => installed
    /\ part # "indexing" => table["pgvector"] = [id \in ChunkIds |-> NoEntry]
    /\ part # "providers" =>
          schema = [version |-> SchemaVersion, drifted |-> FALSE] /\ CurrentMigration = -1

LifecycleNext ==
    /\ UNCHANGED part
    /\ \/ part = "starts" /\ AppNext /\ UNCHANGED <<lifespanVars, providerVars, indexingVars, httpVars>>
       \/ part = "lifespan" /\ LifespanNext /\ UNCHANGED <<appVars, providerVars, indexingVars, httpVars>>
       \/ part = "providers" /\ ProvidersNext /\ UNCHANGED <<appVars, lifespanVars, indexingVars, httpVars>>
       \/ /\ part = "indexing" /\ \E p \in SharedWorkers : IndexingWorker(p)
          /\ UNCHANGED <<appVars, lifespanVars, providerVars, httpVars>>
       \/ /\ part = "indexingAlone" /\ \E p \in Workers \ SharedWorkers : IndexingWorker(p)
          /\ UNCHANGED <<appVars, lifespanVars, providerVars, httpVars>>
       \/ part = "http" /\ HttpNext /\ UNCHANGED <<appVars, lifespanVars, providerVars, indexingVars>>

LifecycleSpec == LifecycleInit /\ [][LifecycleNext]_lifecycleVars /\ ProvidersFairness
=================================================================================

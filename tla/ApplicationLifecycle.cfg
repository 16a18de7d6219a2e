SPECIFICATION LifecycleSpec
CONSTANTS
    Collections = {green}
    RecordIds = {r1, r2, r3}
    Fingerprints = {f1, f2}
    Aliases = {}
    Builders = {}
    Operators = {}
    Collectors = {}
    Apps = {p1, p2, p3}
    None = None
    MaxTime = 2
    MaxFence = 1
    MaxGeneration = 0
    TTL = 1
    MaxDelay = 0
    Retention = 0
    Grace = 1
    AppCorpora <- OneCorpus
    Processes = {p1, p2, p3}
    Nobody = Nobody
    LastMigration = 1
    MaxStarts = 3
    Workers = {"old", "new", "local"}
    SharedWorkers = {"old", "new"}
    ChunkIds <- TestChunkIds
    DocumentOf <- TestDocumentOf
    Libraries <- TestLibraries
    VersionOf <- TestVersionOf
    StoredEarlier <- TestStored
    Nowhere = Nowhere
    MaxRequests = 3
    TargetsOf <- TestTargetsOf
    HeaderOf <- TestHeaderOf
    SafeHeaders <- TestSafeHeaders
    MaxRouteKeys = 1
    Buckets <- TestBuckets
    DurationOf <- TestDurationOf
    Nothing = Nothing
INVARIANTS
    ServingMatchesCorpus
    LeftOpenIsKnown
    PreparedIsComplete
    ReportIsTrue
    RequestsAreAccounted
PROPERTIES
    PreparationsEnd
\* Preparations are bounded, and a stopped process stays stopped.
CHECK_DEADLOCK FALSE

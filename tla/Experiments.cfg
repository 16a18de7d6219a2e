SPECIFICATION ExperimentsSpec
CONSTANTS
    None = None
    Absent = Absent
    Questions <- TestQuestions
    Requests <- TestRequests
    Amendments <- TestAmendments
    MaxRevisions = 2
    MinLines = 2
    MinConfidence = 80
    MaxScans = 2
    Similarity <- TestSimilarity
    RerankK = 3
    TopK = 2
    MaxQueryTerms = 2
    Ln <- TestLn
    Deployments <- TestDeployments
    Askers <- TestAskers
    Payloads <- TestPayloads
    Relevances <- TestRelevances
    MaxContext = 2
    MaxSources = 2
    MaxAttempts = 2
    LastDay = 2
    Messages <- TestMessages
    ResearchQuestions <- TestResearchQuestions
    Replies <- TestReplies
    MinIntentConfidence = 60
    PolicyChunks <- TestChunks
    Visible <- TestVisible
    LinkRules <- TestRules
    CaseLists <- TestCases
    Windows <- TestWindows
    AnchorTopK = 1
    PreserveTopK = 1
    MaxFaults = 2
    MaxEdits = 2
    RecordFiles <- TestRecordFiles
    Blank = Blank
    Unparsable = Unparsable
    Wrong = Wrong
    Null = Null
    FacetNames <- TestFacetNames
    Drafts <- TestDrafts
    EditsOf <- TestEditsOf
    PredictionFiles <- TestPredictionFiles
    MaxChanges = 2
    MaxRuns = 2
    Nil = Nil
INVARIANTS
    RouteFollowsPolicy
    ReadyIsComplete
    ChunksAreArticles
    FusionIsFair
    CitationsAreEvidence
    ReportIsSound
    ContractIsExact
    FacetsAreConfirmed
PROPERTIES
    LastChangeWins
    RestrictionIsInvisible
    PublishedWithoutDrift
\* A conversation ends.
CHECK_DEADLOCK FALSE

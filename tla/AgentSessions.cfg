\* Only one part runs in a behaviour, so the parts may share the names n1 and n2: fewer
\* permutations have to be tried.
SPECIFICATION SessionsSpec
CONSTANTS
    Requests = {n1, n2}
    Texts = {t1, t2}
    Complete = {t1}
    None = None
    MaxRevision = 2
    MaxArrivals = 4
    Callers = {n1, n2}
    Utterances <- TestUtterances
    Replies <- TestReplies
    MaxStoredTurns = 2
    MessageLimit = 3
    PieceLimit = 4
    MaxContent = 3
    MaxRequest = 3
    MaxTurns = 3
    Runs = {n1, n2}
    SavedChannels = {"draft", "turn"}
    NodeWrites <- TestNodeWrites
    NoValue = NoValue
    MaxCheckpoints = 3
    Calls <- TestCalls
    MaxAnswers = 4
    Chats = {h1, h2, h3}
    Keys = {n1, n2}
    Absent = Absent
    MaxKeys = 1
    Coalescing = TRUE
SYMMETRY AnyOrder
INVARIANTS
    OneReceiptPerDraft
    ReceiptsWereConfirmed
    SubmittedMeansReceipt
    MemoryIsFaithful
    CheckpointsReadBackWhole
    ReceiptsAreAudited
    SharingIsInvisible
CHECK_DEADLOCK FALSE

\* Two instances, one session: two revisions, two turns, a memory that keeps one
\* turn; three submissions of two drafts with two keys and two ids.
SPECIFICATION StoresSpec
CONSTANTS
    a1 = a1
    a2 = a2
    b1 = b1
    Instances = {p1, p2}
    None = None
    Refs = {a1, a2}
    Bodies = {b1}
    Payloads <- TestPayloads
    MaxStoredTurns = 1
    MaxTurn = 2
    MaxAppends = 2
    Keys = {k1, k2}
    Drafts = {d1, d2}
    Ids = {i1, i2}
    MaxCalls = 3
SYMMETRY Interchangeable
INVARIANTS
    StoresAreCurrent
    AnswersAreDurable
PROPERTIES
    NothingMovesBack
    ImplementsReceiptLedger

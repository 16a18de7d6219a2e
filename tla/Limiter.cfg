SPECIFICATION FairSpec
CONSTANTS
    Requests = {p1, p2, p3, p4, p5}
    Closers = {c1}
    Enabled = TRUE
    MaxConcurrency = 2
    MaxQueue = 2
    Modulus = 2
INVARIANTS
    PermitsAreConserved
PROPERTIES
    EveryoneIsServedInTurn
CHECK_DEADLOCK FALSE

SPECIFICATION SeededSpec
CONSTANTS
    Collections = {blue, green, teal}
    RecordIds = {r1}
    Fingerprints = {f1}
    Aliases = {live}
    Builders = {}
    Operators = {o1, o2}
    Collectors = {k1}
    None = None
    MaxTime = 2
    MaxFence = 1
    MaxGeneration = 3
    TTL = 1
    MaxDelay = 0
    Retention = 0
    Grace = 1
SYMMETRY Interchangeable
INVARIANTS
    Protection
    HistoryIsTrue
PROPERTIES
    SweepSparesReferenced
    ReleaseSawItsPredecessor
CHECK_DEADLOCK FALSE

SPECIFICATION SeededSpec
CONSTANTS
    Collections = {blue, green}
    RecordIds = {r1}
    Fingerprints = {f1, f2}
    Aliases = {live}
    Builders = {b1}
    Operators = {o1}
    Collectors = {}
    None = None
    MaxTime = 3
    MaxFence = 2
    MaxGeneration = 3
    TTL = 1
    MaxDelay = 1
    Retention = 0
    Grace = 1
SYMMETRY Interchangeable
INVARIANTS
    ReleasedContentIntact
PROPERTY ImplementsReleaseLog
CHECK_DEADLOCK FALSE

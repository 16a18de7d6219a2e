SPECIFICATION Spec
CONSTANTS
    Collections = {green}
    RecordIds = {r1}
    Fingerprints = {f1, f2}
    Aliases = {live}
    Builders = {b1}
    Operators = {o1}
    Collectors = {}
    None = None
    MaxTime = 3
    MaxFence = 2
    MaxGeneration = 1
    TTL = 1
    MaxDelay = 2
    Retention = 0
    Grace = 1
INVARIANT PublishedSnapshotIntact
CHECK_DEADLOCK FALSE

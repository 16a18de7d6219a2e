\* Two builders and a collector of one collection, on a short clock: guards may
\* reach the database one unit late.
SPECIFICATION SeededSpec
CONSTANTS
    Collections = {green}
    RecordIds = {r1}
    Fingerprints = {f1, f2}
    Aliases = {}
    Builders = {b1, b2}
    Operators = {}
    Collectors = {k1}
    None = None
    MaxTime = 3
    MaxFence = 3
    MaxGeneration = 0
    TTL = 1
    MaxDelay = 1
    Retention = 1
    Grace = 1
SYMMETRY Interchangeable
INVARIANTS
    FencingIsExact
    BuildIsExact
PROPERTIES
    LiveLeaseIsNeverTaken
    SweepsFollowTheirMark
CHECK_DEADLOCK FALSE

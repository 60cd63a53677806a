SPECIFICATION Spec
CONSTANTS
    Heights = {3, 4}
    BatchSize = 3
    ChunkSizes = {0, 1, 2}
    Concurrencies = {0, 1, 2}
    Ranges <- MCRanges
    LastBlock = 4
    Policies = {"none", "throttle", "aggregation"}
    ThrottleMax = 1
CHECK_DEADLOCK FALSE
INVARIANTS
    BlocksOnceInOrder
    ReportConsistent
PROPERTY
    RunEnds

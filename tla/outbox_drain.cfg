SPECIFICATION FairSpec
CONSTANTS
    Keys <- MCKeys
    Broken = {"k1"}
    Batches <- MCBatches
    BatchSize = 1
    Concurrency = 1
    MaxId = 3
    MaxRetries = 1
    Faults <- OnlyStops
PROPERTY DrainAttemptsAll

SPECIFICATION FairSpec
CONSTANTS
    Keys <- MCKeys
    Broken = {"k1"}
    Batches <- MCBatches
    BatchSize = 2
    Concurrency = 2
    MaxId = 4
    MaxRetries = 0
    Faults <- Transient
PROPERTIES
    EveryRowLeaves
    DrainEnds

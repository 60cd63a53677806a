SPECIFICATION Spec
CONSTANTS
    Keys <- MCKeys
    Broken = {"k1"}
    Batches <- MCBatches
    BatchSize = 2
    Concurrency = 2
    MaxId = 4
    MaxRetries = 1
    Faults <- AllFaults
INVARIANTS
    TypeOK
    OnceUnlessFault
PROPERTIES
    OldestFirst
    ImplementsDeliveryQueue

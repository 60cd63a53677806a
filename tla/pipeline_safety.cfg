SPECIFICATION DeliverySpec
CONSTANTS
    ChunkSize = 2
    Confirmations = 1
    MatchesCap = 1
    StartKind = "file"
    StartArg <- MinusThree
    MatchBlocks <- MCMatchBlocks
    MaxHead = 4
    MaxLag = 1
    Faults <- AllFaults
INVARIANTS
    TypeOK
    ConfirmedOnly
    ProgressCovered
    MatchesAccountedFor
    RepeatsExplained
PROPERTIES
    HandOffInOrder
    ImplementsCheckpoint

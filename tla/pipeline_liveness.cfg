SPECIFICATION FairSpec
CONSTANTS
    ChunkSize = 2
    Confirmations = 1
    MatchesCap = 1
    StartKind = "file"
    StartArg <- MinusThree
    MatchBlocks <- MCMatchBlocks
    MaxHead = 5
    MaxLag = 1
    Faults <- TransientFaults
PROPERTY MatchesDelivered

SPECIFICATION Spec
CONSTANTS
    Actions <- MCActions
    Matches <- MCMatches
    ActionOf <- MCActionOf
    Batches <- MCBatches
    Configs <- AllConfigs
    MaxCount = 1
    ThrottleWindow = 1
    AggWindow = 1
    Faults <- AllFaults
INVARIANTS
    TypeOK
    AlertsAccountedFor
    ThrottleLimit
PROPERTY CleanStop

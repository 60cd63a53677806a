SPECIFICATION FairSpec
CONSTANTS
    Actions <- MCActions
    Matches <- MCMatches
    ActionOf <- MCActionOf
    Batches <- LiveBatches
    Configs <- OneConfig
    MaxCount = 1
    ThrottleWindow = 0
    AggWindow = 1
    Faults <- StopsAndErrors
PROPERTY WindowsAreDispatched

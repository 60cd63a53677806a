SPECIFICATION Spec
CONSTANTS
    I64Max = 3
    MaxOperations = 3
    MaxDecimal = 5
    MaxItems = 2
    MaxStops = 2
    AbiEvents <- MCEvents
    AbiCalls <- MCCalls
    Setups <- MCSetups
    Items <- MCItems
CHECK_DEADLOCK FALSE
INVARIANTS
    TypeOK
    RowsDelivered
    RenderFailureExplained
    
    PayloadsIndependent

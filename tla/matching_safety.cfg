CONSTANTS
    Address <- MCAddress
    Event <- MCEvent
    AbiName <- MCAbiName
    AbiEvents <- MCAbiEvents
    AbiCalls <- MCAbiCalls
    Catalogue <- MCCatalogue
    Blocks <- MCBlocks
    MaxMonitors = 2
    MaxReloads = 1
    Faults = {"receipt", "script"}
SPECIFICATION Spec
INVARIANTS
    SteadyMonitorsServed
    
    OneKindOfMatch
    FailuresExplained
    LogFilterExact

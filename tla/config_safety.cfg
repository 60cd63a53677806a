CONSTANTS
    ActionName = {"a", "b", "B", "c", "q"}
    MonitorName = {"m", "n"}
    AbiName = {"p", "x", "y"}
    NoAbi = NoAbi
    Alike <- MCAlike
    Client = {c1, c2}
    Menu <- MCMenu
    FileActions <- MCFileActions
    FileMake <- MCFileMake
    FileMonitors <- MCFileMonitors
    FileAbis = {"p", "x"}
    Faults = {"db", "disconnect", "crash"}
    MaxRequests = 2
    MaxFaults = 2
    MaxStarts = 2
SPECIFICATION Spec
CHECK_DEADLOCK FALSE
INVARIANTS
    TypeOK
    TablesConsistent
    NoChangeForgotten
    DanglingExplained
    AlertsRouted
    RefusalExplained
PROPERTIES
    InternalErrorExplained
    ChangesReachEngine

SPECIFICATION Spec
CONSTANTS
    PerPage = 2
    MaxPages = 2
    MaxLog = 3
    MaxCrashes = 2
INVARIANTS
    FreeListExact
    RecordsExact
    ScanComplete
CHECK_DEADLOCK FALSE

SPECIFICATION MCSpec
CONSTANTS
    MaxNotes = 2
    MaxRemovals = 2
    MaxHeads = 2
    MaxRequests = 1
    None = None
INVARIANTS
    TypeOK
    RemovedStaysRemoved
    AbsentIsNotDirty
    RemovalConverges
    CleanIsInDrive
    DownloadIsFresh
PROPERTY OperationsEnd
CHECK_DEADLOCK FALSE

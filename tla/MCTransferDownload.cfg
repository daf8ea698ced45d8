SPECIFICATION Spec
CONSTANTS
    Contents = {"old", "new"}
    Parts = 2
    PartSize = 2
    MaxParallel = 2
    MaxHandlers = 2
    Retries = 2
    Faults = {"http"}
CHECK_DEADLOCK FALSE
PROPERTY DownloadIsComplete

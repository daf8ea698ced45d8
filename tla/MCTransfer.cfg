SPECIFICATION Spec
CONSTANTS
    Contents = {"old", "new"}
    Parts = 3
    PartSize = 1
    MaxParallel = 2
    MaxHandlers = 2
    Retries = 2
    Faults = {"net", "http", "missing", "etag", "setup", "init", "thread"}
CHECK_DEADLOCK FALSE
INVARIANTS TypeOK HandlesAccounted ThreadsStayInside
PROPERTIES ImplementsObjectStore OperationReturns

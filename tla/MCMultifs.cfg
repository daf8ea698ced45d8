SPECIFICATION Spec
CONSTANTS
    S3Paths = {"a"}
    SmbPaths = {"m"}
    BadPaths = {}
    Commands = {"OPEN", "CLOSE", "REMOVE", "READ", "WRITE", "FLUSH", "TRUNCATE", "STAT", "CACHE", "LOG"}
    MaxRequests = 3
    MaxPending = 2
    OpFails = TRUE
CHECK_DEADLOCK FALSE
INVARIANTS TypeOK AnswersInOrder InSync
PROPERTY EveryRequestAnswered

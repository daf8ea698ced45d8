CONSTANTS
    Own = "own"
    Others = {"a"}
    Faults = {"full"}
SPECIFICATION Spec
INVARIANT NoSelfLock

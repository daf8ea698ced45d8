CONSTANTS
    Own = "own"
    Others = {"a", "b"}
    Faults = {"open", "link", "full", "resize", "net"}
SPECIFICATION Spec
INVARIANTS
    TypeOK
    Released
    InUse
    NeverUnderflows
    SelfLocksOnlyInCleanup
PROPERTIES
    OwnFileKept
    HandlersReturn

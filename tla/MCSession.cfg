SPECIFICATION Spec
CONSTANTS
    Paths <- AllPaths
    MaxOpens = 2
    Faults = {"libs", "config", "space", "dirs", "net", "moved", "kill"}
INVARIANTS
    TypeOK
    OpenSurvives
    ClosedIsFlushed
    StaleCacheUnused
PROPERTY ServiceFound

SPECIFICATION Spec
CHECK_DEADLOCK FALSE
CONSTANTS
    Paths <- AllPaths
    MaxOpens = 2
    Faults = {}
PROPERTY OnlyCacheRemoved

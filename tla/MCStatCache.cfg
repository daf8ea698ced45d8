SPECIFICATION Spec
CONSTANTS
    Dir = "d"
    DirKinds <- TwoKinds
    Files <- TwoFiles
    CacheSize = 1
    Options <- FourOptions
    None = None
    MaxTime = 1
    Faults = {"net", "others"}
INVARIANTS TypeOK OpenIsFresh OwnChangesSeen CacheBounded
PROPERTY HandlersEnd
CHECK_DEADLOCK FALSE

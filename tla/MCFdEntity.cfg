CONSTANTS
    MaxSize = 4
    Byte = {0, 1}
    Zero = 0
    Prefetch = 2
    Faults = {"net", "disk"}
SPECIFICATION Spec
CONSTRAINT NotBroken
INVARIANTS
    TypeOK
    SizesAgree
    Coherent
    DirtyIsComplete
    CleanIsDurable
    ReadsBack
PROPERTY UploadsAreWhole

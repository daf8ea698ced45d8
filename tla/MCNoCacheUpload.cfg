SPECIFICATION Spec
CONSTANTS
    MaxSize = 5
    Bytes = {"0", "a", "b"}
    Zero = "0"
    MultipartSize = 2
    MinPart = 2
    MaxParts = 4
    Faults = {"space", "net"}
CONSTRAINT NotBent
INVARIANTS TypeOK SavedIsFile

CONSTANTS
    MaxSize = 2
    Byte = {0, 1}
    Zero = 0
    Prefetch = 1
    Faults = {"net", "disk"}
SPECIFICATION Spec
INVARIANT ChangedIsModify

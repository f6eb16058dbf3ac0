CONSTANTS
    MemSize = 5
    Byte = {0, 1, 2}
    SIZE_RANGE = 8
    FullCounts = TRUE
    NULL = NULL
SPECIFICATION StringsSpec
INVARIANT StrncpyWritesCount

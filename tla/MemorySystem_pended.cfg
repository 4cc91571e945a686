CONSTANTS
    MEMORY_MAX_PENDING = 4
    I_CACHE_LINES = 4
    D_CACHE_LINES = 8
    MemorySize = 160
    StrayWords = {}
    CodeWords = {0, 16}
    DataAddresses = {32}
    ReadLatency = 2
    WriteLatency = 1
    Nothing = Nothing
    Garbage = Garbage
SPECIFICATION Spec
PROPERTY MissIsPended

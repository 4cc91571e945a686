CONSTANTS
    MEMORY_MAX_PENDING = 2
    I_CACHE_LINES = 1
    D_CACHE_LINES = 6
    MemorySize = 96
    CodeWords = {0}
    StrayWords = {}
    DataAddresses = {80}
    ReadLatency = 0
    WriteLatency = 0
    Nothing = Nothing
    Garbage = Garbage
    StoredValues <- MCStored
    Leftovers <- MCLeftovers
SPECIFICATION DRunSpec
PROPERTY EveryLoadCompletes

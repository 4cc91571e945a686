CONSTANTS
    MEMORY_MAX_PENDING = 2
    I_CACHE_LINES = 1
    D_CACHE_LINES = 6
    MemorySize = 64
    CodeWords = {0}
    StrayWords = {64}
    DataAddresses = {4, 48}
    ReadLatency = 1
    WriteLatency = 1
    Nothing = Nothing
    Garbage = Garbage
    StoredValues <- MCStored
    Leftovers <- MCLeftovers
SPECIFICATION DSpec
INVARIANT InstructionHitIsTrue
INVARIANT CleanLinesAreTrue
INVARIANT LoadsAreRight
PROPERTY ResidentStays

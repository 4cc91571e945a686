CONSTANTS
    MEMORY_MAX_PENDING = 2
    I_CACHE_LINES = 2
    D_CACHE_LINES = 6
    MemorySize = 48
    CodeWords = {0, 16}
    StrayWords = {48}
    DataAddresses = {16}
    ReadLatency = 2
    WriteLatency = 1
    Nothing = Nothing
    Garbage = Garbage
    StoredValues <- MCNoBytes
    Leftovers <- MCNoBytes
SPECIFICATION DRunSpec
INVARIANT InstructionHitIsTrue
PROPERTY FetchCompletes
PROPERTY LoadCompletes
PROPERTY PollsComeNearer

CONSTANTS
    Registers = {0, 1, 2}
    Values = {0, 1}
    Exec <- MCExec
    Taken <- MCTaken
    PCTop = 8
    BlockSize = 2
    ENTRY_NUM = 2
    Programs <- MCLoops
    Undef = Undef
    Diverged = Diverged
    ZeroReadLatency = FALSE
    StepsLimited = FALSE
SPECIFICATION HSpec
PROPERTY RefinesSequential
CHECK_DEADLOCK FALSE

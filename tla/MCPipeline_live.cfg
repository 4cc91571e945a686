CONSTANTS
    Registers = {0, 1, 2}
    Values = {0, 1}
    Exec <- MCExec
    Taken <- MCTaken
    PCTop = 8
    BlockSize = 2
    ENTRY_NUM = 2
    Programs <- MCSplitLoops
    Undef = Undef
    ZeroReadLatency = TRUE
    StepsLimited = FALSE
SPECIFICATION FairSpec
PROPERTY Progress
CHECK_DEADLOCK FALSE

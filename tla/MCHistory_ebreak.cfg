CONSTANTS
    Registers = {0, 1, 2}
    Values = {0, 1}
    Exec <- MCExec
    Taken <- MCTaken
    PCTop = 8
    BlockSize = 2
    ENTRY_NUM = 2
    Programs <- MCJumpTest
    Undef = Undef
    Diverged = Diverged
    ZeroReadLatency = TRUE
    StepsLimited = FALSE
SPECIFICATION HSpec
INVARIANT StopsOnlyAtEbreak
CHECK_DEADLOCK FALSE

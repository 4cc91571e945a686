CONSTANTS
    Registers = {0, 1, 2}
    Values = {0, 1}
    Exec <- MCExec
    Taken <- MCTaken
    PCTop = 8
    BlockSize = 2
    ENTRY_NUM = 2
    Programs <- MCForwardJump
    Undef = Undef
    ZeroReadLatency = FALSE
    StepsLimited = FALSE
SPECIFICATION Spec
PROPERTY RedirectHonoured
CHECK_DEADLOCK FALSE

CONSTANTS
    Registers = {0, 1, 2}
    Values = {0, 1}
    Exec <- MCExec
    Taken <- MCTaken
    PCTop = 6
    BlockSize = 2
    ENTRY_NUM = 2
    Programs <- MCPair
    Undef = Undef
    Diverged = Diverged
    ZeroReadLatency = TRUE
    StepsLimited = TRUE
    LineLength = 2
    MaxCommands = 2
    Outside = Outside
SPECIFICATION SessionSpec
INVARIANT SInv
INVARIANT PredictionsAreExact
PROPERTY RefinesSession
CHECK_DEADLOCK FALSE

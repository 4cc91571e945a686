CONSTANTS
    Registers = {0, 1, 2}
    Values = {0, 1}
    Exec <- MCExec
    Taken <- MCTaken
    PCTop = 8
    BlockSize = 2
    ENTRY_NUM = 2
    Programs <- MCSplitLoops
    Undef = Undef
    Diverged = Diverged
    ZeroReadLatency = FALSE
    StepsLimited = TRUE
SPECIFICATION HSpec
INVARIANT TypeOK
INVARIANT IInv
INVARIANT PredictionsAreExact
INVARIANT ReplayHits
INVARIANT StaysInStep
PROPERTY PathIsRight
PROPERTY RefinesSequential
CHECK_DEADLOCK FALSE

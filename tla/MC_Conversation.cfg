CONSTANTS
    MaxAnswers = 2
    MaxBlocks = 2
SPECIFICATION Spec
INVARIANTS TypeOK NothingRejected HistoryKept ToolTurns
CHECK_DEADLOCK FALSE

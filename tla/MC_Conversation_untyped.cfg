CONSTANTS
    MaxAnswers = 1
    MaxBlocks = 1
SPECIFICATION Spec
INVARIANTS InputIsTold
CHECK_DEADLOCK FALSE

CONSTANTS
    None = None
    Cap = 2
    MaxEvents = 4
SPECIFICATION Spec
INVARIANTS ReadsAllEvents
CHECK_DEADLOCK FALSE

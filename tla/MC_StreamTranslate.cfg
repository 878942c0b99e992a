CONSTANTS
    c1 = c1
    c2 = c2
    None = None
    Calls = {c1, c2}
    Fragments <- MCFragments
    MaxBlocks = 2
    MaxFragments = 2
SPECIFICATION Spec
INVARIANTS TypeOK DoneRepeatsDeltas SameAnswer CutIsVisible
CHECK_DEADLOCK FALSE

SPECIFICATION Spec
CONSTANTS
    DEPTH = 1
    FANOUT = 2
    MaxNodes = 4
INVARIANTS
    TreeStops
CHECK_DEADLOCK FALSE

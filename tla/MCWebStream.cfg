SPECIFICATION Spec
CONSTANTS
    v1 = v1
    NULL = NULL
    RESYNC = RESYNC
    Viewers <- One
    OutMax = 2
    RingMax = 2
    QueueMax = 3
    MaxEvents = 3
    MaxMints = 1
    MaxCuts = 1
    MaxFlaps = 1
    MaxRooms = 2
INVARIANTS
    NothingMissedInSilence
    NoFalseGap
PROPERTIES
    ViewersCatchUp
CHECK_DEADLOCK FALSE

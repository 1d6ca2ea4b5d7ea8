SPECIFICATION Spec
CONSTANTS
    c1 = c1
    c2 = c2
    c3 = c3
    u1 = u1
    u2 = u2
    NULL = NULL
    Conns <- Two
    UserOf <- Apart
    QueueMax = 2
    MaxSent = 3
    MaxCalls = 1
    MaxParting = 2
PROPERTIES
    FeedCatchesUp
    WedgedEvicted
    NoneLeftSilent
CHECK_DEADLOCK FALSE

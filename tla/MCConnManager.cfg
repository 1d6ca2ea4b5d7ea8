SPECIFICATION Spec
CONSTANTS
    c1 = c1
    c2 = c2
    c3 = c3
    u1 = u1
    u2 = u2
    NULL = NULL
    Conns <- Three
    UserOf <- Reconnecting
    QueueMax = 1
    MaxSent = 2
    MaxCalls = 1
    MaxParting = 1
PROPERTIES
    FeedSpec
CHECK_DEADLOCK FALSE

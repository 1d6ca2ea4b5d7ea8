SPECIFICATION Spec
CONSTANTS
    ann = ann
    bob = bob
    cat = cat
    dan = dan
    NULL = NULL
    a1 = a1
    b1 = b1
    c1 = c1
    d1 = d1
    Clients <- Three
    Ids <- OneIdEach
    Owner <- OwnerOf
    Name <- Names
    MaxUsers = 3
    StoreMax = 1
    MaxEpoch = 2
    MaxWedge = 0
    LongIdle <- NoOne
    LossCancels = FALSE
INVARIANTS
    RemainingHandedPassword
CHECK_DEADLOCK FALSE

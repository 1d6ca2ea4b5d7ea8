SPECIFICATION FairSpec
CONSTANTS
    ann = ann
    bob = bob
    cat = cat
    dan = dan
    NULL = NULL
    a1 = a1
    b1 = b1
    c1 = c1
    d1 = d1
    Clients <- Two
    Ids <- OneIdEach
    Owner <- OwnerOf
    Name <- Names
    MaxUsers = 2
    StoreMax = 1
    MaxEpoch = 2
    MaxWedge = 2
    LongIdle <- Anyone
    LossCancels = TRUE
PROPERTIES
    LeavesNothing
    OnlyOldestRekeys
    KickCompletes

SPECIFICATION MCSpec
CONSTANTS
    ann = ann
    bob = bob
    Nobody = Nobody
    People <- Two
    Named <- JustBob
    Owner = ann
    Harness = "native"
    MaxPrompts = 1
    MaxControl = 1
    py1 = py1
    py2 = py2
    tui = tui
    Chunks = 1
    MaxOffers = 1
INVARIANTS
    TypesOK
    NoDeniedPrompt
    
PROPERTIES
    DriveIsFresh
    MirrorConverges
    AcceptedArrives
CHECK_DEADLOCK FALSE

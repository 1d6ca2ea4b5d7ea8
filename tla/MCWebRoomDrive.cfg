SPECIFICATION MCSpec
CONSTANTS
    s1 = s1
    s2 = s2
    s3 = s3
    phone = phone
    p1 = p1
    p2 = p2
    NULL = NULL
    Socks <- ThreeSockets
    Clients <- OnePhone
    ClientOf <- Flapping
    Pubs <- OnePublisher
    MaxViewers = 1
    LossCancels <- OneSocket
    NoOne = NoOne
    Browsers = {b1}
    Owners = {o1}
    MaxPlaces = 2
    MaxFrames = 2
    RoomMax = 2
    UpMax = 2
    OutMax = 1
INVARIANTS
    TypeOK
    ViewersBounded
    ReclaimsOwnPlace
    DriverPresent
    
PROPERTIES
    FlapKeepsPlace
    
CHECK_DEADLOCK FALSE

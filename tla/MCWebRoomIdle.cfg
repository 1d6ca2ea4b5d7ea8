SPECIFICATION Spec
CONSTANTS
    s1 = s1
    s2 = s2
    s3 = s3
    phone = phone
    p1 = p1
    p2 = p2
    NULL = NULL
    Socks <- OneSocket
    Clients <- OnePhone
    ClientOf <- Flapping
    Pubs <- TwoPublishers
    MaxViewers = 1
    LossCancels <- OneSocket
PROPERTIES
    PublisherKeepsRoom
CHECK_DEADLOCK FALSE

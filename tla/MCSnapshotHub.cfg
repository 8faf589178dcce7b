CONSTANTS
    reader = reader
    other = other
    idler = idler
    c1 = c1
    c2 = c2
    NoContent = NoContent
    Subscribers = {reader, other, idler}
    Readers = {reader, other}
    Contents = {c1, c2}
    MaxGen = 3
SPECIFICATION FairSpec
INVARIANTS
    TypeOK
    LiveSubscribersHoldLatest
    NoSendOnClosed
    DeliveryOrdered
PROPERTIES
    ImplementsRegister
    PublisherNeverBlocks
    ReadersConverge
CHECK_DEADLOCK FALSE

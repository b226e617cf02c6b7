SPECIFICATION Spec
CONSTANTS
    Producers = {p1, p2, p3}
    Consumer = c
    BufferSize = 2
    MaxClaims = 5
INVARIANTS
    TypeOK
    FindsItsBuffer
PROPERTIES
    ImplementsInbox
    NoneIsHonest
    EnqueueEnds
    Delivered
CHECK_DEADLOCK FALSE

SPECIFICATION Spec
CONSTANTS
    Owner = owner
    t1 = t1
    Thieves = {t1, t2}
    Fifo = FALSE
    InitCap = 2
    MinCapacity = 2
    ShrinkFactor = 3
    MaxPush = 4
INVARIANTS
    TypeOK AtMostOnce NothingLost NoUseAfterFree BufferAccounting ResizeFits
PROPERTIES ImplementsDeque EmptyIsHonest
\* Everything stops once the deque is dropped.
CHECK_DEADLOCK FALSE

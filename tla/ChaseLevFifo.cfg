SPECIFICATION LiveSpec
CONSTANTS
    Owner = owner
    t1 = t1
    Thieves = {t1, t2}
    Fifo = TRUE
    InitCap = 1
    MinCapacity = 1
    ShrinkFactor = 3
    MaxPush = 3
PROPERTIES ImplementsDeque Drained
\* Everything stops once the deque is dropped.
CHECK_DEADLOCK FALSE

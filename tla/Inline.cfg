SPECIFICATION LiveSpec
CONSTANTS
    Owner = owner
    t1 = t1
    Thieves = {t1, t2}
    InitCap = 2
    MinCapacity = 2
    ShrinkFactor = 3
    Width = 4
    Starts = {0, 6}
    MaxPush = 4
INVARIANTS BuffersKept
PROPERTIES ImplementsDeque Drained
\* Everything stops once the deque is dropped.
CHECK_DEADLOCK FALSE

SPECIFICATION LiveSpec
CONSTANTS
    Owner = owner
    t1 = t1
    Thieves = {t1, t2}
    InitLen = 1
    Capacity = 2
    NodeSize = 2
    MaxArray = 3
    MaxPut = 4
INVARIANTS WalkInv FreedOnce EmptyIsHonest
PROPERTIES ImplementsRelaxed Delivered
\* Everything stops once the queue is dropped.
CHECK_DEADLOCK FALSE

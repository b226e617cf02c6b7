SPECIFICATION LiveSpec
CONSTANTS
    Owner = owner
    t1 = t1
    Thieves = {t1, t2}
    NumBlocks = 3
    BlockSize = 2
    MaxPut = 4
INVARIANTS TypeOK AtMostOnce LostOnlyByReentry ListKept
PROPERTIES Drained

SPECIFICATION Spec
CONSTANTS
    Owner = owner
    Thieves = {t1}
    NumBlocks = 2
    BlockSize = 2
    MaxPut = 5
INVARIANTS NothingLost

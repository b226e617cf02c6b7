SPECIFICATION SpecLinked
CONSTANTS
    Owner = owner
    Thieves = {t1}
    NumBlocks = 3
    BlockSize = 1
    MaxPut = 4
INVARIANTS AtOrBehindFront

SPECIFICATION LiveSpec
CONSTANTS
    NumNodes = 3
    NumSeeds = 1
    MaxTasks = 6
    CanPanic = {3}
    Values = {1, 2}
    MaxLog = 6
    Stealers = {t1, t2}
    NumLevels = 2
    MaxPrio = 4
    AccessLists <- MCAccessLists
    MaxStrands = 4
    MaxNested = 3
INVARIANTS OneAnswerOwed FindsAllRaces
PROPERTIES ImplementsPool Terminates ImplementsDurable PopsHighest StealsHighest
\* The nodes stop when all work is done, a program when it is large enough.
CHECK_DEADLOCK FALSE

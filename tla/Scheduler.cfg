SPECIFICATION Spec
CONSTANTS
    NumWorkers = 2
    NumSeeds = 2
    MaxTasks = 5
    MaxPanics = 1
INVARIANTS
    TypeOK
    SleeperIsOwedAWake
PROPERTIES
    ImplementsPool
CHECK_DEADLOCK FALSE

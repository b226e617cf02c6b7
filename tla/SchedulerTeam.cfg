SPECIFICATION FairSpec
CONSTANTS
    NumWorkers = 3
    NumSeeds = 2
    MaxTasks = 3
    MaxPanics = 0
PROPERTIES
    Terminates
CHECK_DEADLOCK FALSE

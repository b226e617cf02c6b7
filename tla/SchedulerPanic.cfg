SPECIFICATION FairSpec
CONSTANTS
    NumWorkers = 2
    NumSeeds = 2
    MaxTasks = 3
    MaxPanics = 1
PROPERTIES
    IdleTeamExits
CHECK_DEADLOCK FALSE

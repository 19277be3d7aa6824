SPECIFICATION FairSpec
CONSTANTS
    Alice = Alice
    Tasks <- MCTasks
    Reports <- MCReports
    Mask <- MCMask
    MaxFaults = 1
PROPERTIES
    StatusIsLookedAt
CHECK_DEADLOCK FALSE

SPECIFICATION FairSpec
CONSTANTS
    Alice = Alice
    Tasks <- MCTasks
    Reports <- MCReports
    Mask <- MCMask
    MaxFaults = 1
INVARIANTS
    TypeOK
    ListensWhileOpen
    QuietWhenClosed
PROPERTIES
    FlaggedOnce
    ReturnsOnChange
    SignalEndsWait
CHECK_DEADLOCK FALSE

SPECIFICATION Spec
CONSTANTS
    Tty = Tty
    Alice = Alice
    Tasks <- MCTasks
    Settings <- MCSettings
    Requests <- MCRequests
    PortBytes <- MCPortBytes
    MaxFaults = 1
INVARIANTS
    TypeOK
    LinesFollow
    HangupDrops
    ConfigFollows
    RateNearest
CHECK_DEADLOCK FALSE

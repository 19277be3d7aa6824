SPECIFICATION Spec
CONSTANTS
    Tty = Tty
    Alice = Alice
    Tasks <- MCTasks
    Settings <- MCSettings
    Requests <- MCRequests
    PortBytes <- MCPortBytes
    MaxFaults = 1
INVARIANTS
    B0IsASetting
CHECK_DEADLOCK FALSE

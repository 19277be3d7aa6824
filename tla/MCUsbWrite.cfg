SPECIFICATION FairSpec
CONSTANTS
    BUF_SIZE = 4
    BULK_OUT_SIZE = 2
    User = User
    Echo = Echo
    Writers <- MCWriters
    Callback = Callback
    MaxBytes = 5
    MaxSessions = 2
    MaxFaults = 1
INVARIANTS
    TypeOK
    OwnedOnce
    TailInUrb
    QuietAfterClose
    NothingLost
PROPERTIES
    StreamSpec
    Delivered
CHECK_DEADLOCK FALSE

SPECIFICATION FairSpec
CONSTANTS
    MAX_TASKS = 5
    RX_CAPACITY = 3
    OFFSETS_LEN = 2
    BUILTINS_LEN = 2
    COUNT_LEN = 1
    INSPECT_LEN = 2
    SIZES_LEN = 1
    GOT_LEN = 2
    Calls <- MCCalls
    MaxCalls = 2
    StartsCached = TRUE
INVARIANTS
    TypeOK
    InOrder
    DeathHasCause
PROPERTIES
    OwnAnswer
    ConversationSpec
    OverrunHasCause
    CallsReturn
CHECK_DEADLOCK FALSE

SPECIFICATION Spec
CONSTANTS
    MAX_TASKS = 5
    RX_CAPACITY = 3
    OFFSETS_LEN = 2
    BUILTINS_LEN = 2
    COUNT_LEN = 1
    INSPECT_LEN = 2
    SIZES_LEN = 1
    GOT_LEN = 2
    Calls <- MCStartOnly
    MaxCalls = 2
    StartsCached = FALSE
INVARIANT
    BoardSurvives
CHECK_DEADLOCK FALSE

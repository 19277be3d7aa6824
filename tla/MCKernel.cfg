SPECIFICATION FairSpec
CONSTANTS
    MAX_TASKS = 2
    TASK_MEM_SIZE = 384
    TASKS_LOC = 1504
    ISR_FRAME = 18
    KERNEL_SP = 2299
    Blank = Blank
    Programs <- MCPrograms
    Code <- MCCode
    PayloadSize <- MCPayloadSize
    Depth <- MCDepth
    Grown <- MCGrown
    Quiet <- MCQuiet
    Pokes <- MCPokes
    Junk = {0}
INVARIANTS
    TypeOK
    FrameHarmless
    FreeMatchesImage
    DeafOnlyInAtomic
PROPERTIES
    DamageConfined
    CodeStaysPut
    PolledInTurn
    HearsAgain

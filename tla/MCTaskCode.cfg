SPECIFICATION Spec
CONSTANTS
    Tokens <- MCTokens
    Chars <- MCChars
    Bytes <- MCBytes
    Bounds <- MCBounds
    Examples <- MCExamples
    CODE_LOC = 342
INVARIANTS
    InLockstep
    JumpsLandOnOps
    FlagFollowsBlocks
    StringsTerminated
    CellsApart
CHECK_DEADLOCK FALSE

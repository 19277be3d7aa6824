SPECIFICATION Spec
CONSTANTS
    BYTE = 4
    FIRST = 4
    LAST = 5
    BitOps <- MCBitOps
    MaxDepth = 2
PROPERTIES
    MachineSpec
CHECK_DEADLOCK FALSE

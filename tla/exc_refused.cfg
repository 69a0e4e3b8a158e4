SPECIFICATION HSpec
CONSTANTS
    MaxPriority = 3
    StackSize = 3
    MaxWord = 1
    MaxCount = 1
    FAULT_ILL_INST = FAULT_ILL_INST
    FAULT_INV_ADDR = FAULT_INV_ADDR
    FAULT_PRI = FAULT_PRI
    FAULT_DBL = FAULT_DBL
    USER = USER
    Vectors <- MCVectors
    Tables <- LadderTable
    FaultingBits = {TRUE, FALSE}
    Ops <- TrapOps
CHECK_DEADLOCK FALSE
INVARIANT
    HandlerOutranks

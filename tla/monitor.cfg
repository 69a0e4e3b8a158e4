SPECIFICATION MSpec
CONSTANTS
    MaxPriority = 1
    StackSize = 1
    MaxWord = 3
    MaxCount = 0
    FAULT_ILL_INST = FAULT_ILL_INST
    FAULT_INV_ADDR = FAULT_INV_ADDR
    FAULT_PRI = FAULT_PRI
    FAULT_DBL = FAULT_DBL
    Vectors <- MCVectors
    Tables <- MCTables
    FaultingBits = {FALSE}
    Ops <- MCOps
    Numbers <- MCNumbers
    Settings <- MCSettings
CHECK_DEADLOCK FALSE
INVARIANT
    MTypeOK
PROPERTIES
    BackToPrompt
    RunEndsForCause

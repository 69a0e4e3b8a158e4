SPECIFICATION HFairSpec
CONSTANTS
    MaxPriority = 2
    StackSize = 2
    MaxWord = 1
    MaxCount = 1
    FAULT_ILL_INST = FAULT_ILL_INST
    FAULT_INV_ADDR = FAULT_INV_ADDR
    FAULT_PRI = FAULT_PRI
    FAULT_DBL = FAULT_DBL
    USER = USER
    Vectors <- MCVectors
    Tables <- AnyTable
    FaultingBits = {TRUE, FALSE}
    Ops <- AllOps
CHECK_DEADLOCK FALSE
INVARIANTS
    TypeOK
    BaseAtZero
    StackWithinPriorities
    StackSuffices
    BlocksSurviveTraps
PROPERTY
    StormIsFatal
    BackToLoop
    FetchesEven

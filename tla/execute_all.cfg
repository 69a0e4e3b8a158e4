SPECIFICATION Spec
CONSTANTS
    Words <- AllWords
    Before <- MCBefore
INVARIANTS
    TypeOK
    OperandsFree
    BranchesLow
PROPERTIES
    SumsExact
    SubtractOrders
    DecimalExact
    ShiftsExact
    HighByteKept
    BranchTargets
CHECK_DEADLOCK FALSE

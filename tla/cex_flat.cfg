SPECIFICATION FlatSpec
CONSTANTS
    MaxCount = 3
    Codes <- AllCodes
    Parts <- AllParts
INVARIANTS
    TypeOK
    BlockedAsPlanned

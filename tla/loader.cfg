SPECIFICATION Spec
CONSTANTS
    ByteSize = 6
    MaxLength = 5
    Unreadable = Unreadable
    Files <- MCFiles
INVARIANTS
    TypeOK
    MemoryIsImage
    SilentMeansRight
CHECK_DEADLOCK FALSE

SPECIFICATION Spec
CONSTANTS
    CacheSize = 2
    NumWords = 4
    Byte <- Bits
    Zero = 0
    Access <- MCWords
    Data <- MCWordData
    Images <- MCWordImage
    Settings <- MCAllSettings
INVARIANTS
    TypeOK
    CleanLinesMatch
    PrintedCurrent
PROPERTY
    ImplementsWordStore
    UntouchedBytesKept

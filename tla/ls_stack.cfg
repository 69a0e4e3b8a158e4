SPECIFICATION LSpec
CONSTANTS
    CacheSize = 2
    NumWords = 8
    Byte <- MCByte
    Zero = 0
    Access = {}
    Data = {}
    Images <- MCImages
    Settings <- MCSettings
    OffsetBits = 2
    SignBit = 13
    Offsets <- MCForward
    StackBase = 8
    MaxDepth = 3
    Item <- MCItems
INVARIANT
    TypeOK
PROPERTY
    ImplementsStack

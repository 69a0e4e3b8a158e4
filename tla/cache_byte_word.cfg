SPECIFICATION Spec
CONSTANTS
    CacheSize = 2
    NumWords = 4
    Byte <- Bits
    Zero = 0
    Access <- MCByteThenWord
    Data = {}
    Images <- MCOnes
    Settings = {}
INVARIANT
    LoadsReturnMemory

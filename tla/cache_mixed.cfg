SPECIFICATION RSpec
CONSTANTS
    CacheSize = 3
    NumWords = 4
    Byte <- Bits
    Zero = 0
    Access <- MCMixed
    Data <- MCMixedData
    Images <- MCMixedImage
    Settings <- MCAllSettings
INVARIANTS
    WriteThroughClean
    SingleCopy
    UsageDistinct
    VictimIdle
    UsageAgreesWithHistory
PROPERTY
    ResidentCopyStable

SPECIFICATION PartsSpec
CONSTANTS
    Keys = {k1, k2}
    Values = {v1}
    Undefined = Undefined
    Deleted = Deleted
    MaxLayers = 3
    ByteBits = 2
    Bytes = 3
    StackLimit = 4
    MaxNumber = 12
    ByteOf <- MCByteOf
    callData <- MCCallData
    returnData <- MCReturnData
    Starts <- MCStarts
SYMMETRY Symmetry
INVARIANTS
    NoJumpIntoData
    MemoryIsCounted
PROPERTIES
    BaseIsolated
    ImplementsSnapshots
    WordsAreExact
CHECK_DEADLOCK FALSE

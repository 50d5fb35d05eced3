CONSTANTS
    old = old
    new = new
    user = user
    Contracts <- MCContracts
    Genesis <- MCGenesis
    Callers <- MCCallers
    Heights <- MCHeights
    Slots = {s1}
    Values = {v1}
    Null = null
    MaxDepth = 2
    MaxExits = 2
    MaxBlocks = 2
    MaxLeaks = 1
    ProduceWitness = TRUE
SPECIFICATION Spec
INVARIANTS
    FramesOwnCheckpoints
    StorageIsKept
    ExitsAreKept

    
CHECK_DEADLOCK FALSE

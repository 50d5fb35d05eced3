CONSTANTS
    word = word
    wide = wide
    Values <- MCValues
    Words <- MCWords
    Wide = wide
    Null = null
    NoBytes = noBytes
    Pad = pad
    Height = 3
    Keys = {0, 1, 6}
    Foreign <- MCForeign
    MaxNodes = 8
    MaxCheckpoints = 1
SPECIFICATION Spec
INVARIANTS
    RootIsContents
    UpdatesUnlessUnknown
    ProofsAreAccepted
    ListProofs
CHECK_DEADLOCK FALSE

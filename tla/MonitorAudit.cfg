CONSTANTS
    genesis = genesis
    first = first
    second = second
    faulty = faulty
    heir = heir
    Blocks = {first, second, faulty, heir}
    Genesis = genesis
    Parent <- Chain
    Height <- Heighted
    Verdict <- MCVerdict
    MaxSubmitted = 3
    MaxRunning = 2
    MaxRestarts = 1
SPECIFICATION Spec
INVARIANTS
    ListedIsComing
    LatestIsComing
    NothingSkipped
PROPERTIES
    JudgedIfParentKnown
CHECK_DEADLOCK FALSE

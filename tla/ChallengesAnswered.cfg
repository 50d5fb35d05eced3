CONSTANTS
    b1 = b1
    Blocks = {b1}
    Own = {b1}
    Transactions = {1, 2, 3}
    Throwing <- LastThrows
    Unwitnessed = {}
    MaxChallenges = 2
    MaxRestarts = 1
SPECIFICATION Spec
INVARIANTS
    ResponseThrowsOnlyIfNew
PROPERTIES
    AnsweredIfStored
CHECK_DEADLOCK FALSE

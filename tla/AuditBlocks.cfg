CONSTANTS
    zero = zero
    relay = relay
    coinbase = coinbase
    alice = alice
    bob = bob
    contract = contract
    fresh = fresh
    wrong = wrong
    Addresses <- Accounts
    Zero = zero
    Relay = relay
    Coinbase = coinbase
    BaseGas = 2
    DataGas = 1
    CallGas = 1
    CallRefund = 1
    Queue <- MCQueue
    Wrong = wrong
    Blocks <- MCBlocks
SPECIFICATION Spec
INVARIANTS
    ConvictedOnlyIfWrong
    RejectedOnlyIf
    PassedIsHonest
    ChallengeStands
PROPERTIES
    WrongIsAnswered
CHECK_DEADLOCK FALSE

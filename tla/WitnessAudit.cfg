CONSTANTS
    zero = zero
    ones = ones
    relayAddress = relayAddress
    precompile = precompile
    c1 = c1
    c2 = c2
    alice = alice
    bob = bob
    carol = carol
    miner = miner
    slot = slot
    other = other
    Addresses <- MCAddresses
    Zero = zero
    Ones = ones
    Relay = relayAddress
    Precompile = precompile
    Contracts <- MCContracts
    Slots = {slot, other}
    Wide = 2
    NoRoot = noRoot
    BaseGas = 2
    OpGas = 1
    StoreGas = 2
    ClearRefund = 1
    ExitFee = 3
    MaxRecords <- MCMaxRecords
    Setups <- MCSetups
    MaxChanged = 2
    Wrong = wrong
    NoClaim = noClaim
SPECIFICATION Spec
INVARIANTS
    SelfBalanceIsCurrent
    HonestStands
    PassedStands
    ReportedAndRejectedOnlyIf
CHECK_DEADLOCK FALSE

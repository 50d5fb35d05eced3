SPECIFICATION Spec
CONSTANTS
  Accounts = {a1, a2}
  NoAccount = NoAccount
  hA = hA
  hB = hB
  Headers = {hA}
  Genesis = Genesis
  ParentOf <- OneBlockParent
  TxCount <- TwoTransactions
  SimpleTx <- NoSimpleTx
  FaultyHeaders = {}
  Witnesses = {w1}
  FaultyWitnesses = {}
  NoWitness = NoWitness
  Deleted = Deleted
  ChallengePeriod = 2
  ConfirmationPeriod = 1
  ChallengeBond = 400
  RollupBond = 4
  MaxUint = 7
  MaxTxIndex = 1
  MaxL1Block = 3
  MaxChildren = 1
  MaxOpenChallenges = 1
SYMMETRY Symmetry
CHECK_DEADLOCK FALSE
INVARIANT CheckedIsConfirmed

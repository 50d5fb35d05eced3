SPECIFICATION Spec
CONSTANTS
  Accounts = {a1, a2}
  NoAccount = NoAccount
  hA = hA
  hB = hB
  Headers = {hA, hB}
  Genesis = Genesis
  ParentOf <- OneBlockParent
  TxCount <- FirstHasTwo
  SimpleTx <- FirstMixed
  FaultyHeaders = {hA, hB}
  Witnesses = {w1, w2}
  FaultyWitnesses = {w1}
  NoWitness = NoWitness
  Deleted = Deleted
  ChallengePeriod = 2
  ConfirmationPeriod = 1
  ChallengeBond = 400
  RollupBond = 4
  MaxUint = 7
  MaxTxIndex = 1
  MaxL1Block = 4
  MaxChildren = 2
  MaxOpenChallenges = 2
SYMMETRY Symmetry
CHECK_DEADLOCK FALSE
INVARIANTS
  SlotsMatchEvents
  DeletedSlotsAreFraud
  PendingIsCounted
PROPERTIES
  WitnessCommittedOnce
  PayoutConsumesClaim
  ChallengeRunsItsPeriod
  ConfirmableInOrder

----------------------------- MODULE ChainState -----------------------------
(***************************************************************************)
(* The storage of the peg contract (ChainStateLib.ChainState) with the     *)
(* value it holds, and the library functions that its operations, the      *)
(* challenge manager and the fraud provers share: ChainStateLib,           *)
(* ChallengeLib, ConfigLib.                                                *)
(*                                                                         *)
(* Sequences are indexed from 1 where Solidity's arrays start at 0: slot i *)
(* of a parent is the code's childIndex i - 1, confirmedBlocks[n] its      *)
(* confirmedBlocks[n - 1].  A block hash is the header it is the hash of.  *)
(***************************************************************************)
EXTENDS Naturals, Sequences, FiniteSets

CONSTANTS
  Accounts,            \* externally owned accounts that call the contract
  NoAccount,           \* address(0)
  Headers,             \* headers of blocks other than the genesis block
  Genesis,             \* the genesis header, confirmed by the constructor
  ParentOf,            \* header |-> its parentHash
  TxCount,             \* header |-> its transactionsCount
  SimpleTx,            \* header |-> indices of its transactions without a contract as receiver
  FaultyHeaders,       \* headers with an error that is provable without a witness
  Witnesses,           \* encoded message witnesses a producer may commit to
  FaultyWitnesses,     \* witnesses with an error one of the provers can show
  NoWitness,           \* bytes32(0) in witnessHashes
  Deleted,             \* bytes32(0) in a slot of pendingBlocks
  ChallengePeriod,     \* ConfigLib.CHALLENGE_PERIOD
  ConfirmationPeriod,  \* ConfigLib.CONFIRMATION_PERIOD
  ChallengeBond,       \* ConfigLib.CHALLENGE_BOND
  RollupBond,          \* ConfigLib.ROLLUP_BOND
  MaxUint,             \* the largest value of openChallenges, 2^256 - 1 in the code
  MaxTxIndex,          \* bound: the largest transaction index used in a call
  MaxL1Block,          \* bound: the last parent-chain block
  MaxChildren,         \* bound: submissions under one parent
  MaxOpenChallenges    \* bound: challenges counted on one block

TxIndices == 0 .. MaxTxIndex
Hashes == Headers \cup {Genesis}

ASSUME SentinelAssumption ==
  /\ NoAccount \notin Accounts
  /\ NoWitness \notin Witnesses
  /\ Genesis \notin Headers

ASSUME HeaderAssumption ==
  /\ ParentOf \in [Headers -> Hashes]
  /\ TxCount \in [Headers -> 0 .. MaxTxIndex + 1]
  /\ SimpleTx \in [Headers -> SUBSET TxIndices]
  /\ \A h \in Headers : \A t \in SimpleTx[h] : t < TxCount[h]
  /\ FaultyHeaders \subseteq Headers
  /\ FaultyWitnesses \subseteq Witnesses

ASSUME NumberAssumption ==
  /\ ChallengePeriod \in Nat
  /\ ConfirmationPeriod \in Nat
  /\ ChallengeBond \in Nat \ {0}
  /\ RollupBond \in Nat \ {0}
  /\ MaxUint \in Nat
  /\ MaxTxIndex \in Nat
  /\ MaxL1Block \in Nat
  /\ MaxChildren \in Nat
  /\ MaxOpenChallenges \in Nat
  /\ MaxOpenChallenges < MaxUint

Commitments == [submittedAt : Nat, blockHash : Headers]

\* A sentinel is a value of its own: no commitment hash is zero.
ASSUME DeletedAssumption == Deleted \notin Commitments

ChallengeSteps == {"NONE", "PENDING", "RECEIVED"}
RevertReasons == {"NONE", "TIMEOUT", "FRAUD"}

Challenges ==
  [step : ChallengeSteps, challenger : Accounts \cup {NoAccount}, lastUpdate : Nat]

NullChallenge == [step |-> "NONE", challenger |-> NoAccount, lastUpdate |-> 0]

BlockSubmittedEvents == [parentHash : Hashes, slot : Nat, blockHash : Headers]

VARIABLES
  l1Block,          \* block.number of the parent chain
  owner,            \* the one account approved to submit blocks
  confirmedBlocks,  \* hashes of the confirmed blocks, by height
  pendingBlocks,    \* parent hash |-> commitments of its children, in submission order
  challenges,       \* challengesByBlock[h].challengesByTransaction
  witnessHashes,    \* challengesByBlock[h].witnessHashes
  openChallenges,   \* challengesByBlock[h].openChallenges
  coinbase,         \* challengesByBlock[h].coinbase
  revertedBlocks,   \* hash |-> reason the block was reverted for
  balance,          \* value held by the contract
  exitRoots,        \* the relay's confirmedExitRoots: block number |-> block
  submitted,        \* the BlockSubmitted events emitted so far
  passedChecks      \* history: blocks a confirmBlock call found confirmable

slotVars == <<pendingBlocks, revertedBlocks, submitted>>
challengeVars == <<challenges, witnessHashes, openChallenges, coinbase>>
chainVars == <<owner, confirmedBlocks, exitRoots, passedChecks>>
vars == <<l1Block, slotVars, challengeVars, chainVars, balance>>

TypeOK ==
  /\ l1Block \in 0 .. MaxL1Block
  /\ owner \in Accounts \cup {NoAccount}
  /\ confirmedBlocks \in Seq(Hashes)
  /\ pendingBlocks \in [Hashes -> Seq(Commitments \cup {Deleted})]
  /\ challenges \in [Headers -> [TxIndices -> Challenges]]
  /\ witnessHashes \in [Headers -> [TxIndices -> Witnesses \cup {NoWitness}]]
  /\ openChallenges \in [Headers -> 0 .. MaxUint]
  /\ coinbase \in [Headers -> Accounts \cup {NoAccount}]
  /\ revertedBlocks \in [Headers -> RevertReasons]
  /\ balance \in Nat
  /\ DOMAIN exitRoots \subseteq Nat
  /\ submitted \subseteq BlockSubmittedEvents
  /\ passedChecks \subseteq Headers

Init ==
  /\ l1Block = 0
  /\ owner = NoAccount
  /\ confirmedBlocks = <<Genesis>>
  /\ pendingBlocks = [p \in Hashes |-> << >>]
  /\ challenges = [h \in Headers |-> [t \in TxIndices |-> NullChallenge]]
  /\ witnessHashes = [h \in Headers |-> [t \in TxIndices |-> NoWitness]]
  /\ openChallenges = [h \in Headers |-> 0]
  /\ coinbase = [h \in Headers |-> NoAccount]
  /\ revertedBlocks = [h \in Headers |-> "NONE"]
  /\ balance = 0
  /\ exitRoots = << >>
  /\ submitted = {}
  /\ passedChecks = {}

-----------------------------------------------------------------------------
(* Helpers of ChainStateLib, ChallengeLib and ConfigLib.                   *)

\* Slot i under parent p holds a commitment to block h.
HasPendingBlock(p, i, h) ==
  /\ i \in DOMAIN pendingBlocks[p]
  /\ pendingBlocks[p][i] # Deleted
  /\ pendingBlocks[p][i].blockHash = h

HasPendingChallenge(h) == openChallenges[h] > 0

HasTransactionChallenge(h, t) == challenges[h][t].step # "NONE"

IsExpired(h, t) == l1Block >= challenges[h][t].lastUpdate + ChallengePeriod

ConfirmationPeriodOver(c) == l1Block >= c.submittedAt + ConfirmationPeriod

\* uint256 arithmetic on the counter wraps (the compiler is older than 0.8).
WrapInc(n) == IF n = MaxUint THEN 0 ELSE n + 1
WrapDec(n) == IF n = 0 THEN MaxUint ELSE n - 1

\* rewardSuccessfulChallenge: three transfers, or two for a challenger who
\* makes the call himself.  The last one burns half of the rollup bond.
RewardOutlay(challenger, sender) ==
  (IF challenger = sender
     THEN ChallengeBond + RollupBond \div 2
     ELSE (ChallengeBond + RollupBond \div 4) + RollupBond \div 4)
  + RollupBond \div 2

\* A transfer reverts the call when the contract does not hold the amount.
Pay(amount) ==
  /\ balance >= amount
  /\ balance' = balance - amount

DeleteChallenge(h, t) ==
  challenges' = [challenges EXCEPT ![h][t] = NullChallenge]

\* markFraudulentBlock
MarkFraudulentBlock(p, i, h) ==
  /\ pendingBlocks' = [pendingBlocks EXCEPT ![p][i] = Deleted]
  /\ revertedBlocks' = [revertedBlocks EXCEPT ![h] = "FRAUD"]
  /\ UNCHANGED submitted

\* Solidity's arr[n] = v is legal only below the length of the array.
InBounds(arr, n) == n < Len(arr)

\* verifyCanConfirm.  The number n of the query is the caller's: it is not
\* part of the commitment.
VerifyCanConfirm(p, i, h, n) ==
  /\ HasPendingBlock(p, i, h)
  /\ ~HasPendingChallenge(h)
  /\ n \in DOMAIN confirmedBlocks
  /\ confirmedBlocks[n] = p
  /\ Len(confirmedBlocks) = n
  /\ \A j \in 1 .. i - 1 : pendingBlocks[p][j] = Deleted
  /\ ConfirmationPeriodOver(pendingBlocks[p][i])


=============================================================================

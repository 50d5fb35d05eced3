--------------------------- MODULE ChainPegProofs ---------------------------
(***************************************************************************)
(* Proofs about ChainPeg for every value of its constants.                 *)
(***************************************************************************)
EXTENDS ChainPeg, FiniteSetTheorems, TLAPS

LEMMA SentinelChallenge == NullChallenge \in Challenges
BY DEF NullChallenge, Challenges, ChallengeSteps

\* confirmBlock's checks leave no room for its write (ChainStateLib.confirmBlock).
LEMMA ConfirmOutOfBounds ==
  ASSUME NEW p, NEW i, NEW h, NEW n, ConfirmBlock(p, i, h, n)
  PROVE  UNCHANGED <<pendingBlocks, confirmedBlocks, balance, exitRoots>>
<1>1. Len(confirmedBlocks) = n
  BY DEF ConfirmBlock, VerifyCanConfirm
<1>2. ~InBounds(confirmedBlocks, n)
  BY <1>1 DEF InBounds
<1> QED BY <1>2 DEF ConfirmBlock

LEMMA MarkType ==
  ASSUME TypeOK, NEW p \in Hashes, NEW i, NEW h \in Headers,
         HasPendingBlock(p, i, h), MarkFraudulentBlock(p, i, h)
  PROVE  /\ pendingBlocks' \in [Hashes -> Seq(Commitments \cup {Deleted})]
         /\ revertedBlocks' \in [Headers -> RevertReasons]
<1> USE DEF TypeOK, HasPendingBlock, MarkFraudulentBlock, RevertReasons
<1>1. [pendingBlocks[p] EXCEPT ![i] = Deleted] \in Seq(Commitments \cup {Deleted})
  OBVIOUS
<1> QED BY <1>1

LEMMA HandleSuccessType ==
  ASSUME TypeOK, NEW a \in Accounts, NEW p \in Hashes, NEW i,
         NEW h \in Headers, NEW t \in TxIndices,
         HasPendingBlock(p, i, h), HandleSuccess(a, p, i, h, t)
  PROVE  TypeOK'
<1>1. /\ pendingBlocks' \in [Hashes -> Seq(Commitments \cup {Deleted})]
      /\ revertedBlocks' \in [Headers -> RevertReasons]
  BY MarkType DEF HandleSuccess
<1>2. challenges' \in [Headers -> [TxIndices -> Challenges]]
  BY SentinelChallenge DEF TypeOK, HandleSuccess, DeleteChallenge
<1>3. witnessHashes' \in [Headers -> [TxIndices -> Witnesses \cup {NoWitness}]]
  BY DEF TypeOK, HandleSuccess
<1>4. balance' \in Nat
  <2>1. RewardOutlay(challenges[h][t].challenger, a) \in Nat
    BY NumberAssumption DEF RewardOutlay
  <2> QED BY <2>1 DEF TypeOK, HandleSuccess, Pay
<1>5. UNCHANGED <<l1Block, openChallenges, coinbase, chainVars, submitted>>
  BY DEF HandleSuccess, MarkFraudulentBlock
<1> QED BY <1>1, <1>2, <1>3, <1>4, <1>5 DEF TypeOK, chainVars

\* The variables keep their types: no counter leaves the range of uint256,
\* no balance becomes negative, every slot is a commitment or zero.
THEOREM TypeCorrect == Spec => []TypeOK
<1>1. Init => TypeOK
  BY SentinelAssumption, NumberAssumption, SentinelChallenge DEF Init, TypeOK, Hashes, RevertReasons
<1>2. TypeOK /\ [Next]_vars => TypeOK'
  <2> SUFFICES ASSUME TypeOK, [Next]_vars PROVE TypeOK'
    OBVIOUS
  <2> USE NumberAssumption
  <2>1. CASE Tick
    BY <2>1 DEF Tick, TypeOK, slotVars, challengeVars, chainVars
  <2>2. ASSUME NEW a \in Accounts, Initialize(a) PROVE TypeOK'
    BY <2>2 DEF Initialize, TypeOK, slotVars, challengeVars
  <2>3. ASSUME NEW a \in Accounts, NEW h \in Headers, SubmitBlock(a, h) PROVE TypeOK'
    <3> DEFINE p == ParentOf[h]
               c == [submittedAt |-> l1Block, blockHash |-> h]
    <3>1. p \in Hashes
      BY HeaderAssumption
    <3>2. c \in Commitments
      BY DEF TypeOK, Commitments
    <3>3. pendingBlocks' \in [Hashes -> Seq(Commitments \cup {Deleted})]
      BY <2>3, <3>1, <3>2 DEF SubmitBlock, TypeOK
    <3>4. submitted' \subseteq BlockSubmittedEvents
      <4>1. Len(pendingBlocks[p]) + 1 \in Nat
        BY <3>1 DEF TypeOK
      <4> QED BY <2>3, <3>1, <4>1 DEF SubmitBlock, TypeOK, BlockSubmittedEvents
    <3>5. balance' \in Nat
      BY <2>3 DEF SubmitBlock, TypeOK
    <3> QED BY <2>3, <3>3, <3>4, <3>5 DEF SubmitBlock, TypeOK, challengeVars, chainVars
  <2>4. ASSUME NEW p \in Hashes, NEW h \in Headers, NEW i \in 1 .. MaxChildren,
               NEW n \in 0 .. Len(confirmedBlocks) + 1, ConfirmBlock(p, i, h, n)
        PROVE  TypeOK'
    BY <2>4, ConfirmOutOfBounds DEF ConfirmBlock, TypeOK, challengeVars
  <2>5. ASSUME NEW p \in Hashes, NEW h \in Headers, NEW i \in 1 .. MaxChildren,
               ProveHeaderError(p, i, h)
        PROVE  TypeOK'
    <3>1. /\ pendingBlocks' \in [Hashes -> Seq(Commitments \cup {Deleted})]
          /\ revertedBlocks' \in [Headers -> RevertReasons]
      BY <2>5, MarkType DEF ProveHeaderError
    <3> QED BY <2>5, <3>1 DEF ProveHeaderError, MarkFraudulentBlock, TypeOK, challengeVars, chainVars
  <2>6. ASSUME NEW p \in Hashes, NEW h \in Headers, NEW i \in 1 .. MaxChildren,
               NEW a \in Accounts, NEW t \in TxIndices, ChallengeTransaction(a, p, i, h, t)
        PROVE  TypeOK'
    <3>1. challenges' \in [Headers -> [TxIndices -> Challenges]]
      BY <2>6 DEF ChallengeTransaction, TypeOK, Challenges, ChallengeSteps
    <3>2. openChallenges' \in [Headers -> 0 .. MaxUint]
      BY <2>6 DEF ChallengeTransaction, TypeOK, WrapInc
    <3>3. coinbase' \in [Headers -> Accounts \cup {NoAccount}]
      BY <2>6 DEF ChallengeTransaction, TypeOK
    <3>4. balance' \in Nat
      BY <2>6 DEF ChallengeTransaction, TypeOK
    <3> QED BY <2>6, <3>1, <3>2, <3>3, <3>4 DEF ChallengeTransaction, TypeOK, slotVars, chainVars
  <2>7. ASSUME NEW p \in Hashes, NEW h \in Headers, NEW i \in 1 .. MaxChildren,
               NEW a \in Accounts, NEW t \in TxIndices,
               \/ ProveWitnessError(a, p, i, h, t)
               \/ ProveMessageWitnessEncodingError(a, p, i, h, t)
        PROVE  TypeOK'
    BY <2>7, HandleSuccessType DEF ProveWitnessError, ProveMessageWitnessEncodingError
  <2>8. ASSUME NEW h \in Headers, NEW t \in TxIndices, NEW a \in Accounts,
               NEW w \in Witnesses, RespondToChallenge(a, h, t, w)
        PROVE  TypeOK'
    <3>1. challenges' \in [Headers -> [TxIndices -> Challenges]]
      BY <2>8 DEF RespondToChallenge, TypeOK, Challenges, ChallengeSteps
    <3>2. witnessHashes' \in [Headers -> [TxIndices -> Witnesses \cup {NoWitness}]]
      BY <2>8 DEF RespondToChallenge, TypeOK
    <3> QED BY <2>8, <3>1, <3>2 DEF RespondToChallenge, TypeOK, slotVars, chainVars
  <2>9. ASSUME NEW h \in Headers, NEW t \in TxIndices,
               \/ \E a \in Accounts : ChallengeTimeout(a, h, t)
               \/ ReclaimChallengeBond(h, t)
               \/ CancelSimpleTransactionChallenge(h, t)
        PROVE  TypeOK'
    <3>1. challenges' \in [Headers -> [TxIndices -> Challenges]]
      <4>1. DeleteChallenge(h, t)
        BY <2>9 DEF ChallengeTimeout, ReclaimChallengeBond, CancelSimpleTransactionChallenge
      <4> QED BY <4>1, SentinelChallenge DEF TypeOK, DeleteChallenge
    <3>2. balance' \in Nat
      <4>1. \A a \in Accounts : RewardOutlay(challenges[h][t].challenger, a) \in Nat
        BY DEF RewardOutlay
      <4> QED BY <2>9, <4>1 DEF TypeOK, Pay, ChallengeTimeout,
                ReclaimChallengeBond, CancelSimpleTransactionChallenge
    <3>3. openChallenges' \in [Headers -> 0 .. MaxUint]
      BY <2>9 DEF TypeOK, WrapDec, ChallengeTimeout, ReclaimChallengeBond,
         CancelSimpleTransactionChallenge
    <3>4. UNCHANGED <<l1Block, slotVars, witnessHashes, coinbase, chainVars>>
      BY <2>9 DEF ChallengeTimeout, ReclaimChallengeBond, CancelSimpleTransactionChallenge
    <3> QED BY <3>1, <3>2, <3>3, <3>4 DEF TypeOK, slotVars, chainVars
  <2>10. CASE UNCHANGED vars
    BY <2>10 DEF vars, slotVars, challengeVars, chainVars, TypeOK
  <2> QED
    BY <2>1, <2>2, <2>3, <2>4, <2>5, <2>6, <2>7, <2>8, <2>9, <2>10 DEF Next
<1> QED BY <1>1, <1>2, PTL DEF Spec

-----------------------------------------------------------------------------

\* No block above genesis is ever confirmed and the relay never learns an
\* exits root, whatever is submitted and however long the chain runs:
\* ChainStateLib.confirmBlock always reverts.
THEOREM GenesisOnly == Spec => []OnlyGenesisConfirmed
<1> USE DEF OnlyGenesisConfirmed
<1>1. Init => OnlyGenesisConfirmed
  BY DEF Init
<1>2. OnlyGenesisConfirmed /\ [Next]_vars => OnlyGenesisConfirmed'
  <2> SUFFICES ASSUME OnlyGenesisConfirmed, [Next]_vars
               PROVE  UNCHANGED <<confirmedBlocks, exitRoots>>
    OBVIOUS
  <2>1. ASSUME NEW p, NEW h, NEW i, NEW n, ConfirmBlock(p, i, h, n)
        PROVE  UNCHANGED <<confirmedBlocks, exitRoots>>
    BY <2>1, ConfirmOutOfBounds
  <2>2. CASE UNCHANGED vars
    BY <2>2 DEF vars, chainVars
  <2>3. CASE Tick
    BY <2>3 DEF Tick, chainVars
  <2>4. ASSUME NEW a, Initialize(a)
        PROVE  UNCHANGED <<confirmedBlocks, exitRoots>>
    BY <2>4 DEF Initialize
  <2>5. ASSUME NEW h, NEW a, NEW w, NEW t, NEW p, NEW i,
               \/ SubmitBlock(a, h)
               \/ ProveHeaderError(p, i, h)
               \/ ChallengeTransaction(a, p, i, h, t)
               \/ ProveWitnessError(a, p, i, h, t)
               \/ ProveMessageWitnessEncodingError(a, p, i, h, t)
               \/ RespondToChallenge(a, h, t, w)
               \/ ChallengeTimeout(a, h, t)
               \/ ReclaimChallengeBond(h, t)
               \/ CancelSimpleTransactionChallenge(h, t)
        PROVE  UNCHANGED <<confirmedBlocks, exitRoots>>
    <3>1. UNCHANGED chainVars
      BY <2>5 DEF SubmitBlock, ProveHeaderError, ChallengeTransaction, ProveWitnessError,
         ProveMessageWitnessEncodingError, HandleSuccess, RespondToChallenge,
         ChallengeTimeout, ReclaimChallengeBond, CancelSimpleTransactionChallenge
    <3> QED BY <3>1 DEF chainVars
  <2> QED BY <2>1, <2>2, <2>3, <2>4, <2>5 DEF Next
<1> QED BY <1>1, <1>2, PTL DEF Spec

-----------------------------------------------------------------------------
(* The record of a dispute: a challenge, a witness, a counter, a coinbase. *)

\* The operations that end a challenge and leave the witness.
ClosesChallenge(h, t) ==
  \/ \E a \in Accounts : ChallengeTimeout(a, h, t)
  \/ ReclaimChallengeBond(h, t)
  \/ CancelSimpleTransactionChallenge(h, t)

\* A step changes the record of one transaction at most, by one of four
\* kinds of operation.
LEMMA DisputeSteps ==
  ASSUME [Next]_vars
  PROVE  \/ UNCHANGED challengeVars
         \/ \E h \in Headers, t \in TxIndices :
              \/ \E a \in Accounts, p \in Hashes, i \in 1 .. MaxChildren :
                   \/ ChallengeTransaction(a, p, i, h, t)
                   \/ /\ HasPendingBlock(p, i, h)
                      /\ witnessHashes[h][t] # NoWitness
                      /\ HandleSuccess(a, p, i, h, t)
              \/ \E a \in Accounts, w \in Witnesses : RespondToChallenge(a, h, t, w)
              \/ ClosesChallenge(h, t)
<1>1. CASE UNCHANGED vars
  BY <1>1 DEF vars
<1>2. ASSUME NEW a \in Accounts, NEW p \in Hashes, NEW i \in 1 .. MaxChildren,
             NEW h \in Headers, NEW t \in TxIndices, ProveWitnessError(a, p, i, h, t)
      PROVE  /\ HasPendingBlock(p, i, h)
             /\ witnessHashes[h][t] # NoWitness
             /\ HandleSuccess(a, p, i, h, t)
  BY <1>2, SentinelAssumption, HeaderAssumption DEF ProveWitnessError
<1>3. CASE \/ Tick
           \/ \E a \in Accounts : Initialize(a)
           \/ \E a \in Accounts, h \in Headers : SubmitBlock(a, h)
           \/ \E p \in Hashes, h \in Headers : \E i \in 1 .. MaxChildren :
                \/ \E n \in 0 .. Len(confirmedBlocks) + 1 : ConfirmBlock(p, i, h, n)
                \/ ProveHeaderError(p, i, h)
  BY <1>3 DEF Tick, Initialize, SubmitBlock, ConfirmBlock, ProveHeaderError
<1> QED
  BY <1>1, <1>2, <1>3 DEF Next, ClosesChallenge, ProveMessageWitnessEncodingError

LEMMA ClosingDeletes ==
  ASSUME NEW h, NEW t, ClosesChallenge(h, t)
  PROVE  DeleteChallenge(h, t) /\ UNCHANGED <<witnessHashes, coinbase>>
BY DEF ClosesChallenge, ChallengeTimeout, ReclaimChallengeBond, CancelSimpleTransactionChallenge

\* The two records of one transaction belong together.
RecordOK(c, w) ==
  /\ c.step = "RECEIVED" => w # NoWitness
  /\ c.challenger # NoAccount => c.step # "NONE"
  /\ c.step = "PENDING" => c.challenger # NoAccount

RecordsOK == \A h \in Headers, t \in TxIndices : RecordOK(challenges[h][t], witnessHashes[h][t])

LEMMA RecordsInductive ==
  ASSUME TypeOK, RecordsOK, [Next]_vars
  PROVE  RecordsOK'
<1> USE DEF RecordOK
<1>1. CASE UNCHANGED challengeVars
  BY <1>1 DEF challengeVars, RecordsOK
<1>2. ASSUME NEW h \in Headers, NEW t \in TxIndices, NEW a \in Accounts, NEW p, NEW i,
             ChallengeTransaction(a, p, i, h, t)
      PROVE  RecordsOK'
  <2>1. /\ challenges' = [challenges EXCEPT ![h][t] =
             [step |-> "PENDING", challenger |-> a, lastUpdate |-> l1Block]]
        /\ UNCHANGED witnessHashes
    BY <1>2 DEF ChallengeTransaction
  <2> QED BY <2>1, SentinelAssumption DEF RecordsOK, TypeOK
<1>3. ASSUME NEW h \in Headers, NEW t \in TxIndices, NEW a, NEW p, NEW i,
             HandleSuccess(a, p, i, h, t)
      PROVE  RecordsOK'
  <2>1. /\ challenges' = [challenges EXCEPT ![h][t] = NullChallenge]
        /\ witnessHashes' = [witnessHashes EXCEPT ![h][t] = NoWitness]
    BY <1>3 DEF HandleSuccess, DeleteChallenge
  <2> QED BY <2>1 DEF RecordsOK, TypeOK, NullChallenge
<1>4. ASSUME NEW h \in Headers, NEW t \in TxIndices, NEW a, NEW w \in Witnesses,
             RespondToChallenge(a, h, t, w)
      PROVE  RecordsOK'
  <2>1. /\ challenges' = [challenges EXCEPT ![h][t] = [step |-> "RECEIVED",
             challenger |-> challenges[h][t].challenger, lastUpdate |-> l1Block]]
        /\ witnessHashes' = [witnessHashes EXCEPT ![h][t] = w]
    BY <1>4 DEF RespondToChallenge, TypeOK
  <2> QED BY <2>1, SentinelAssumption DEF RecordsOK, TypeOK
<1>5. ASSUME NEW h \in Headers, NEW t \in TxIndices, ClosesChallenge(h, t)
      PROVE  RecordsOK'
  <2>1. /\ challenges' = [challenges EXCEPT ![h][t] = NullChallenge]
        /\ UNCHANGED witnessHashes
    BY <1>5, ClosingDeletes DEF DeleteChallenge
  <2> QED BY <2>1 DEF RecordsOK, TypeOK, NullChallenge
<1> QED BY <1>1, <1>2, <1>3, <1>4, <1>5, DisputeSteps

LEMMA RecordsInvariant == Spec => []RecordsOK
<1>1. Init => RecordsOK
  BY DEF Init, RecordsOK, RecordOK, NullChallenge
<1>2. TypeOK /\ RecordsOK /\ [Next]_vars => RecordsOK'
  BY RecordsInductive
<1> QED BY <1>1, <1>2, TypeCorrect, PTL DEF Spec

\* An answered challenge always has its witness on record.
THEOREM AnswersOnRecord == Spec => []ReceivedHasWitness
<1>1. RecordsOK => ReceivedHasWitness
  BY DEF RecordsOK, RecordOK, ReceivedHasWitness
<1> QED BY <1>1, RecordsInvariant, PTL

\* A bond is reclaimed only from a challenge that exists, and an unanswered
\* challenge has a challenger to reward.
THEOREM BondsHaveChallenges == Spec => []ChallengerImpliesChallenge
<1>1. RecordsOK => ChallengerImpliesChallenge
  BY DEF RecordsOK, RecordOK, ChallengerImpliesChallenge
<1> QED BY <1>1, RecordsInvariant, PTL

-----------------------------------------------------------------------------

\* A producer is held to one witness: [][A]_vars from the same case analysis.
THEOREM WitnessIsFinal == Spec => WitnessCommittedOnce
<1> DEFINE Final == \A h \in Headers, t \in TxIndices :
             witnessHashes[h][t] # NoWitness /\ witnessHashes'[h][t] # witnessHashes[h][t] =>
               /\ witnessHashes'[h][t] = NoWitness
               /\ challenges'[h][t] = NullChallenge
               /\ revertedBlocks'[h] = "FRAUD"
<1>1. TypeOK /\ [Next]_vars => Final
  <2> SUFFICES ASSUME TypeOK, [Next]_vars PROVE Final
    OBVIOUS
  <2>1. CASE UNCHANGED challengeVars
    BY <2>1 DEF challengeVars
  <2>2. ASSUME NEW h \in Headers, NEW t \in TxIndices, NEW a, NEW p, NEW i,
               ChallengeTransaction(a, p, i, h, t)
        PROVE  Final
    BY <2>2 DEF ChallengeTransaction
  <2>3. ASSUME NEW h \in Headers, NEW t \in TxIndices, NEW a, NEW p, NEW i,
               HandleSuccess(a, p, i, h, t)
        PROVE  Final
    <3>1. /\ challenges' = [challenges EXCEPT ![h][t] = NullChallenge]
          /\ witnessHashes' = [witnessHashes EXCEPT ![h][t] = NoWitness]
          /\ revertedBlocks' = [revertedBlocks EXCEPT ![h] = "FRAUD"]
      BY <2>3 DEF HandleSuccess, DeleteChallenge, MarkFraudulentBlock
    <3> QED BY <3>1 DEF TypeOK
  <2>4. ASSUME NEW h \in Headers, NEW t \in TxIndices, NEW a, NEW w,
               RespondToChallenge(a, h, t, w)
        PROVE  Final
    <3>1. /\ witnessHashes[h][t] = NoWitness
          /\ witnessHashes' = [witnessHashes EXCEPT ![h][t] = w]
      BY <2>4 DEF RespondToChallenge
    <3> QED BY <3>1 DEF TypeOK
  <2>5. ASSUME NEW h \in Headers, NEW t \in TxIndices, ClosesChallenge(h, t)
        PROVE  Final
    BY <2>5, ClosingDeletes
  <2> QED BY <2>1, <2>2, <2>3, <2>4, <2>5, DisputeSteps
<1>2. QED
  BY <1>1, TypeCorrect, PTL DEF Spec, WitnessCommittedOnce

-----------------------------------------------------------------------------

\* The inductive form of UncountedBlockUntouched: the bound on the counter
\* keeps its increment from wrapping to zero.
Counted(h) ==
  SimpleTx[h] = {} =>
    /\ openChallenges[h] <= MaxOpenChallenges
    /\ openChallenges[h] = 0 =>
         /\ coinbase[h] = NoAccount
         /\ \A t \in TxIndices : /\ challenges[h][t] = NullChallenge
                                 /\ witnessHashes[h][t] = NoWitness

CountedInv == \A h \in Headers : Counted(h)

LEMMA CountedInductive ==
  ASSUME TypeOK, CountedInv, [Next]_vars
  PROVE  CountedInv'
<1> USE NumberAssumption
<1>1. CASE UNCHANGED challengeVars
  BY <1>1 DEF challengeVars, CountedInv, Counted
<1>2. ASSUME NEW h \in Headers, NEW t \in TxIndices, NEW a \in Accounts, NEW p, NEW i,
             ChallengeTransaction(a, p, i, h, t), NEW g \in Headers
      PROVE  Counted(g)'
  <2>1. CASE g # h
    BY <1>2, <2>1 DEF ChallengeTransaction, TypeOK, CountedInv, Counted
  <2>2. CASE g = h /\ SimpleTx[h] = {}
    <3>1. /\ openChallenges[h] \in 0 .. MaxUint
          /\ openChallenges[h] <= MaxOpenChallenges
      BY <2>2 DEF TypeOK, CountedInv, Counted
    <3>2. /\ WrapInc(openChallenges[h]) = openChallenges[h] + 1
          /\ WrapInc(openChallenges[h]) <= MaxOpenChallenges
      BY <1>2, <3>1 DEF WrapInc, ChallengeTransaction
    <3>3. openChallenges'[h] = openChallenges[h] + 1
      BY <1>2, <3>2 DEF ChallengeTransaction, TypeOK
    <3> QED BY <2>2, <3>1, <3>2, <3>3 DEF Counted
  <2> QED BY <2>1, <2>2 DEF Counted
<1>3. ASSUME NEW h \in Headers, NEW t \in TxIndices, NEW a, NEW p, NEW i,
             witnessHashes[h][t] # NoWitness, HandleSuccess(a, p, i, h, t)
      PROVE  CountedInv'
  <2>1. /\ challenges' = [challenges EXCEPT ![h][t] = NullChallenge]
        /\ witnessHashes' = [witnessHashes EXCEPT ![h][t] = NoWitness]
        /\ UNCHANGED <<openChallenges, coinbase>>
    BY <1>3 DEF HandleSuccess, DeleteChallenge
  <2> QED BY <2>1 DEF CountedInv, Counted, TypeOK
<1>4. ASSUME NEW h \in Headers, NEW t \in TxIndices, NEW a \in Accounts, NEW w,
             RespondToChallenge(a, h, t, w)
      PROVE  CountedInv'
  <2>1. coinbase[h] # NoAccount
    BY <1>4, SentinelAssumption DEF RespondToChallenge
  <2>2. /\ \A g \in Headers \ {h} : /\ challenges'[g] = challenges[g]
                                    /\ witnessHashes'[g] = witnessHashes[g]
        /\ UNCHANGED <<openChallenges, coinbase>>
    BY <1>4 DEF RespondToChallenge, TypeOK
  <2> QED BY <2>1, <2>2 DEF CountedInv, Counted
<1>5. ASSUME NEW h \in Headers, NEW t \in TxIndices, ClosesChallenge(h, t)
      PROVE  CountedInv'
  <2>1. /\ challenges' = [challenges EXCEPT ![h][t] = NullChallenge]
        /\ UNCHANGED <<witnessHashes, coinbase>>
    BY <1>5, ClosingDeletes DEF DeleteChallenge
  <2>2. \A g \in Headers : SimpleTx[g] = {} => openChallenges'[g] = openChallenges[g]
    <3>1. CASE CancelSimpleTransactionChallenge(h, t)
      BY <3>1 DEF CancelSimpleTransactionChallenge, TypeOK
    <3>2. CASE (\E a \in Accounts : ChallengeTimeout(a, h, t)) \/ ReclaimChallengeBond(h, t)
      BY <3>2 DEF ChallengeTimeout, ReclaimChallengeBond
    <3> QED BY <1>5, <3>1, <3>2 DEF ClosesChallenge
  <2> QED BY <2>1, <2>2 DEF CountedInv, Counted, TypeOK
<1> QED BY <1>1, <1>2, <1>3, <1>4, <1>5, DisputeSteps DEF CountedInv

\* On a block without simple transactions the counter is zero only while
\* nobody ever raised a challenge: no operation lowers it again.
THEOREM UncountedIsUntouched == Spec => []UncountedBlockUntouched
<1>1. Init => CountedInv
  BY NumberAssumption DEF Init, CountedInv, Counted
<1>2. TypeOK /\ CountedInv /\ [Next]_vars => CountedInv'
  BY CountedInductive
<1>3. TypeOK /\ CountedInv => UncountedBlockUntouched
  <2> SUFFICES ASSUME TypeOK, CountedInv, NEW h \in Headers, SimpleTx[h] = {},
                      ~HasPendingChallenge(h)
               PROVE  openChallenges[h] = 0
    BY DEF CountedInv, Counted, UncountedBlockUntouched
  <2> QED BY NumberAssumption DEF TypeOK, HasPendingChallenge
<1> QED BY <1>1, <1>2, <1>3, TypeCorrect, PTL DEF Spec

-----------------------------------------------------------------------------
(* Slots of pendingBlocks and the events that announce them.               *)

SlotsInv == SlotsMatchEvents /\ DeletedSlotsAreFraud

\* The operations that touch a slot; confirmBlock does not, for it reverts.
LEMMA SlotSteps ==
  ASSUME [Next]_vars
  PROVE  \/ UNCHANGED slotVars
         \/ \E a \in Accounts, h \in Headers : SubmitBlock(a, h)
         \/ \E p \in Hashes, h \in Headers : \E i \in 1 .. MaxChildren :
              HasPendingBlock(p, i, h) /\ MarkFraudulentBlock(p, i, h)
<1>1. CASE UNCHANGED vars
  BY <1>1 DEF vars
<1>2. ASSUME NEW p, NEW h, NEW i, NEW n, ConfirmBlock(p, i, h, n)
      PROVE  UNCHANGED slotVars
  BY <1>2, ConfirmOutOfBounds DEF ConfirmBlock, slotVars
<1>3. ASSUME NEW p, NEW h, NEW i, NEW a, NEW t,
             \/ ProveHeaderError(p, i, h)
             \/ ProveWitnessError(a, p, i, h, t)
             \/ ProveMessageWitnessEncodingError(a, p, i, h, t)
      PROVE  HasPendingBlock(p, i, h) /\ MarkFraudulentBlock(p, i, h)
  BY <1>3 DEF ProveHeaderError, ProveWitnessError, ProveMessageWitnessEncodingError, HandleSuccess
<1>4. ASSUME NEW p, NEW h, NEW i, NEW a, NEW t, NEW w,
             \/ Tick
             \/ Initialize(a)
             \/ ChallengeTransaction(a, p, i, h, t)
             \/ RespondToChallenge(a, h, t, w)
             \/ ChallengeTimeout(a, h, t)
             \/ ReclaimChallengeBond(h, t)
             \/ CancelSimpleTransactionChallenge(h, t)
      PROVE  UNCHANGED slotVars
  BY <1>4 DEF Tick, Initialize, ChallengeTransaction, RespondToChallenge, ChallengeTimeout,
     ReclaimChallengeBond, CancelSimpleTransactionChallenge
<1> QED BY <1>1, <1>2, <1>3, <1>4 DEF Next

LEMMA SubmitKeepsSlots ==
  ASSUME TypeOK, SlotsInv, NEW a \in Accounts, NEW h \in Headers, SubmitBlock(a, h)
  PROVE  SlotsInv'
<1> DEFINE p == ParentOf[h]
           c == [submittedAt |-> l1Block, blockHash |-> h]
           s == pendingBlocks[p]
           e == [parentHash |-> p, slot |-> Len(s) + 1, blockHash |-> h]
<1>1. /\ p \in Hashes
      /\ c \in Commitments /\ c.blockHash = h
      /\ c # Deleted
      /\ s \in Seq(Commitments \cup {Deleted})
  BY HeaderAssumption, DeletedAssumption, NumberAssumption DEF TypeOK, Commitments
<1>2. /\ pendingBlocks' = [pendingBlocks EXCEPT ![p] = Append(s, c)]
      /\ submitted' = submitted \cup {e}
      /\ UNCHANGED revertedBlocks
  BY DEF SubmitBlock
<1> HIDE DEF p, c
<1>3. /\ Append(s, c) \in Seq(Commitments \cup {Deleted})
      /\ DOMAIN Append(s, c) = DOMAIN s \cup {Len(s) + 1}
      /\ Append(s, c)[Len(s) + 1] = c
      /\ \A i \in DOMAIN s : Append(s, c)[i] = s[i] /\ i # Len(s) + 1
  BY <1>1
<1>4. /\ pendingBlocks'[p] = Append(s, c)
      /\ \A q \in Hashes \ {p} : pendingBlocks'[q] = pendingBlocks[q]
  BY <1>1, <1>2 DEF TypeOK
<1>5. \A d \in submitted : d \in BlockSubmittedEvents
  BY DEF TypeOK
<1>6. SlotsMatchEvents'
  <2> SUFFICES ASSUME NEW q \in Hashes
      PROVE  /\ \A i \in DOMAIN pendingBlocks'[q] :
                  \E d \in submitted' : d.parentHash = q /\ d.slot = i
             /\ \A d \in submitted' : d.parentHash = q =>
                  /\ d.slot \in DOMAIN pendingBlocks'[q]
                  /\ \/ pendingBlocks'[q][d.slot] = Deleted
                     \/ pendingBlocks'[q][d.slot].blockHash = d.blockHash
    BY DEF SlotsMatchEvents
  <2>1. CASE q = p
    <3>1. ASSUME NEW i \in DOMAIN pendingBlocks'[q]
          PROVE  \E d \in submitted' : d.parentHash = q /\ d.slot = i
      <4>1. i \in DOMAIN s \/ i = Len(s) + 1
        BY <1>3, <1>4, <2>1
      <4>2. CASE i = Len(s) + 1
        <5>1. e \in submitted' /\ e.parentHash = q /\ e.slot = i
          BY <1>2, <2>1, <4>2
        <5> QED BY <5>1
      <4>3. CASE i \in DOMAIN s
        <5>1. PICK d \in submitted : d.parentHash = p /\ d.slot = i
          BY <4>3, <1>1 DEF SlotsInv, SlotsMatchEvents
        <5> QED BY <5>1, <1>2, <2>1
      <4> QED BY <4>1, <4>2, <4>3
    <3>2. ASSUME NEW d \in submitted', d.parentHash = q
          PROVE  /\ d.slot \in DOMAIN pendingBlocks'[q]
                 /\ \/ pendingBlocks'[q][d.slot] = Deleted
                    \/ pendingBlocks'[q][d.slot].blockHash = d.blockHash
      <4>1. CASE d = e
        BY <4>1, <1>1, <1>3, <1>4, <2>1
      <4>2. CASE d \in submitted
        <5>1. d.slot \in DOMAIN s /\ (s[d.slot] = Deleted \/ s[d.slot].blockHash = d.blockHash)
          BY <4>2, <2>1, <1>1, <3>2 DEF SlotsInv, SlotsMatchEvents
        <5> QED BY <5>1, <1>3, <1>4, <2>1
      <4> QED BY <4>1, <4>2, <1>2
    <3> QED BY <3>1, <3>2
  <2>2. CASE q # p
    <3>1. pendingBlocks'[q] = pendingBlocks[q]
      BY <1>4, <2>2
    <3>2. \A d \in submitted' : d.parentHash = q => d \in submitted
      BY <1>2, <2>2
    <3> QED BY <3>1, <3>2, <1>2 DEF SlotsInv, SlotsMatchEvents
  <2> QED BY <2>1, <2>2
<1>7. DeletedSlotsAreFraud'
  <2> SUFFICES ASSUME NEW d \in submitted',
                      pendingBlocks'[d.parentHash][d.slot] = Deleted
               PROVE  revertedBlocks'[d.blockHash] = "FRAUD"
    BY DEF DeletedSlotsAreFraud
  <2>1. d # e
    BY <1>1, <1>3, <1>4
  <2>2. d \in submitted /\ d.parentHash \in Hashes
    BY <2>1, <1>2, <1>5 DEF BlockSubmittedEvents
  <2>3. d.slot \in DOMAIN pendingBlocks[d.parentHash]
    BY <2>2 DEF SlotsInv, SlotsMatchEvents
  <2>4. pendingBlocks'[d.parentHash][d.slot] = pendingBlocks[d.parentHash][d.slot]
    BY <2>2, <2>3, <1>3, <1>4
  <2> QED BY <2>2, <2>4, <1>2 DEF SlotsInv, DeletedSlotsAreFraud
<1> QED BY <1>6, <1>7 DEF SlotsInv

LEMMA MarkKeepsSlots ==
  ASSUME TypeOK, SlotsInv, NEW p \in Hashes, NEW i, NEW h \in Headers,
         HasPendingBlock(p, i, h), MarkFraudulentBlock(p, i, h)
  PROVE  SlotsInv'
<1>1. /\ i \in DOMAIN pendingBlocks[p]
      /\ pendingBlocks[p][i] # Deleted
      /\ pendingBlocks[p][i].blockHash = h
      /\ pendingBlocks' = [pendingBlocks EXCEPT ![p][i] = Deleted]
      /\ revertedBlocks' = [revertedBlocks EXCEPT ![h] = "FRAUD"]
      /\ submitted' = submitted
  BY DEF HasPendingBlock, MarkFraudulentBlock
<1>2. \A q \in Hashes :
        /\ DOMAIN pendingBlocks'[q] = DOMAIN pendingBlocks[q]
        /\ \A j \in DOMAIN pendingBlocks[q] :
             pendingBlocks'[q][j] = IF q = p /\ j = i THEN Deleted ELSE pendingBlocks[q][j]
  BY <1>1 DEF TypeOK
<1>3. \A d \in submitted : d.parentHash \in Hashes /\ d.blockHash \in Headers
  BY DEF TypeOK, BlockSubmittedEvents
<1>4. SlotsMatchEvents'
  BY <1>1, <1>2 DEF SlotsInv, SlotsMatchEvents
<1>5. DeletedSlotsAreFraud'
  <2> SUFFICES ASSUME NEW d \in submitted,
                      pendingBlocks'[d.parentHash][d.slot] = Deleted
               PROVE  revertedBlocks'[d.blockHash] = "FRAUD"
    BY <1>1 DEF DeletedSlotsAreFraud
  <2>1. d.slot \in DOMAIN pendingBlocks[d.parentHash]
    BY <1>3 DEF SlotsInv, SlotsMatchEvents
  <2>2. CASE d.parentHash = p /\ d.slot = i
    <3>1. d.blockHash = h
      BY <2>2, <1>1 DEF SlotsInv, SlotsMatchEvents
    <3> QED BY <3>1, <1>1, <1>3 DEF TypeOK
  <2>3. CASE ~(d.parentHash = p /\ d.slot = i)
    <3>1. pendingBlocks[d.parentHash][d.slot] = Deleted
      BY <2>1, <2>3, <1>2, <1>3
    <3>2. revertedBlocks[d.blockHash] = "FRAUD"
      BY <3>1 DEF SlotsInv, DeletedSlotsAreFraud
    <3> QED BY <3>2, <1>1, <1>3 DEF TypeOK
  <2> QED BY <2>2, <2>3
<1> QED BY <1>4, <1>5 DEF SlotsInv

LEMMA SlotsInvariant == Spec => []SlotsInv
<1>1. Init => SlotsInv
  BY DEF Init, SlotsInv, SlotsMatchEvents, DeletedSlotsAreFraud
<1>2. TypeOK /\ SlotsInv /\ [Next]_vars => SlotsInv'
  <2> SUFFICES ASSUME TypeOK, SlotsInv, [Next]_vars PROVE SlotsInv'
    OBVIOUS
  <2>1. CASE UNCHANGED slotVars
    BY <2>1 DEF slotVars, SlotsInv, SlotsMatchEvents, DeletedSlotsAreFraud
  <2> QED BY <2>1, SlotSteps, SubmitKeepsSlots, MarkKeepsSlots
<1> QED BY <1>1, <1>2, TypeCorrect, PTL DEF Spec

\* A slot that is not deleted holds the block its BlockSubmitted event names.
THEOREM EventsNameSlots == Spec => []SlotsMatchEvents
<1>1. SlotsInv => SlotsMatchEvents
  BY DEF SlotsInv
<1> QED BY <1>1, SlotsInvariant, PTL

\* A slot is zero only if the block announced for it was marked fraudulent.
THEOREM OnlyFraudIsDeleted == Spec => []DeletedSlotsAreFraud
<1>1. SlotsInv => DeletedSlotsAreFraud
  BY DEF SlotsInv
<1> QED BY <1>1, SlotsInvariant, PTL

-----------------------------------------------------------------------------
(* The counter and the challenges it should count.                         *)

\* The transactions on which somebody holds a bond.
Held(h) == {t \in TxIndices : challenges[h][t].challenger # NoAccount}

\* The block stands and nobody answered for one of its simple transactions.
Unanswered(h) ==
  /\ revertedBlocks[h] = "NONE"
  /\ \A t \in SimpleTx[h] : witnessHashes[h][t] = NoWitness

\* The inductive form of PendingIsCounted: the bound keeps the increment from
\* wrapping, the challenges held keep the decrement from it.
Backed(h) == /\ openChallenges[h] <= MaxOpenChallenges
             /\ openChallenges[h] >= Cardinality(Held(h))

BackedInv == \A h \in Headers : Unanswered(h) => Backed(h)

\* The transactions of a block are finitely many.
LEMMA HeldIsFinite ==
  ASSUME NEW h
  PROVE  IsFiniteSet(Held(h)) /\ Cardinality(Held(h)) \in Nat
<1>1. IsFiniteSet(TxIndices)
  BY FS_Interval, NumberAssumption DEF TxIndices
<1>2. Held(h) \in SUBSET TxIndices
  BY DEF Held
<1> QED BY <1>1, <1>2, FS_Subset, FS_CardinalityType

\* A block that was marked or answered for stays so.
LEMMA UnansweredBefore ==
  ASSUME TypeOK, [Next]_vars, NEW h \in Headers, Unanswered(h)'
  PROVE  Unanswered(h)
<1>1. revertedBlocks[h] = "NONE"
  BY SlotSteps DEF slotVars, SubmitBlock, MarkFraudulentBlock, Unanswered, TypeOK
<1>2. ASSUME NEW t \in SimpleTx[h] PROVE witnessHashes[h][t] = NoWitness
  <2>1. t \in TxIndices /\ witnessHashes'[h][t] = NoWitness
    BY <1>2, HeaderAssumption DEF Unanswered
  <2>2. CASE UNCHANGED challengeVars
    BY <2>1, <2>2 DEF challengeVars
  <2>3. ASSUME NEW g \in Headers, NEW u \in TxIndices, NEW a, NEW p, NEW i,
               ChallengeTransaction(a, p, i, g, u)
        PROVE  witnessHashes[h][t] = NoWitness
    BY <2>1, <2>3 DEF ChallengeTransaction
  <2>4. ASSUME NEW g \in Headers, NEW u \in TxIndices, NEW a, NEW p, NEW i,
               HandleSuccess(a, p, i, g, u)
        PROVE  witnessHashes[h][t] = NoWitness
    <3>1. g # h
      BY <2>4 DEF HandleSuccess, MarkFraudulentBlock, Unanswered, TypeOK
    <3> QED BY <3>1, <2>1, <2>4 DEF HandleSuccess, TypeOK
  <2>5. ASSUME NEW g \in Headers, NEW u \in TxIndices, NEW a, NEW w,
               RespondToChallenge(a, g, u, w)
        PROVE  witnessHashes[h][t] = NoWitness
    <3>1. CASE g = h /\ u = t
      BY <3>1, <2>5 DEF RespondToChallenge
    <3>2. CASE ~(g = h /\ u = t)
      BY <3>2, <2>1, <2>5 DEF RespondToChallenge, TypeOK
    <3> QED BY <3>1, <3>2
  <2>6. ASSUME NEW g \in Headers, NEW u \in TxIndices, ClosesChallenge(g, u)
        PROVE  witnessHashes[h][t] = NoWitness
    BY <2>1, <2>6, ClosingDeletes
  <2> QED BY <2>2, <2>3, <2>4, <2>5, <2>6, DisputeSteps
<1> QED BY <1>1, <1>2 DEF Unanswered

LEMMA BackedInductive ==
  ASSUME TypeOK, RecordsOK, BackedInv, [Next]_vars
  PROVE  BackedInv'
<1> SUFFICES ASSUME NEW h \in Headers, Unanswered(h)' PROVE Backed(h)'
  BY DEF BackedInv
<1>1. /\ Unanswered(h)
      /\ openChallenges[h] <= MaxOpenChallenges
      /\ openChallenges[h] >= Cardinality(Held(h))
  BY UnansweredBefore DEF BackedInv, Backed
<1>2. /\ IsFiniteSet(Held(h))
      /\ Cardinality(Held(h)) \in Nat
      /\ openChallenges[h] \in 0 .. MaxUint
  BY HeldIsFinite DEF TypeOK
<1>3. CASE UNCHANGED <<challenges[h], openChallenges[h]>>
  BY <1>1, <1>3 DEF Held, Backed
<1>4. ASSUME NEW t \in TxIndices, NEW a \in Accounts, NEW p, NEW i,
             ChallengeTransaction(a, p, i, h, t)
      PROVE  Backed(h)'
  <2>1. Held(h)' = Held(h) \cup {t} /\ t \notin Held(h)
    <3>1. challenges' = [challenges EXCEPT ![h][t] =
            [step |-> "PENDING", challenger |-> a, lastUpdate |-> l1Block]]
      BY <1>4 DEF ChallengeTransaction
    <3>2. challenges[h][t].challenger = NoAccount
      BY <1>4 DEF ChallengeTransaction, HasTransactionChallenge, RecordsOK, RecordOK
    <3> QED BY <3>1, <3>2, SentinelAssumption DEF Held, TypeOK
  <2>2. Cardinality(Held(h)') = Cardinality(Held(h)) + 1
    BY <2>1, <1>2, FS_AddElement
  <2>3. /\ WrapInc(openChallenges[h]) = openChallenges[h] + 1
        /\ WrapInc(openChallenges[h]) <= MaxOpenChallenges
    BY <1>1, <1>2, <1>4, NumberAssumption DEF WrapInc, ChallengeTransaction
  <2>4. openChallenges'[h] = openChallenges[h] + 1
    BY <1>4, <2>3 DEF ChallengeTransaction, TypeOK
  <2> QED BY <1>1, <1>2, <2>2, <2>3, <2>4, NumberAssumption DEF Backed
<1>5. ASSUME NEW t \in TxIndices, NEW a, NEW w, RespondToChallenge(a, h, t, w)
      PROVE  Backed(h)'
  <2>1. Held(h)' = Held(h) /\ UNCHANGED openChallenges
    BY <1>5 DEF RespondToChallenge, Held, TypeOK
  <2> QED BY <1>1, <2>1 DEF Backed
<1>6. ASSUME NEW t \in TxIndices, ClosesChallenge(h, t)
      PROVE  Backed(h)'
  <2>1. Held(h)' = Held(h) \ {t}
    <3>1. challenges' = [challenges EXCEPT ![h][t] = NullChallenge]
      BY <1>6, ClosingDeletes DEF DeleteChallenge
    <3> QED BY <3>1 DEF Held, NullChallenge, TypeOK
  <2>2. Cardinality(Held(h)') =
          IF t \in Held(h) THEN Cardinality(Held(h)) - 1 ELSE Cardinality(Held(h))
    BY <2>1, <1>2, FS_RemoveElement
  <2>3. CASE UNCHANGED openChallenges
    BY <1>1, <1>2, <2>2, <2>3, NumberAssumption DEF Backed
  <2>4. CASE CancelSimpleTransactionChallenge(h, t)
    <3>1. t \in SimpleTx[h] /\ witnessHashes[h][t] = NoWitness
      BY <2>4, <1>1 DEF CancelSimpleTransactionChallenge, Unanswered
    <3>2. t \in Held(h)
      BY <2>4, <3>1 DEF CancelSimpleTransactionChallenge, HasTransactionChallenge, Held,
         RecordsOK, RecordOK, TypeOK, Challenges, ChallengeSteps
    <3>3. openChallenges[h] # 0
      <4>1. Cardinality(Held(h)) # 0
        BY <3>2, <1>2, FS_EmptySet
      <4> QED BY <4>1, <1>1, <1>2, NumberAssumption
    <3>4. openChallenges'[h] = openChallenges[h] - 1
      BY <2>4, <3>3 DEF CancelSimpleTransactionChallenge, WrapDec, TypeOK
    <3> QED BY <3>2, <3>4, <2>2, <1>1, <1>2, NumberAssumption DEF Backed
  <2> QED BY <1>6, <2>3, <2>4 DEF ClosesChallenge, ChallengeTimeout, ReclaimChallengeBond
<1>7. ASSUME NEW g \in Headers, NEW t \in TxIndices, NEW a, NEW p, NEW i, NEW w, g # h,
             \/ ChallengeTransaction(a, p, i, g, t)
             \/ RespondToChallenge(a, g, t, w)
             \/ ClosesChallenge(g, t)
      PROVE  UNCHANGED <<challenges[h], openChallenges[h]>>
  BY <1>7 DEF ChallengeTransaction, RespondToChallenge, ClosesChallenge, ChallengeTimeout,
     ReclaimChallengeBond, CancelSimpleTransactionChallenge, DeleteChallenge, TypeOK
<1>8. ASSUME NEW g \in Headers, NEW t \in TxIndices, NEW a, NEW p, NEW i,
             HandleSuccess(a, p, i, g, t)
      PROVE  UNCHANGED <<challenges[h], openChallenges[h]>>
  <2>1. g # h
    BY <1>8 DEF HandleSuccess, MarkFraudulentBlock, Unanswered, TypeOK
  <2> QED BY <2>1, <1>8 DEF HandleSuccess, DeleteChallenge, TypeOK
<1>9. CASE UNCHANGED challengeVars
  BY <1>3, <1>9 DEF challengeVars
<1> QED BY <1>3, <1>4, <1>5, <1>6, <1>7, <1>8, <1>9, DisputeSteps

\* The counter that verifyCanConfirm reads is never below the challenges on
\* which somebody holds a bond, in any order of challenges, answers, timeouts,
\* reclaims and cancellations, while the block stands and nobody has answered
\* for one of its simple transactions.
THEOREM PendingAreCounted == Spec => []PendingIsCounted
<1>1. Init => BackedInv
  <2> SUFFICES ASSUME Init, NEW h \in Headers PROVE Backed(h)
    BY DEF BackedInv
  <2>1. Held(h) = {} /\ openChallenges[h] = 0
    BY DEF Init, Held, NullChallenge
  <2> QED BY <2>1, FS_EmptySet, NumberAssumption DEF Backed
<1>2. TypeOK /\ RecordsOK /\ BackedInv /\ [Next]_vars => BackedInv'
  BY BackedInductive
<1>3. BackedInv => PendingIsCounted
  BY DEF BackedInv, Backed, Unanswered, Held, PendingIsCounted
<1> QED BY <1>1, <1>2, <1>3, TypeCorrect, RecordsInvariant, PTL DEF Spec

-----------------------------------------------------------------------------
(* Action properties of the disputes and of confirmBlock.                  *)

\* The steps that leave the challenges alone do not lower the balance.
LEMMA OtherStepsKeepBalance ==
  ASSUME TypeOK, [Next]_vars
  PROVE  \/ ~(balance' < balance)
         \/ \E h \in Headers, t \in TxIndices :
              \/ \E a \in Accounts, p \in Hashes : \E i \in 1 .. MaxChildren :
                   witnessHashes[h][t] # NoWitness /\ HandleSuccess(a, p, i, h, t)
              \/ ClosesChallenge(h, t)
<1>0. balance \in Nat
  BY DEF TypeOK
<1>1. CASE UNCHANGED balance
  BY <1>0, <1>1
<1>2. CASE UNCHANGED vars
  BY <1>1, <1>2 DEF vars
<1>3. CASE \/ Tick
           \/ \E a \in Accounts : Initialize(a)
           \/ \E p \in Hashes, h \in Headers : \E i \in 1 .. MaxChildren :
                \/ \E n \in 0 .. Len(confirmedBlocks) + 1 : ConfirmBlock(p, i, h, n)
                \/ ProveHeaderError(p, i, h)
           \/ \E h \in Headers, t \in TxIndices, a \in Accounts, w \in Witnesses :
                RespondToChallenge(a, h, t, w)
  <2>1. UNCHANGED balance
    BY <1>3, ConfirmOutOfBounds DEF Tick, Initialize, ProveHeaderError, RespondToChallenge
  <2> QED BY <1>1, <2>1
<1>4. CASE \/ \E a \in Accounts, h \in Headers : SubmitBlock(a, h)
           \/ \E p \in Hashes, h \in Headers, a \in Accounts, t \in TxIndices :
                \E i \in 1 .. MaxChildren : ChallengeTransaction(a, p, i, h, t)
  <2>1. balance' = balance + RollupBond \/ balance' = balance + ChallengeBond
    BY <1>4 DEF SubmitBlock, ChallengeTransaction
  <2> QED BY <1>0, <2>1, NumberAssumption
<1>5. ASSUME NEW p \in Hashes, NEW h \in Headers, NEW i \in 1 .. MaxChildren,
             NEW a \in Accounts, NEW t \in TxIndices,
             \/ ProveWitnessError(a, p, i, h, t)
             \/ ProveMessageWitnessEncodingError(a, p, i, h, t)
      PROVE  witnessHashes[h][t] # NoWitness /\ HandleSuccess(a, p, i, h, t)
  BY <1>5, SentinelAssumption, HeaderAssumption
  DEF ProveWitnessError, ProveMessageWitnessEncodingError
<1> QED
  <2>1. CASE \E p \in Hashes, h \in Headers, a \in Accounts, t \in TxIndices :
               \E i \in 1 .. MaxChildren : \/ ProveWitnessError(a, p, i, h, t)
                                           \/ ProveMessageWitnessEncodingError(a, p, i, h, t)
    BY <2>1, <1>5
  <2>2. CASE \E h \in Headers, t \in TxIndices : ClosesChallenge(h, t)
    BY <2>2
  <2> HIDE <1>1, <1>5
  <2> QED BY <2>1, <2>2, <1>2, <1>3, <1>4 DEF Next, ClosesChallenge

\* No challenge and no committed witness is paid for twice.
THEOREM PayoutsAreFinal == Spec => PayoutConsumesClaim
<1> DEFINE Consumes == balance' < balance =>
             \E h \in Headers, t \in TxIndices :
               \/ HasTransactionChallenge(h, t) /\ ~HasTransactionChallenge(h, t)'
               \/ witnessHashes[h][t] # NoWitness /\ witnessHashes'[h][t] = NoWitness
<1>1. TypeOK /\ RecordsOK /\ [Next]_vars => Consumes
  <2> SUFFICES ASSUME TypeOK, RecordsOK, [Next]_vars PROVE Consumes
    OBVIOUS
  <2>1. CASE ~(balance' < balance)
    BY <2>1
  <2>2. ASSUME NEW h \in Headers, NEW t \in TxIndices, NEW a, NEW p, NEW i,
               witnessHashes[h][t] # NoWitness, HandleSuccess(a, p, i, h, t)
        PROVE  Consumes
    <3>1. witnessHashes'[h][t] = NoWitness
      BY <2>2 DEF HandleSuccess, TypeOK
    <3> QED BY <2>2, <3>1
  <2>3. ASSUME NEW h \in Headers, NEW t \in TxIndices, ClosesChallenge(h, t)
        PROVE  Consumes
    <3>1. HasTransactionChallenge(h, t)
      BY <2>3 DEF ClosesChallenge, ChallengeTimeout, ReclaimChallengeBond,
         CancelSimpleTransactionChallenge, HasTransactionChallenge, RecordsOK, RecordOK
    <3>2. ~HasTransactionChallenge(h, t)'
      BY <2>3, ClosingDeletes DEF DeleteChallenge, HasTransactionChallenge, NullChallenge, TypeOK
    <3> QED BY <3>1, <3>2
  <2> QED BY <2>1, <2>2, <2>3, OtherStepsKeepBalance
<1> QED BY <1>1, TypeCorrect, RecordsInvariant, PTL DEF Spec, PayoutConsumesClaim

\* While its block stands, a challenge that is not on a simple transaction is
\* open for the whole challenge period.
THEOREM PeriodIsRespected == Spec => ChallengeRunsItsPeriod
<1> DEFINE Respects == \A h \in Headers, t \in TxIndices :
             /\ HasTransactionChallenge(h, t) /\ ~HasTransactionChallenge(h, t)'
             /\ revertedBlocks'[h] = "NONE"
             /\ t \notin SimpleTx[h]
             => l1Block - challenges[h][t].lastUpdate >= ChallengePeriod
<1>1. TypeOK /\ [Next]_vars => Respects
  <2> SUFFICES ASSUME TypeOK, [Next]_vars PROVE Respects
    OBVIOUS
  <2>1. CASE UNCHANGED challengeVars
    BY <2>1 DEF challengeVars, HasTransactionChallenge
  <2>2. ASSUME NEW h \in Headers, NEW t \in TxIndices, NEW a, NEW p, NEW i,
               ChallengeTransaction(a, p, i, h, t)
        PROVE  Respects
    BY <2>2 DEF ChallengeTransaction, HasTransactionChallenge, TypeOK
  <2>3. ASSUME NEW h \in Headers, NEW t \in TxIndices, NEW a, NEW w,
               RespondToChallenge(a, h, t, w)
        PROVE  Respects
    BY <2>3 DEF RespondToChallenge, HasTransactionChallenge, TypeOK
  <2>4. ASSUME NEW h \in Headers, NEW t \in TxIndices, NEW a, NEW p, NEW i,
               HandleSuccess(a, p, i, h, t)
        PROVE  Respects
    <3>1. /\ challenges' = [challenges EXCEPT ![h][t] = NullChallenge]
          /\ revertedBlocks' = [revertedBlocks EXCEPT ![h] = "FRAUD"]
      BY <2>4 DEF HandleSuccess, DeleteChallenge, MarkFraudulentBlock
    <3> QED BY <3>1 DEF TypeOK, HasTransactionChallenge
  <2>5. ASSUME NEW h \in Headers, NEW t \in TxIndices, ClosesChallenge(h, t)
        PROVE  Respects
    <3>1. challenges' = [challenges EXCEPT ![h][t] = NullChallenge]
      BY <2>5, ClosingDeletes DEF DeleteChallenge
    <3>2. \/ IsExpired(h, t)
          \/ revertedBlocks'[h] # "NONE"
          \/ t \in SimpleTx[h]
      BY <2>5 DEF ClosesChallenge, ChallengeTimeout, ReclaimChallengeBond,
         CancelSimpleTransactionChallenge, slotVars
    <3>3. IsExpired(h, t) => l1Block - challenges[h][t].lastUpdate >= ChallengePeriod
      BY NumberAssumption DEF IsExpired, TypeOK, Challenges
    <3> QED BY <3>1, <3>2, <3>3 DEF TypeOK, HasTransactionChallenge
  <2> QED BY <2>1, <2>2, <2>3, <2>4, <2>5, DisputeSteps
<1> QED BY <1>1, TypeCorrect, PTL DEF Spec, ChallengeRunsItsPeriod

-----------------------------------------------------------------------------

\* A block is announced under the parent its header names.
EventsNameParents == \A e \in submitted : e.parentHash = ParentOf[e.blockHash]

LEMMA ParentsInvariant == Spec => []EventsNameParents
<1>1. Init => EventsNameParents
  BY DEF Init, EventsNameParents
<1>2. TypeOK /\ EventsNameParents /\ [Next]_vars => EventsNameParents'
  <2> SUFFICES ASSUME TypeOK, EventsNameParents, [Next]_vars PROVE EventsNameParents'
    OBVIOUS
  <2>1. CASE UNCHANGED submitted
    BY <2>1 DEF EventsNameParents
  <2>2. ASSUME NEW a \in Accounts, NEW h \in Headers, SubmitBlock(a, h)
        PROVE  EventsNameParents'
    BY <2>2 DEF SubmitBlock, EventsNameParents
  <2> QED BY <2>1, <2>2, SlotSteps DEF slotVars, MarkFraudulentBlock
<1> QED BY <1>1, <1>2, TypeCorrect, PTL DEF Spec

\* confirmBlock finds a block confirmable only as the child of the last
\* confirmed block, when it is old enough, and when every block submitted
\* before it under that parent was reverted for fraud.
THEOREM ConfirmableSelectsFirst == Spec => ConfirmableInOrder
<1> DEFINE InOrder == \A h \in passedChecks' \ passedChecks :
             LET p == ParentOf[h] IN
             /\ p = confirmedBlocks[Len(confirmedBlocks)]
             /\ \E i \in DOMAIN pendingBlocks[p] :
                  /\ HasPendingBlock(p, i, h)
                  /\ l1Block - pendingBlocks[p][i].submittedAt >= ConfirmationPeriod
                  /\ \A e \in submitted : e.parentHash = p /\ e.slot < i =>
                       revertedBlocks[e.blockHash] = "FRAUD"
<1>1. TypeOK /\ SlotsInv /\ EventsNameParents /\ [Next]_vars => InOrder
  <2> SUFFICES ASSUME TypeOK, SlotsInv, EventsNameParents, [Next]_vars PROVE InOrder
    OBVIOUS
  <2>1. ASSUME NEW p \in Hashes, NEW h \in Headers, NEW i \in 1 .. MaxChildren,
               NEW n \in 0 .. Len(confirmedBlocks) + 1, ConfirmBlock(p, i, h, n)
        PROVE  InOrder
    <3>1. /\ passedChecks' = passedChecks \cup {h}
          /\ HasPendingBlock(p, i, h)
          /\ confirmedBlocks[Len(confirmedBlocks)] = p
          /\ \A j \in 1 .. i - 1 : pendingBlocks[p][j] = Deleted
          /\ ConfirmationPeriodOver(pendingBlocks[p][i])
      BY <2>1 DEF ConfirmBlock, VerifyCanConfirm
    <3>2. /\ i \in DOMAIN pendingBlocks[p]
          /\ pendingBlocks[p][i] \in Commitments
          /\ pendingBlocks[p][i].blockHash = h
      BY <3>1 DEF HasPendingBlock, TypeOK
    <3>3. ParentOf[h] = p
      <4>1. PICK e \in submitted : e.parentHash = p /\ e.slot = i
        BY <3>2 DEF SlotsInv, SlotsMatchEvents
      <4>2. e.blockHash = h
        BY <4>1, <3>1, <3>2 DEF SlotsInv, SlotsMatchEvents, HasPendingBlock
      <4> QED BY <4>1, <4>2 DEF EventsNameParents
    <3>4. l1Block - pendingBlocks[p][i].submittedAt >= ConfirmationPeriod
      BY <3>1, <3>2, NumberAssumption DEF ConfirmationPeriodOver, Commitments, TypeOK
    <3>5. ASSUME NEW e \in submitted, e.parentHash = p, e.slot < i
          PROVE  revertedBlocks[e.blockHash] = "FRAUD"
      <4>1. e.slot \in DOMAIN pendingBlocks[p]
        BY <3>5 DEF SlotsInv, SlotsMatchEvents
      <4>2. e.slot \in 1 .. i - 1
        BY <4>1, <3>5 DEF TypeOK
      <4> QED BY <4>2, <3>1, <3>5 DEF SlotsInv, DeletedSlotsAreFraud
    <3> QED BY <3>1, <3>2, <3>3, <3>4, <3>5
  <2>2. CASE UNCHANGED passedChecks
    BY <2>2
  <2>3. \/ UNCHANGED passedChecks
        \/ \E p \in Hashes, h \in Headers : \E i \in 1 .. MaxChildren :
             \E n \in 0 .. Len(confirmedBlocks) + 1 : ConfirmBlock(p, i, h, n)
    <3>1. CASE UNCHANGED vars
      BY <3>1 DEF vars, chainVars
    <3>2. ASSUME NEW p, NEW h, NEW i, NEW a, NEW t,
                 \/ ProveHeaderError(p, i, h)
                 \/ ProveWitnessError(a, p, i, h, t)
                 \/ ProveMessageWitnessEncodingError(a, p, i, h, t)
          PROVE  UNCHANGED passedChecks
      BY <3>2 DEF ProveHeaderError, ProveWitnessError, ProveMessageWitnessEncodingError,
         HandleSuccess, chainVars
    <3>3. ASSUME NEW p, NEW h, NEW i, NEW a, NEW t, NEW w,
                 \/ Tick
                 \/ Initialize(a)
                 \/ SubmitBlock(a, h)
                 \/ ChallengeTransaction(a, p, i, h, t)
                 \/ RespondToChallenge(a, h, t, w)
                 \/ ChallengeTimeout(a, h, t)
                 \/ ReclaimChallengeBond(h, t)
                 \/ CancelSimpleTransactionChallenge(h, t)
          PROVE  UNCHANGED passedChecks
      BY <3>3 DEF Tick, Initialize, SubmitBlock, ChallengeTransaction, RespondToChallenge,
         ChallengeTimeout, ReclaimChallengeBond, CancelSimpleTransactionChallenge, chainVars
    <3> QED BY <3>1, <3>2, <3>3 DEF Next
  <2> QED BY <2>1, <2>2, <2>3
<1> QED BY <1>1, TypeCorrect, SlotsInvariant, ParentsInvariant, PTL DEF Spec, ConfirmableInOrder

=============================================================================

------------------------------ MODULE ChainPeg ------------------------------
(***************************************************************************)
(* The peg contract of the rollup chain on its parent chain: submission    *)
(* and confirmation of blocks, challenges against their transactions,      *)
(* responses, timeouts, and the fraud proofs that revert a block.          *)
(* ChallengeManager and the provers run by delegatecall in the storage of  *)
(* ChainPeg, so that their functions are actions over the same variables.  *)
(* One action is one call, that is one parent-chain transaction; a call    *)
(* that reverts changes nothing and is not a step, with the exception of   *)
(* confirmBlock, see ConfirmBlock.                                         *)
(***************************************************************************)
EXTENDS ChainState

-----------------------------------------------------------------------------
(* Mistaken forms of the operations below.  No specification uses them: put *)
(* in the place of the operation it is named after, each shows that a       *)
(* property of this module notices the mistake.                             *)

\* challengeTimeout one block early.
TimeoutOneBlockEarly(sender, h, t) ==
  /\ HasTransactionChallenge(h, t)
  /\ l1Block + 1 >= challenges[h][t].lastUpdate + ChallengePeriod
  /\ Pay(IF challenges[h][t].step = "PENDING"
           THEN RewardOutlay(challenges[h][t].challenger, sender)
           ELSE ChallengeBond)
  /\ DeleteChallenge(h, t)
  /\ UNCHANGED <<l1Block, slotVars, witnessHashes, openChallenges, coinbase, chainVars>>

\* A header proof that deletes the slot and does not mark the block.
DeleteWithoutMark(p, i, h) ==
  /\ HasPendingBlock(p, i, h)
  /\ h \in FaultyHeaders
  /\ pendingBlocks' = [pendingBlocks EXCEPT ![p][i] = Deleted]
  /\ UNCHANGED <<l1Block, revertedBlocks, submitted, challengeVars, chainVars, balance>>

\* submitBlock that reads childIndex after the push.
SubmitReadsIndexLate(sender, h) ==
  LET p == ParentOf[h] IN
  /\ sender = owner
  /\ Len(pendingBlocks[p]) < MaxChildren
  /\ balance' = balance + RollupBond
  /\ pendingBlocks' = [pendingBlocks EXCEPT
       ![p] = Append(@, [submittedAt |-> l1Block, blockHash |-> h])]
  /\ submitted' = submitted \cup
       {[parentHash |-> p, slot |-> Len(pendingBlocks'[p]) + 1, blockHash |-> h]}
  /\ UNCHANGED <<l1Block, revertedBlocks, challengeVars, chainVars>>

\* respondToChallenge that accepts a second witness.
RespondAgain(sender, h, t, w) ==
  /\ sender = coinbase[h]
  /\ witnessHashes' = [witnessHashes EXCEPT ![h][t] = w]
  /\ challenges' = [challenges EXCEPT ![h][t] =
       [step |-> "RECEIVED", challenger |-> @.challenger, lastUpdate |-> l1Block]]
  /\ UNCHANGED <<l1Block, slotVars, openChallenges, coinbase, chainVars, balance>>

\* respondToChallenge that takes the challenge from the counter, as if an
\* answer closed it.
RespondReleasesBlock(sender, h, t, w) ==
  /\ sender = coinbase[h]
  /\ witnessHashes[h][t] = NoWitness
  /\ witnessHashes' = [witnessHashes EXCEPT ![h][t] = w]
  /\ challenges' = [challenges EXCEPT ![h][t] =
       [step |-> "RECEIVED", challenger |-> @.challenger, lastUpdate |-> l1Block]]
  /\ openChallenges' = [openChallenges EXCEPT ![h] = WrapDec(@)]
  /\ UNCHANGED <<l1Block, slotVars, coinbase, chainVars, balance>>

\* reclaimChallengeBond that leaves the challenge in place.
ReclaimKeepsChallenge(h, t) ==
  /\ challenges[h][t].challenger # NoAccount
  /\ revertedBlocks[h] # "NONE"
  /\ Pay(ChallengeBond)
  /\ UNCHANGED <<l1Block, slotVars, challengeVars, chainVars>>

\* confirmBlock without the loop over the earlier siblings.
ConfirmAnySibling(p, i, h, n) ==
  /\ HasPendingBlock(p, i, h)
  /\ ~HasPendingChallenge(h)
  /\ n = Len(confirmedBlocks)
  /\ confirmedBlocks[n] = p
  /\ ConfirmationPeriodOver(pendingBlocks[p][i])
  /\ passedChecks' = passedChecks \cup {h}
  /\ UNCHANGED <<l1Block, owner, confirmedBlocks, exitRoots, slotVars, challengeVars, balance>>

-----------------------------------------------------------------------------
(* ChainPeg                                                                *)

\* initialize: the first caller becomes the owner, once.
Initialize(sender) ==
  /\ owner = NoAccount
  /\ owner' = sender
  /\ UNCHANGED <<l1Block, slotVars, challengeVars, confirmedBlocks, exitRoots,
                 passedChecks, balance>>

\* submitBlock: neither the parent nor an earlier submission of the same
\* header is looked for, a header may be submitted any number of times.
SubmitBlock(sender, h) ==
  LET p == ParentOf[h] IN
  /\ sender = owner
  /\ Len(pendingBlocks[p]) < MaxChildren
  /\ balance' = balance + RollupBond
  /\ pendingBlocks' = [pendingBlocks EXCEPT
       ![p] = Append(@, [submittedAt |-> l1Block, blockHash |-> h])]
  /\ submitted' = submitted \cup
       {[parentHash |-> p, slot |-> Len(pendingBlocks[p]) + 1, blockHash |-> h]}
  /\ UNCHANGED <<l1Block, revertedBlocks, challengeVars, chainVars>>

\* confirmBlock: verifyCanConfirm, then the writes of ChainStateLib.  The
\* height written is the length of confirmedBlocks (VerifyCanConfirm), so
\* the write is out of bounds, the whole call reverts and the only trace is
\* the reverted transaction, which passedChecks remembers.
ConfirmBlock(p, i, h, n) ==
  /\ VerifyCanConfirm(p, i, h, n)
  /\ passedChecks' = passedChecks \cup {h}
  /\ IF InBounds(confirmedBlocks, n)
       THEN /\ pendingBlocks' = [pendingBlocks EXCEPT ![p][i] = Deleted]
            /\ confirmedBlocks' = [k \in 1 .. Len(confirmedBlocks) |->
                 IF k = n + 1 THEN h ELSE confirmedBlocks[k]]
            /\ Pay(RollupBond)
            /\ exitRoots' = [m \in DOMAIN exitRoots \cup {n} |->
                 IF m = n THEN h ELSE exitRoots[m]]
       ELSE UNCHANGED <<pendingBlocks, confirmedBlocks, balance, exitRoots>>
  /\ UNCHANGED <<l1Block, owner, revertedBlocks, submitted, challengeVars>>

-----------------------------------------------------------------------------
(* ChallengeManager                                                        *)

\* challengeTransaction
ChallengeTransaction(sender, p, i, h, t) ==
  /\ HasPendingBlock(p, i, h)
  /\ t < TxCount[h]
  /\ ~HasTransactionChallenge(h, t)
  /\ WrapInc(openChallenges[h]) <= MaxOpenChallenges
  /\ balance' = balance + ChallengeBond
  /\ coinbase' = [coinbase EXCEPT ![h] = IF @ = NoAccount THEN owner ELSE @]
  /\ challenges' = [challenges EXCEPT ![h][t] =
       [step |-> "PENDING", challenger |-> sender, lastUpdate |-> l1Block]]
  /\ openChallenges' = [openChallenges EXCEPT ![h] = WrapInc(@)]
  /\ UNCHANGED <<l1Block, slotVars, witnessHashes, chainVars>>

\* respondToChallenge: needs no challenge at t, no pending block and no
\* index in range, only that no witness is committed at t yet.
RespondToChallenge(sender, h, t, w) ==
  /\ sender = coinbase[h]
  /\ witnessHashes[h][t] = NoWitness
  /\ witnessHashes' = [witnessHashes EXCEPT ![h][t] = w]
  /\ challenges' = [challenges EXCEPT ![h][t] =
       [step |-> "RECEIVED", challenger |-> @.challenger, lastUpdate |-> l1Block]]
  /\ UNCHANGED <<l1Block, slotVars, openChallenges, coinbase, chainVars, balance>>

\* challengeTimeout: the decrement of openChallenges in the RECEIVED case
\* is made on a memory copy of the struct, storage keeps its value.
ChallengeTimeout(sender, h, t) ==
  /\ HasTransactionChallenge(h, t)
  /\ IsExpired(h, t)
  /\ Pay(IF challenges[h][t].step = "PENDING"
           THEN RewardOutlay(challenges[h][t].challenger, sender)
           ELSE ChallengeBond)
  /\ DeleteChallenge(h, t)
  /\ UNCHANGED <<l1Block, slotVars, witnessHashes, openChallenges, coinbase, chainVars>>

\* reclaimChallengeBond
ReclaimChallengeBond(h, t) ==
  /\ challenges[h][t].challenger # NoAccount
  /\ revertedBlocks[h] # "NONE"
  /\ DeleteChallenge(h, t)
  /\ Pay(ChallengeBond)
  /\ UNCHANGED <<l1Block, slotVars, witnessHashes, openChallenges, coinbase, chainVars>>

-----------------------------------------------------------------------------
(* Fraud proofs                                                            *)

\* The proofs of BlockErrorProver, TransactionErrorProver, ExecutionErrorProver
\* and the first three of EncodingErrorProver: they refer to a pending header
\* only, reward nobody and leave the challenges to reclaimChallengeBond.
ProveHeaderError(p, i, h) ==
  /\ HasPendingBlock(p, i, h)
  /\ h \in FaultyHeaders
  /\ MarkFraudulentBlock(p, i, h)
  /\ UNCHANGED <<l1Block, challengeVars, chainVars, balance>>

\* handleSuccess of the provers that refer to a committed witness.  The
\* challenger is the zero address when the challenge is already deleted.
HandleSuccess(sender, p, i, h, t) ==
  /\ MarkFraudulentBlock(p, i, h)
  /\ Pay(RewardOutlay(challenges[h][t].challenger, sender))
  /\ DeleteChallenge(h, t)
  /\ witnessHashes' = [witnessHashes EXCEPT ![h][t] = NoWitness]
  /\ UNCHANGED <<l1Block, openChallenges, coinbase, chainVars>>

\* The proofs of AccessErrorProver and WitnessErrorProver and the access
\* record and exit proofs of EncodingErrorProver.
ProveWitnessError(sender, p, i, h, t) ==
  /\ HasPendingBlock(p, i, h)
  /\ witnessHashes[h][t] \in FaultyWitnesses
  /\ HandleSuccess(sender, p, i, h, t)

\* proveMessageWitnessEncodingError asks the prover contract for the function
\* "tryDecodeMessageWitness(witnessBytes)".  No function has this signature,
\* so the static call fails and the proof is accepted for every witness.
ProveMessageWitnessEncodingError(sender, p, i, h, t) ==
  /\ HasPendingBlock(p, i, h)
  /\ witnessHashes[h][t] # NoWitness
  /\ HandleSuccess(sender, p, i, h, t)

\* cancelSimpleTransactionChallenge: the block need not be pending and the
\* challenge need not be one that was counted.
CancelSimpleTransactionChallenge(h, t) ==
  /\ t \in SimpleTx[h]
  /\ HasTransactionChallenge(h, t)
  /\ openChallenges' = [openChallenges EXCEPT ![h] = WrapDec(@)]
  /\ DeleteChallenge(h, t)
  /\ Pay(ChallengeBond)
  /\ UNCHANGED <<l1Block, slotVars, witnessHashes, coinbase, chainVars>>

-----------------------------------------------------------------------------

\* The parent chain produces a block.
Tick ==
  /\ l1Block < MaxL1Block
  /\ l1Block' = l1Block + 1
  /\ UNCHANGED <<slotVars, challengeVars, chainVars, balance>>

Next ==
  \/ Tick
  \/ \E a \in Accounts : Initialize(a)
  \/ \E a \in Accounts, h \in Headers : SubmitBlock(a, h)
  \/ \E p \in Hashes, h \in Headers : \E i \in 1 .. MaxChildren :
       \/ \E n \in 0 .. Len(confirmedBlocks) + 1 : ConfirmBlock(p, i, h, n)
       \/ ProveHeaderError(p, i, h)
       \/ \E a \in Accounts, t \in TxIndices :
            \/ ChallengeTransaction(a, p, i, h, t)
            \/ ProveWitnessError(a, p, i, h, t)
            \/ ProveMessageWitnessEncodingError(a, p, i, h, t)
  \/ \E h \in Headers, t \in TxIndices :
       \/ \E a \in Accounts, w \in Witnesses : RespondToChallenge(a, h, t, w)
       \/ \E a \in Accounts : ChallengeTimeout(a, h, t)
       \/ ReclaimChallengeBond(h, t)
       \/ CancelSimpleTransactionChallenge(h, t)

Spec == Init /\ [][Next]_vars

-----------------------------------------------------------------------------
(* Properties that hold.                                                   *)

\* The monitor finds a block by the parent hash and child index of its
\* BlockSubmitted event: every slot was announced exactly once, and a slot
\* that is not deleted still holds the block announced for it.
SlotsMatchEvents ==
  \A p \in Hashes :
    /\ \A i \in DOMAIN pendingBlocks[p] :
         \E e \in submitted : e.parentHash = p /\ e.slot = i
    /\ \A e \in submitted : e.parentHash = p =>
         /\ e.slot \in DOMAIN pendingBlocks[p]
         /\ \/ pendingBlocks[p][e.slot] = Deleted
            \/ pendingBlocks[p][e.slot].blockHash = e.blockHash

\* A slot becomes zero only when the block announced for it is reverted for
\* fraud, so that "all earlier siblings are zero" in verifyCanConfirm means
\* "all earlier siblings were proven fraudulent".
DeletedSlotsAreFraud ==
  \A e \in submitted :
    pendingBlocks[e.parentHash][e.slot] = Deleted => revertedBlocks[e.blockHash] = "FRAUD"

\* A challenge counts as answered only while the answer is on record: the
\* three operations that remove a challenge or a witness keep the two in step.
ReceivedHasWitness ==
  \A h \in Headers, t \in TxIndices :
    challenges[h][t].step = "RECEIVED" => witnessHashes[h][t] # NoWitness

\* reclaimChallengeBond tests the challenger for the existence of a challenge,
\* challengeTimeout and putChallenge test the step.  The tests agree in the
\* direction that keeps a bond from being paid twice, and a challenge waiting
\* for its answer always has a challenger to reward.
ChallengerImpliesChallenge ==
  \A h \in Headers, t \in TxIndices :
    /\ challenges[h][t].challenger # NoAccount => challenges[h][t].step # "NONE"
    /\ challenges[h][t].step = "PENDING" => challenges[h][t].challenger # NoAccount

\* verifyCanConfirm reads a counter where it asks for open challenges.  While
\* nobody has answered for a simple transaction of a standing block the counter
\* is never below the challenges somebody holds a bond in.  An answer where no
\* challenge was (respondToChallenge) makes an entry without a challenger that
\* was never counted; the cancellation of such an entry is the one decrement
\* too many, and can wrap the counter, which is why it is left out.
PendingIsCounted ==
  \A h \in Headers :
    /\ revertedBlocks[h] = "NONE"
    /\ \A t \in SimpleTx[h] : witnessHashes[h][t] = NoWitness
    => openChallenges[h] >=
         Cardinality({t \in TxIndices : challenges[h][t].challenger # NoAccount})

\* putWitness commits the producer to one witness: it is never replaced, and
\* it is withdrawn only together with its challenge by the proof that reverts
\* the block.
WitnessCommittedOnce ==
  [][\A h \in Headers, t \in TxIndices :
       witnessHashes[h][t] # NoWitness /\ witnessHashes'[h][t] # witnessHashes[h][t] =>
         /\ witnessHashes'[h][t] = NoWitness
         /\ challenges'[h][t] = NullChallenge
         /\ revertedBlocks'[h] = "FRAUD"]_vars

\* Every payment uses up the claim it is made for, a challenge or a committed
\* witness, so that no claim is paid a second time.
PayoutConsumesClaim ==
  [][balance' < balance =>
       \E h \in Headers, t \in TxIndices :
         \/ HasTransactionChallenge(h, t) /\ ~HasTransactionChallenge(h, t)'
         \/ witnessHashes[h][t] # NoWitness /\ witnessHashes'[h][t] = NoWitness]_vars

\* CHALLENGE_PERIOD is the time the producer has to answer, and the challenger
\* has to prove an error after the answer: a challenge on a transaction that
\* is not simple is not closed earlier while its block stands.
ChallengeRunsItsPeriod ==
  [][\A h \in Headers, t \in TxIndices :
       /\ HasTransactionChallenge(h, t) /\ ~HasTransactionChallenge(h, t)'
       /\ revertedBlocks'[h] = "NONE"
       /\ t \notin SimpleTx[h]
       => l1Block - challenges[h][t].lastUpdate >= ChallengePeriod]_vars

\* A block found confirmable is the pending child of the last confirmed block,
\* is older than the confirmation period, and every block submitted before it
\* under the same parent was reverted for fraud.
ConfirmableInOrder ==
  [][\A h \in passedChecks' \ passedChecks :
       LET p == ParentOf[h] IN
       /\ p = confirmedBlocks[Len(confirmedBlocks)]
       /\ \E i \in DOMAIN pendingBlocks[p] :
            /\ HasPendingBlock(p, i, h)
            /\ l1Block - pendingBlocks[p][i].submittedAt >= ConfirmationPeriod
            /\ \A e \in submitted : e.parentHash = p /\ e.slot < i =>
                 revertedBlocks[e.blockHash] = "FRAUD"]_vars

-----------------------------------------------------------------------------
(* What the comments and messages of the contracts say and the code does   *)
(* not do: each of these is violated.                                      *)

\* RevertReason.TIMEOUT, "Reverted due to lack of challenge response": when
\* an unanswered challenge expires the block is reverted.
UnansweredBlockReverted ==
  [][\A h \in Headers, t \in TxIndices :
       /\ challenges[h][t].step = "PENDING" /\ ~HasTransactionChallenge(h, t)'
       /\ t \notin SimpleTx[h]
       => revertedBlocks'[h] # "NONE"]_vars

\* The confirmation period is the time "after which it may be confirmed"
\* (ConfigLib), and ChainStateLib selects "the first good block at a given
\* height": a block that passes every check of confirmBlock is confirmed.
CheckedIsConfirmed == passedChecks \subseteq {confirmedBlocks[n] : n \in DOMAIN confirmedBlocks}

\* "Block has pending challenges." is why verifyCanConfirm refuses a block:
\* once the last challenge of a standing block is closed as answered, it no
\* longer has any.
AnsweredBlockReleased ==
  [][\A h \in Headers, t \in TxIndices :
       /\ challenges[h][t].step = "RECEIVED" /\ ~HasTransactionChallenge(h, t)'
       /\ revertedBlocks'[h] = "NONE"
       /\ \A other \in TxIndices : ~HasTransactionChallenge(h, other)'
       => ~HasPendingChallenge(h)']_vars

-----------------------------------------------------------------------------
(* What follows from these for every behaviour (ChainPegProofs): how far    *)
(* the two disagreements go.                                                *)

\* Nothing above the genesis block is ever confirmed and no exits root ever
\* reaches the relay: confirmBlock assigns confirmedBlocks[blockNumber] after
\* it has required that the array has length blockNumber.
OnlyGenesisConfirmed ==
  /\ confirmedBlocks = <<Genesis>>
  /\ exitRoots = << >>

\* On a block without simple transactions the counter never returns to zero:
\* it is zero only while no challenge was ever raised, hence no coinbase
\* recorded and no response possible.
UncountedBlockUntouched ==
  \A h \in Headers :
    SimpleTx[h] = {} /\ ~HasPendingChallenge(h) =>
      /\ coinbase[h] = NoAccount
      /\ \A t \in TxIndices : /\ challenges[h][t] = NullChallenge
                              /\ witnessHashes[h][t] = NoWitness

=============================================================================

----------------------------- MODULE BlockAudit -----------------------------
(***************************************************************************)
(* The audit of one block by packages/monitor/src/auditor: the header and  *)
(* the encodings (block-auditor.ts), then each transaction in the VM       *)
(* (execution-auditor.ts).  The first error found becomes a proof for the  *)
(* peg or, when the receiver is a contract, a challenge.  The parent relay *)
(* goes on queueing transactions during the audit and before the proof is  *)
(* mined.                                                                  *)
(*                                                                         *)
(* A definition under a comment line that begins with \* is a mistaken     *)
(* form of the one after it, which no specification uses: it shows which   *)
(* property notices which mistake.                                         *)
(***************************************************************************)
EXTENDS FraudProofs, FiniteSetsExt

CONSTANT Blocks   \* the blocks to audit

(* The addresses of which the parent relay makes a contract: nobody has    *)
(* their keys, and contracts do not create others.                         *)
Creators == {Queue[n].from : n \in {m \in 1..Len(Queue) : Queue[m].to = Zero}}

ASSUME BlocksAssumption == Blocks \subseteq BlockInputs

(* The auditor has the state of the parent.                                *)
ASSUME ParentAssumption ==
    \A b \in Blocks :
        /\ b.parent.stateRoot # Wrong
        /\ \A a \in Creators : b.parent.stateRoot.nonce[a] = 0

ASSUME SignerAssumption ==
    \A b \in Blocks : \A i \in 1..Len(b.leaves) :
        LET leaf == b.leaves[i]
        IN leaf.form \notin {"root", "malformed"} =>
               ~leaf.tx.incoming /\ leaf.tx.from \notin Creators \union {Zero}

VARIABLES
    pc,       \* header, decode, execute, exits or done
    index,    \* the transaction that is next
    state,    \* the state of the auditor's VM
    answer,   \* what the audit came to: kind, and index of the transaction
    verdict   \* what the peg said to the proof: none, accepted, rejected

vars == <<block, queued, pc, index, state, answer, verdict>>

NoAnswer == [kind |-> "none", index |-> 0]
Outcomes == {"none", "ok", "throws", "challenge"}

Init ==
    /\ block \in Blocks
    /\ queued \in 0..Len(Queue)
    /\ pc = "header"
    /\ index = 1
    /\ state = block.parent.stateRoot
    /\ answer = NoAnswer
    /\ verdict = "none"

Answer(kind, i) ==
    /\ answer' = [kind |-> kind, index |-> i]
    /\ pc' = "done"

-----------------------------------------------------------------------------
(* The checks of the header, in their order.  The last transaction of an   *)
(* empty block is undefined, and the audit ends with an exception.         *)
HeaderErrors == <<
    [kind |-> "INCOMING_TRANSACTIONS_INDEX",
     found |-> header.incomingIndex # parent.incomingIndex + parent.incomingCount],
    [kind |-> "INCOMING_TRANSACTIONS_OUT_OF_RANGE",
     found |-> header.incomingIndex + header.incomingCount > queued],
    [kind |-> "BLOCK_TIMESTAMP", found |-> header.timestamp <= parent.timestamp],
    [kind |-> "BLOCK_NUMBER", found |-> header.number # parent.number + 1],
    [kind |-> "throws", found |-> leaves = <<>>],
    [kind |-> "BLOCK_STATE_ROOT",
     found |-> leaves # <<>> /\ header.stateRoot # leaves[Len(leaves)].root]>>

checkHeader ==
    LET found == {n \in 1..Len(HeaderErrors) : HeaderErrors[n].found}
    IN /\ pc = "header"
       /\ IF found = {} THEN pc' = "decode" /\ UNCHANGED answer
          ELSE Answer(HeaderErrors[Min(found)].kind, Len(leaves))
       /\ UNCHANGED <<block, queued, index, state, verdict>>

(* The error of the i-th leaf, or none.  The v of a transaction is checked *)
(* by its constructor, so that a foreign one is an error of encoding.      *)
LeafError(i) ==
    LET leaf == leaves[i]
    IN CASE i <= header.incomingCount ->
              IF leaf.form = "root" THEN "none" ELSE "INCOMING_TX_ENCODING"
         [] i > header.incomingCount ->
              IF leaf.form \in {"root", "malformed", "lax", "foreignV"}
              THEN "SIGNED_TX_ENCODING"
              ELSE IF leaf.form \in {"noSigner", "highS"} THEN "TX_SIGNATURE"
              ELSE IF leaf.tx.to = Zero THEN "INVALID_CREATE_TX"
              ELSE "none"

decodeTransactions ==
    LET found == {i \in Indices : LeafError(i) # "none"}
    IN /\ pc = "decode"
       /\ IF found = {} THEN pc' = "execute" /\ UNCHANGED answer
          ELSE Answer(LeafError(Min(found)), Min(found))
       /\ UNCHANGED <<block, queued, index, state, verdict>>

(* The i-th transaction of the block as the auditor runs it.               *)
Transaction(i) ==
    IF i <= header.incomingCount THEN Queue[Position(i)] ELSE leaves[i].tx

-----------------------------------------------------------------------------
Current == Transaction(index)
ClaimedRoot == leaves[index].root

auditTransaction == CanRun(state, Current) /\ runTx(state, Current) = ClaimedRoot

\* A receiver without code is not enough.
SimpleUnlessCalled ==
    \/ Current.to = Zero
    \/ /\ ~Current.incoming
       /\ \/ Current.nonce # state.nonce[Current.from]
          \/ getUpfrontCost(Current) > state.balance[Current.from]
          \/ getBaseFee(Current) > Current.gas

hasSimpleProvableError ==
    \/ Current.to = Zero
    \/ ~state.code[Current.to]
    \/ /\ ~Current.incoming
       /\ \/ Current.nonce # state.nonce[Current.from]
          \/ getUpfrontCost(Current) > state.balance[Current.from]
          \/ getBaseFee(Current) > Current.gas

ExecuteNext ==
    /\ pc = "execute" /\ index \in Indices
    /\ auditTransaction
    /\ state' = runTx(state, Current)
    /\ index' = index + 1
    /\ UNCHANGED <<block, queued, pc, answer, verdict>>

\* The last transaction need not be run.
EndBeforeLast ==
    /\ pc = "execute" /\ index >= Len(leaves)
    /\ pc' = "exits"
    /\ UNCHANGED <<block, queued, index, state, answer, verdict>>

EndOfTransactions ==
    /\ pc = "execute" /\ index > Len(leaves)
    /\ pc' = "exits"
    /\ UNCHANGED <<block, queued, index, state, answer, verdict>>

\* Incoming transactions are not challenged.
ChallengeSigned ==
    /\ pc = "execute" /\ index \in Indices /\ ~Current.incoming
    /\ ~auditTransaction
    /\ ~hasSimpleProvableError
    /\ Answer("challenge", index)
    /\ UNCHANGED <<block, queued, index, state, verdict>>

ChallengeBlock ==
    /\ pc = "execute" /\ index \in Indices
    /\ ~auditTransaction
    /\ ~hasSimpleProvableError
    /\ Answer("challenge", index)
    /\ UNCHANGED <<block, queued, index, state, verdict>>

(* When the simple transfer gives the claimed root, the audit goes on with *)
(* that state, and without the transactions that are left.                 *)
auditIncomingTransaction ==
    /\ pc = "execute" /\ index \in Indices /\ Current.incoming
    /\ ~auditTransaction
    /\ hasSimpleProvableError
    /\ state' = SimpleIncomingRoot(state, Current)
    /\ IF state' = ClaimedRoot THEN pc' = "exits" /\ UNCHANGED answer
       ELSE Answer("SIMPLE_INCOMING_TX", index)
    /\ UNCHANGED <<block, queued, index, verdict>>

auditSignedTransaction ==
    /\ pc = "execute" /\ index \in Indices /\ ~Current.incoming
    /\ ~auditTransaction
    /\ hasSimpleProvableError
    /\ IF getBaseFee(Current) > Current.gas THEN Answer("INSUFFICIENT_GAS", index)
       ELSE IF Current.nonce # state.nonce[Current.from]
       THEN Answer("INVALID_NONCE", index)
       ELSE IF state.balance[Current.from] < getUpfrontCost(Current)
       THEN Answer("INSUFFICIENT_BALANCE", index)
       ELSE Answer("SIMPLE_SIGNED_TX", index)
    /\ UNCHANGED <<block, queued, index, state, verdict>>

(* ChildRelay.create looks for the exits under a key that nothing is       *)
(* stored under, and so finds none.                                        *)
ExitsRead == <<>>

auditExitRoot ==
    /\ pc = "exits"
    /\ IF header.exitsRoot # ExitsRead THEN Answer("BLOCK_EXIT_ROOT", 0)
       ELSE Answer("ok", 0)
    /\ UNCHANGED <<block, queued, index, state, verdict>>

-----------------------------------------------------------------------------
(* The peg executes the proof.                                             *)
proveError ==
    /\ pc = "done" /\ answer.kind \notin Outcomes
    /\ verdict = "none"
    /\ verdict' = IF Accepts(answer.kind, answer.index) THEN "accepted" ELSE "rejected"
    /\ UNCHANGED <<block, queued, pc, index, state, answer>>

(* A transaction is added to the parent relay.                             *)
addTransaction ==
    /\ queued < Len(Queue)
    /\ queued' = queued + 1
    /\ UNCHANGED <<block, pc, index, state, answer, verdict>>

Next ==
    \/ checkHeader \/ decodeTransactions
    \/ ExecuteNext \/ EndOfTransactions \/ ChallengeBlock
    \/ auditIncomingTransaction \/ auditSignedTransaction
    \/ auditExitRoot
    \/ proveError \/ addTransaction

Fairness ==
    WF_vars(checkHeader \/ decodeTransactions \/ ExecuteNext \/ EndOfTransactions
            \/ ChallengeBlock \/ auditIncomingTransaction \/ auditSignedTransaction
            \/ auditExitRoot \/ proveError)

Spec == Init /\ [][Next]_vars /\ Fairness

-----------------------------------------------------------------------------
(* The i-th leaf is a transaction of its kind, and its root is what runTx   *)
(* makes of the root before.                                               *)
RunsTo(i) ==
    LET before == IF i = 1 THEN parent.stateRoot ELSE leaves[i - 1].root
    IN /\ leaves[i].form = IF i <= header.incomingCount THEN "root" ELSE "signed"
       /\ i > header.incomingCount => leaves[i].tx.to # Zero
       /\ before # Wrong
       /\ CanRun(before, Transaction(i))
       /\ leaves[i].root = runTx(before, Transaction(i))

(* A block that runBlock makes on the state of the parent with the         *)
(* transactions that the relay queued.                                     *)
Honest ==
    /\ header.incomingIndex = parent.incomingIndex + parent.incomingCount
    /\ header.incomingIndex + header.incomingCount <= queued
    /\ header.timestamp > parent.timestamp
    /\ header.number = parent.number + 1
    /\ leaves # <<>> /\ header.incomingCount <= Len(leaves)
    /\ \A i \in Indices : RunsTo(i)
    /\ header.stateRoot = leaves[Len(leaves)].root
    /\ header.exitsRoot = header.stateRoot.exits

(* A transaction that a prover calls simple and that the VM charges or     *)
(* executes in another way: data costs gas, and the child relay, which has *)
(* no code, takes exits.                                                   *)
Mischarged(i) ==
    /\ i \in Indices
    /\ \/ Transaction(i).to = Relay
       \/ ~Transaction(i).incoming /\ Transaction(i).data > 0

(* No proof convicts an honest block, whoever brings it and however long   *)
(* the queue has become, but a simple one of a mischarged transaction.     *)
ConvictedOnlyIfWrong ==
    Honest =>
        \A kind \in BlockProofs \union LeafProofs, i \in Indices \union {0} :
            Accepts(kind, i) =>
                kind \in {"SIMPLE_INCOMING_TX", "SIMPLE_SIGNED_TX"} /\ Mischarged(i)

(* An incoming call of the child relay, treated as a transfer.             *)
RelayTransfer ==
    \E i \in Indices :
        /\ Transaction(i).incoming /\ Transaction(i).to = Relay
        /\ provePreviousStateRoot(i) # Wrong
        /\ leaves[i].root = SimpleIncomingRoot(provePreviousStateRoot(i), Transaction(i))

(* What the auditor finds the peg accepts.  The exceptions: the relay has  *)
(* queued what the block counted too early; encodings and signatures that  *)
(* the libraries of the auditor refuse and the contract reads; mischarged  *)
(* transactions; and exits, which the auditor does not see.                *)
RejectedOnlyIf ==
    verdict = "rejected" =>
        LET i == answer.index
        IN \/ /\ answer.kind = "INCOMING_TRANSACTIONS_OUT_OF_RANGE"
              /\ header.incomingIndex + header.incomingCount <= queued
           \/ answer.kind = "SIGNED_TX_ENCODING" /\ leaves[i].form \in {"lax", "foreignV"}
           \/ answer.kind = "TX_SIGNATURE" /\ leaves[i].form = "highS"
           \/ answer.kind = "SIMPLE_SIGNED_TX" /\ Mischarged(i)
           \/ /\ answer.kind = "BLOCK_EXIT_ROOT"
              /\ RelayTransfer \/ header.exitsRoot = header.stateRoot.exits

(* A block that counts more incoming transactions than it has, hides its   *)
(* exits, or treats a call of the child relay as a transfer is passed.     *)
Escapes ==
    \/ header.incomingCount > Len(leaves)
    \/ header.exitsRoot = <<>> /\ header.stateRoot # Wrong /\ header.stateRoot.exits # <<>>
    \/ RelayTransfer

(* Every other block that the auditor passes is honest; and an honest      *)
(* block without exits is passed, unless it was audited before the relay   *)
(* had queued its transactions.                                            *)
PassedIsHonest ==
    /\ answer.kind = "ok" => Honest \/ Escapes
    /\ pc = "done" /\ Honest /\ header.exitsRoot = <<>> =>
         answer.kind \in {"ok", "INCOMING_TRANSACTIONS_OUT_OF_RANGE"}

(* A challenge is of the first root that the VM does not confirm, and      *)
(* nobody can cancel it as one of a simple transaction.                    *)
ChallengeStands ==
    answer.kind = "challenge" =>
        /\ ~RunsTo(answer.index)
        /\ \A i \in 1..answer.index - 1 : RunsTo(i)
        /\ ~cancelSimpleTransactionChallenge(answer.index)

(* A wrong block is proved wrong or challenged, unless it is empty or the  *)
(* relay queues what was missing.                                          *)
WrongIsAnswered ==
    ~Honest /\ ~Escapes ~>
        \/ answer.kind \in {"challenge", "throws"}
        \/ verdict # "none"
        \/ Honest
=============================================================================

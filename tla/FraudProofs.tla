----------------------------- MODULE FraudProofs -----------------------------
(***************************************************************************)
(* The proofs of BlockErrorProver.sol, EncodingErrorProver.sol and         *)
(* ExecutionErrorProver.sol that need neither a challenge nor a witness,   *)
(* for one pending block whose parent header is known.                     *)
(*                                                                         *)
(* block.leaves are the encoded transactions.  A leaf has a form, a root   *)
(* (its last 32 bytes) and the transaction it encodes.  The forms are      *)
(*   root       32 bytes, an incoming transaction                          *)
(*   signed     a signed transaction                                       *)
(*   noSigner   as signed, but no key is recovered, or v is 100            *)
(*   highS      as signed, with the larger of the two values of s          *)
(*   foreignV   as signed, with another v of another chain                 *)
(*   lax        one that only the decoder of the contract accepts          *)
(*   malformed  one that no decoder accepts                                *)
(* Wrong is a root of which nobody knows the state, so nothing is proved   *)
(* under it.  Proofs of inclusion are exact.                               *)
(*                                                                         *)
(* A definition under a comment line that begins with \* is a mistaken     *)
(* form of the one after it, which no specification uses: it shows which   *)
(* property notices which mistake.                                         *)
(***************************************************************************)
EXTENDS Execution

CONSTANTS
    Queue,   \* the transactions that the parent relay gets, in their order
    Wrong

Forms == {"root", "signed", "noSigner", "highS", "foreignV", "lax", "malformed"}
Roots == States \union {Wrong}
Leaves == [form : Forms, tx : Transactions, root : Roots]
Headers ==
    [number : Nat, timestamp : Nat, incomingIndex : Nat, incomingCount : Nat,
     stateRoot : Roots, exitsRoot : Exits]
BlockInputs == [parent : Headers, header : Headers, leaves : Seq(Leaves)]

ASSUME RootAssumption == Wrong \notin States
ASSUME QueueAssumption ==
    /\ Queue \in Seq(Transactions)
    /\ \A n \in 1..Len(Queue) :
           Queue[n].incoming /\ (Queue[n].to = Zero => Queue[n].value = 0)

VARIABLES
    block,   \* the block that was submitted
    queued   \* relay.getTransactionsCount()

header == block.header
parent == block.parent
leaves == block.leaves
Indices == 1..Len(leaves)

-----------------------------------------------------------------------------
\* The root of the transaction itself.
ProveOwnStateRoot(i) == leaves[i].root

provePreviousStateRoot(i) ==
    IF i = 1 THEN parent.stateRoot ELSE leaves[i - 1].root

validateSignedTransaction(i) == i \in Indices /\ i > header.incomingCount

(* The contract decodes the leaf, and recovers the signer.                 *)
decodeTransaction(i) == leaves[i].form \notin {"root", "malformed"}
getSenderAddress(i) ==
    IF leaves[i].form \in {"noSigner", "foreignV"} THEN Zero ELSE leaves[i].tx.from

ProvableSigned(i) == validateSignedTransaction(i) /\ decodeTransaction(i)

(* The account of the signer in the state before the transaction.          *)
proveAccountInState(i) ==
    /\ ProvableSigned(i)
    /\ provePreviousStateRoot(i) # Wrong

Position(i) == header.incomingIndex + i
validateIncomingTransaction(i) ==
    /\ i \in Indices
    /\ i <= header.incomingCount
    /\ leaves[i].form = "root"
    /\ Position(i) <= queued

-----------------------------------------------------------------------------
setAccountCodeHash(s, a) == [s EXCEPT !.code[a] = TRUE]
increaseBalance(s, a, v) == Credit(s, a, v)
subtractBalanceAndIncrementNonce(s, a, v) ==
    [Debit(s, a, v) EXCEPT !.nonce[a] = @ + 1]

SimpleIncomingRoot(s, t) ==
    IF t.to = Zero THEN setAccountCodeHash(s, t.from)
    ELSE increaseBalance(s, t.to, t.value)

(* The gas is charged once, and always the same.                           *)
SimpleSignedRoot(s, signer, t) ==
    increaseBalance(
        increaseBalance(
            subtractBalanceAndIncrementNonce(s, signer, t.value + BaseGas * t.price),
            t.to, t.value),
        Coinbase, BaseGas * t.price)

-----------------------------------------------------------------------------
proveIncomingTransactionIndexError ==
    header.incomingIndex # parent.incomingIndex + parent.incomingCount
proveIncomingTransactionsOutOfRangeError ==
    header.incomingIndex + header.incomingCount > queued
\* Equal timestamps are valid.
ProveEarlierTimestamp == header.timestamp < parent.timestamp

proveTimestampError == header.timestamp <= parent.timestamp
proveBlockNumberError == header.number # parent.number + 1
proveStateRootError(i) ==
    /\ i = Len(leaves) /\ i \in Indices
    /\ header.stateRoot # leaves[i].root
proveExitsRootError ==
    /\ header.stateRoot # Wrong
    /\ header.exitsRoot # header.stateRoot.exits

proveIncomingTransactionEncodingError(i) ==
    /\ i \in Indices /\ i <= header.incomingCount
    /\ leaves[i].form # "root"
proveSignedTransactionEncodingError(i) ==
    validateSignedTransaction(i) /\ ~decodeTransaction(i)
proveTransactionSignatureError(i) ==
    ProvableSigned(i) /\ getSenderAddress(i) = Zero

proveInvalidCreateTransaction(i) == ProvableSigned(i) /\ leaves[i].tx.to = Zero
proveInsufficientGasError(i) ==
    ProvableSigned(i) /\ leaves[i].tx.gas < getBaseFee(leaves[i].tx)
proveInvalidNonceError(i) ==
    /\ proveAccountInState(i)
    /\ leaves[i].tx.nonce # provePreviousStateRoot(i).nonce[getSenderAddress(i)]
proveInsufficientBalanceError(i) ==
    /\ proveAccountInState(i)
    /\ getUpfrontCost(leaves[i].tx) >
           provePreviousStateRoot(i).balance[getSenderAddress(i)]

(* The receiver is read after its balance was changed, its code was not.   *)
proveSimpleIncomingTransactionExecutionError(i) ==
    LET s == provePreviousStateRoot(i)
        t == Queue[Position(i)]
    IN /\ validateIncomingTransaction(i)
       /\ s # Wrong
       /\ t.to = Zero \/ ~s.code[t.to]
       /\ leaves[i].root # SimpleIncomingRoot(s, t)
proveSimpleSignedTransactionExecutionError(i) ==
    LET s == provePreviousStateRoot(i)
        t == leaves[i].tx
        signer == getSenderAddress(i)
    IN /\ proveAccountInState(i)
       /\ s.balance[signer] >= t.value + BaseGas * t.price
       /\ ~s.code[t.to]
       /\ leaves[i].root # SimpleSignedRoot(s, signer, t)

(* The only use of a simple transaction once a challenge is open.          *)
cancelSimpleTransactionChallenge(i) ==
    LET s == provePreviousStateRoot(i)
        to == IF i <= header.incomingCount THEN Queue[Position(i)].to
              ELSE leaves[i].tx.to
    IN /\ validateIncomingTransaction(i) \/ ProvableSigned(i)
       /\ to = Zero \/ (s # Wrong /\ ~s.code[to])

-----------------------------------------------------------------------------
(* What the entries of function-map.ts call.                               *)
BlockProofs ==
    {"INCOMING_TRANSACTIONS_INDEX", "INCOMING_TRANSACTIONS_OUT_OF_RANGE",
     "BLOCK_TIMESTAMP", "BLOCK_NUMBER", "BLOCK_EXIT_ROOT"}
LeafProofs ==
    {"BLOCK_STATE_ROOT", "INCOMING_TX_ENCODING", "SIGNED_TX_ENCODING",
     "TX_SIGNATURE", "INVALID_CREATE_TX", "INSUFFICIENT_GAS", "INVALID_NONCE",
     "INSUFFICIENT_BALANCE", "SIMPLE_INCOMING_TX", "SIMPLE_SIGNED_TX"}

Accepts(kind, i) ==
    \/ kind = "INCOMING_TRANSACTIONS_INDEX" /\ proveIncomingTransactionIndexError
    \/ kind = "INCOMING_TRANSACTIONS_OUT_OF_RANGE"
         /\ proveIncomingTransactionsOutOfRangeError
    \/ kind = "BLOCK_TIMESTAMP" /\ proveTimestampError
    \/ kind = "BLOCK_NUMBER" /\ proveBlockNumberError
    \/ kind = "BLOCK_STATE_ROOT" /\ proveStateRootError(i)
    \/ kind = "BLOCK_EXIT_ROOT" /\ proveExitsRootError
    \/ kind = "INCOMING_TX_ENCODING" /\ proveIncomingTransactionEncodingError(i)
    \/ kind = "SIGNED_TX_ENCODING" /\ proveSignedTransactionEncodingError(i)
    \/ kind = "TX_SIGNATURE" /\ proveTransactionSignatureError(i)
    \/ kind = "INVALID_CREATE_TX" /\ proveInvalidCreateTransaction(i)
    \/ kind = "INSUFFICIENT_GAS" /\ proveInsufficientGasError(i)
    \/ kind = "INVALID_NONCE" /\ proveInvalidNonceError(i)
    \/ kind = "INSUFFICIENT_BALANCE" /\ proveInsufficientBalanceError(i)
    \/ kind = "SIMPLE_INCOMING_TX" /\ proveSimpleIncomingTransactionExecutionError(i)
    \/ kind = "SIMPLE_SIGNED_TX" /\ proveSimpleSignedTransactionExecutionError(i)
=============================================================================

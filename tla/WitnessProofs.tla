---------------------------- MODULE WitnessProofs ----------------------------
(***************************************************************************)
(* What the peg accepts as a proof that the witness of a challenged        *)
(* transaction is wrong: WitnessErrorProver, AccessErrorProver and the     *)
(* witness part of EncodingErrorProver, with StateProofLib, ExitProofLib,  *)
(* MessageWitnessLib, AccessRecordLib and OutgoingTransactionLib           *)
(* (packages/contracts/contracts).                                         *)
(*                                                                         *)
(* A Merkle proof is the state (or the storage, or the exits) that it was  *)
(* made from, and fits when that is the one whose root the contract has.   *)
(* The root Wrong belongs to no state.                                     *)
(***************************************************************************)
EXTENDS Interpreter

CONSTANTS
    Wrong,      \* a root of no state
    NoClaim

ASSUME RootAssumption == Wrong \notin States /\ NoRoot \notin States

VARIABLE claim  \* the witness sent to the peg, and the root in the block

w == claim.witness

-----------------------------------------------------------------------------
(* decodeAccessRecord's opcodes; those that the peg decodes; those whose   *)
(* second word is a root.                                                  *)
Undecodable == {"BLOCKHASH", "DELEGATECALL"}
ChangesState == {"CALL", "SSTORE", "DELEGATECALL"}

\* The record itself is taken into account.
getLastStateIncluded(index) ==
    LET changes == {i \in DOMAIN w.list : i <= index /\ w.list[i].op \in ChangesState}
    IN IF changes = {} THEN w.stateRootEnter ELSE w.list[Max(changes)].root

(* The root before a record, or after the last one.                        *)
getLastState(index) ==
    LET changes == {i \in DOMAIN w.list : i < index /\ w.list[i].op \in ChangesState}
    IN IF changes = {} THEN w.stateRootEnter ELSE w.list[Max(changes)].root

(* A proof that was made from s fits the root.                             *)
Fits(s, root) == s = root /\ root # Wrong

(* A word of zeroes is the empty leaf.                                     *)
WordLeaf(v) == IF v = 0 THEN NoLeaf ELSE Word(v)

(* The shortest bytes of a value are read from the left of a word.         *)
Misread == -1
Mload(leaf) == IF leaf.form = "short" /\ leaf.value # 0 THEN Misread ELSE leaf.value

StorageOf(s, a) == IF a \in Contracts THEN s.storage[a] ELSE NothingStored

fromExitCalldata(data, gas) == data \in {"exit", "lax"} /\ gas >= ExitFee
updateExitsRoot(s, exits, caller, value, gas) ==
    [s EXCEPT !.exits = Append(exits, outgoingTransactionFromCallInputs(caller, value, gas))]

(* Gas that a transaction pays for.                                        *)
Refunded(used, refund) ==
    used - (IF refund < used \div 2 THEN refund ELSE used \div 2)

-----------------------------------------------------------------------------
(* An error names a record, and has the states that its proofs were made   *)
(* from: that of the account, which is the owner's, of the receiver or the *)
(* child relay, of a storage tree and of the exits.                        *)

ExpectedRefund(value, old) ==
    IF value = 0 THEN IF old = 0 THEN ClearRefund ELSE 2 * ClearRefund
    ELSE IF old = 0 THEN 0 ELSE ClearRefund

validateSload(e, r, s) ==
    /\ Fits(e.account, s)
    /\ IF StorageOf(s, w.context) = NothingStored THEN r.value # 0
       ELSE e.storage = StorageOf(s, w.context) /\ r.value # Mload(e.storage[r.key])

validateSstore(e, r, s) ==
    /\ Fits(e.account, s)
    /\ e.storage = StorageOf(s, w.context)
    /\ \/ r.root # Put([s EXCEPT !.storage[w.context][r.key] = WordLeaf(r.value)], w.context)
       \/ r.refund # ExpectedRefund(r.value, Mload(e.storage[r.key]))

(* A call that its caller cannot pay for is judged by the balance in the   *)
(* proof, before anything is known of the root of that.                    *)
NothingHappened(r, s) == ~r.success /\ r.root = s

validateCall(e, r, s) ==
    IF e.account.balance[e.owner] < r.value THEN ~NothingHappened(r, s)
    ELSE LET paid == Debit(s, w.caller, r.value)
         IN /\ Fits(e.account, s) /\ e.owner = w.caller
            /\ r.key # Relay
            /\ Fits(e.receiver, paid)
            /\ IF r.key \in Contracts THEN ~NothingHappened(r, s)
               ELSE ~(r.success /\ r.root = Credit(paid, r.key, r.value))

validateExitCall(e, r, s) ==
    /\ r.key = Relay
    /\ fromExitCalldata(r.data, r.gas)
    /\ IF e.account.balance[e.owner] < r.value THEN ~NothingHappened(r, s)
       ELSE LET paid == Debit(s, w.context, r.value)
            IN /\ Fits(e.account, s) /\ e.owner = w.context
               /\ Fits(e.receiver, paid)
               /\ e.exits = s.exits
               /\ ~(r.success /\ r.root = updateExitsRoot(paid, e.exits, w.context, r.value, r.gas))

(* The size is read from an archive of the code, which is empty until      *)
(* somebody has archived it.                                               *)
validateExtCode(e, r, s) ==
    /\ Fits(e.account, s)
    /\ CASE e.type = "EXTCODEHASH" -> r.value # (IF r.key \in Contracts THEN "code" ELSE "empty")
         [] e.type = "EXTCODESIZE" ->
               IF r.key \in Contracts THEN r.key \notin setup.archived \/ r.value # "code"
               ELSE r.value # "empty"
         [] e.type = "EXTCODECOPY" -> r.key \in Contracts /\ ~r.value

validateBlockValue(e, r) ==
    IF e.type = "COINBASE" THEN r.value # setup.coinbase ELSE r.value # "header"

validateBalance(e, r, s) ==
    /\ Fits(e.account, s)
    /\ r.value # s.balance[IF e.type = "BALANCE" THEN r.key ELSE w.context]

proveExitCallEncodingError(r, s) == ~fromExitCalldata(r.data, r.gas) /\ ~NothingHappened(r, s)

(* Proofs about one record, and the opcode that it must have.              *)
StateOps ==
    {"BALANCE", "SELFBALANCE", "EXTCODESIZE", "EXTCODEHASH", "EXTCODECOPY", "COINBASE", "HEADER"}
StorageOps == {"SLOAD", "SSTORE"}
MessageOps ==
    [CALL |-> "CALL", EXIT_CALL |-> "CALL", EXIT_CALL_ENCODING |-> "CALL",
     STATICCALL |-> "STATICCALL"]
RecordOps ==
    [type \in StateOps \union StorageOps \union DOMAIN MessageOps |->
        IF type \in DOMAIN MessageOps THEN MessageOps[type] ELSE type]

ProvesRecord(e) ==
    LET r == w.list[e.index]
        s == getLastState(e.index)
    IN /\ r.op = RecordOps[e.type]
       /\ CASE e.type \in {"BALANCE", "SELFBALANCE"} -> validateBalance(e, r, s)
            [] e.type \in {"EXTCODEHASH", "EXTCODESIZE", "EXTCODECOPY"} -> validateExtCode(e, r, s)
            [] e.type \in {"COINBASE", "HEADER"} -> validateBlockValue(e, r)
            [] e.type = "SLOAD" -> validateSload(e, r, s)
            [] e.type = "SSTORE" -> validateSstore(e, r, s)
            [] e.type = "CALL" -> validateCall(e, r, s)
            [] e.type = "EXIT_CALL" -> validateExitCall(e, r, s)
            [] e.type = "EXIT_CALL_ENCODING" -> proveExitCallEncodingError(r, s)
            [] e.type = "STATICCALL" -> r.success

proveAccessRecordEncodingError(index) == w.list[index].op \in Undecodable

-----------------------------------------------------------------------------
(* Proofs about the witness.                                               *)

(* increaseBalance writes the account also when the value is zero.         *)
EntryRootFrom(s) ==
    IF tx.incoming THEN Credit(s, tx.to, tx.value)
    ELSE LET charged == [Debit(s, tx.from, getUpfrontCost(tx)) EXCEPT !.nonce[tx.from] = @ + 1]
         IN IF tx.to = Relay THEN charged ELSE Credit(charged, tx.to, tx.value)
EntryRoot == EntryRootFrom(before)

(* The flag isStatic is decoded as its opposite.                           *)
validContext ==
    /\ w.isStatic
    /\ w.gasPrice = IF tx.incoming THEN 0 ELSE tx.price
    /\ w.origin = tx.from /\ w.caller = tx.from
    /\ w.to = tx.to /\ w.context = tx.to
    /\ w.callvalue = tx.value /\ w.calldata = tx.data

proveWitnessExitRootError ==
    w.to # Relay /\ w.stateRootLeave # getLastState(Len(w.list) + 1)

proveExitCallWitnessGasError == w.to = Relay /\ (w.gasUsed # w.gasAvailable \/ w.refund # 0)

proveExitCallWitnessExitRootError(e) ==
    /\ w.to = Relay
    /\ fromExitCalldata(w.calldata, w.gasAvailable)
    /\ Fits(e.account, w.stateRootEnter) /\ e.exits = w.stateRootEnter.exits
    /\ w.stateRootLeave # updateExitsRoot(w.stateRootEnter, e.exits,
                                          w.caller, w.callvalue, w.gasAvailable)

(* The unspent gas goes to the caller, the rest to the operator.           *)
SuccessRoot(v, leave) ==
    LET cost == Refunded(v.gasUsed + getBaseFee(tx), v.refund) * tx.price
    IN Credit(Credit(leave, v.caller, tx.gas * tx.price - cost), setup.coinbase, cost)
FailureRootFrom(s) ==
    LET cost == (Refunded(w.gasUsed, w.refund) + getBaseFee(tx)) * tx.price
    IN Credit([Debit(s, w.caller, cost) EXCEPT !.nonce[w.caller] = @ + 1],
              setup.coinbase, cost)
FailureRoot == FailureRootFrom(before)

proveStateRootError(e) ==
    CASE e.type = "SIGNED_TX_STATE_ROOT_SUCCESS" ->
            /\ ~tx.incoming /\ w.status = "success"
            /\ Fits(e.account, w.stateRootLeave)
            /\ claim.root # SuccessRoot(w, w.stateRootLeave)
      [] e.type = "SIGNED_TX_STATE_ROOT_FAILURE" ->
            /\ ~tx.incoming /\ w.status # "success"
            /\ Fits(e.account, before)
            /\ claim.root # FailureRoot
      [] e.type = "INCOMING_TX_STATE_ROOT_SUCCESS" ->
            tx.incoming /\ w.status = "success" /\ claim.root # w.stateRootLeave
StateRootErrors ==
    {"SIGNED_TX_STATE_ROOT_SUCCESS", "SIGNED_TX_STATE_ROOT_FAILURE",
     "INCOMING_TX_STATE_ROOT_SUCCESS"}

proveWitnessGasExceededError == w.gasUsed > w.gasAvailable

RefundsUpTo(list) ==
    LET upTo[n \in 0 .. Len(list)] ==
            IF n = 0 THEN 0
            ELSE upTo[n - 1] + IF list[n].op = "SSTORE" THEN list[n].refund ELSE 0
    IN upTo
SstoreRefunds == RefundsUpTo(w.list)[Len(w.list)]

proveExitWitnessEncodingError ==
    fromExitCalldata(w.calldata, w.gasAvailable) # (w.status = "success")

(* Decoding is tried with a function that does not exist.                  *)
tryDecodeMessageWitness == FALSE

WitnessErrors ==
    StateRootErrors \union
    {"INPUT_STATE_ROOT", "WITNESS_CONTEXT", "OUTPUT_STATE_ROOT", "EXIT_CALL_WITNESS_GAS",
     "EXIT_CALL_WITNESS_EXIT_ROOT", "WITNESS_GAS_EXCEEDED", "WITNESS_REFUND",
     "EXIT_WITNESS_ENCODING", "WITNESS_ENCODING"}

ProvesWitness(e) ==
    CASE e.type = "INPUT_STATE_ROOT" -> Fits(e.account, before) /\ w.stateRootEnter # EntryRoot
      [] e.type = "WITNESS_CONTEXT" -> ~validContext
      [] e.type = "OUTPUT_STATE_ROOT" -> proveWitnessExitRootError
      [] e.type = "EXIT_CALL_WITNESS_GAS" -> proveExitCallWitnessGasError
      [] e.type = "EXIT_CALL_WITNESS_EXIT_ROOT" -> proveExitCallWitnessExitRootError(e)
      [] e.type \in StateRootErrors -> proveStateRootError(e)
      [] e.type = "WITNESS_GAS_EXCEEDED" -> proveWitnessGasExceededError
      [] e.type = "WITNESS_REFUND" -> w.refund # SstoreRefunds
      [] e.type = "EXIT_WITNESS_ENCODING" -> proveExitWitnessEncodingError
      [] e.type = "WITNESS_ENCODING" -> ~tryDecodeMessageWitness

Proves(e) ==
    IF e.type \in WitnessErrors THEN ProvesWitness(e)
    ELSE IF e.type = "ACCESS_RECORD_ENCODING" THEN proveAccessRecordEncodingError(e.index)
    ELSE ProvesRecord(e)

(* The proofs that somebody makes who has every state.                     *)
Exact(type, index) ==
    LET s == IF type = "EXIT_CALL_WITNESS_EXIT_ROOT" THEN w.stateRootEnter
             ELSE IF type = "SIGNED_TX_STATE_ROOT_SUCCESS" THEN w.stateRootLeave
             ELSE IF type \in {"INPUT_STATE_ROOT", "SIGNED_TX_STATE_ROOT_FAILURE"} THEN before
             ELSE getLastState(index)
        owner == IF type = "CALL" THEN w.caller ELSE w.context
    IN [type |-> type, index |-> index, account |-> s, owner |-> owner,
        receiver |-> IF type \in {"CALL", "EXIT_CALL"}
                     THEN Debit(s, owner, w.list[index].value) ELSE s,
        storage |-> StorageOf(s, w.context), exits |-> s.exits]

(* Errors about the i-th record.                                           *)
TypesOf(i) == {type \in DOMAIN RecordOps : RecordOps[type] = w.list[i].op}

ProvedOfWitness ==
    {type \in WitnessErrors :
        /\ type = "SIGNED_TX_STATE_ROOT_SUCCESS" => w.stateRootLeave # Wrong
        /\ Proves(Exact(type, 1))}
ProvedOfRecord(i) ==
    {type \in TypesOf(i) : Proves(Exact(type, i))}
    \union {type \in {"ACCESS_RECORD_ENCODING"} : Proves([type |-> type, index |-> i])}

-----------------------------------------------------------------------------
(* What the provers and the VM disagree about.                             *)

(* The refunds of messages that were sent are in the witness, and not in   *)
(* its SSTORE records; those of a failed message are only in its records.  *)
RefundsDiffer ==
    \E i \in DOMAIN w.list :
        LET r == w.list[i]
        IN IF w.status = "success" THEN r.op = "CALL" /\ r.key \in Contracts /\ r.success
           ELSE r.op = "SSTORE" /\ r.value = 0

(* Messages to contracts among the records before the i-th one, and those  *)
(* of them that were undone.                                               *)
Sent(i) == {j \in 1..(i - 1) : w.list[j].op = "CALL" /\ w.list[j].key \in Contracts}
Undone(i) == {j \in Sent(i) : ~w.list[j].success}

(* A call of a precompile leaves a checkpoint open, which takes the revert *)
(* of the message, and of those that it is part of.                        *)
LeavesCheckpoint == \E ins \in setup.code : ins.op = "STATICCALL" /\ ins.key = Precompile
CheckpointLeaked ==
    LeavesCheckpoint /\ (w.status = "exception" \/ Sent(Len(w.list) + 1) # {})

(* The context is compared with the opposite of isStatic, and decoding a   *)
(* witness calls a function that does not exist; the VM credits an account *)
(* only with more than nothing, and does not credit the child relay with   *)
(* an incoming exit that fails; an exit is undone with its debit; data is  *)
(* decoded as an exit whoever receives it.                                 *)
WitnessMisjudged(type) ==
    CASE type \in {"WITNESS_CONTEXT", "WITNESS_ENCODING"} -> TRUE
      [] type = "INPUT_STATE_ROOT" ->
            IF tx.incoming THEN tx.to = Relay \/ tx.value = 0
            ELSE tx.to # Relay /\ tx.value = 0 /\ tx.to \notin before.stored
      [] type = "EXIT_CALL_WITNESS_EXIT_ROOT" -> w.status # "success"
      [] type = "EXIT_WITNESS_ENCODING" ->
            \/ w.to # Relay
            \/ w.status # "success" /\ (tx.data = "lax" \/ before.balance[tx.from] < tx.value)
      [] type = "WITNESS_REFUND" -> RefundsDiffer
      [] type = "SIGNED_TX_STATE_ROOT_FAILURE" -> CheckpointLeaked
      [] OTHER -> FALSE

(* A storage leaf that is not a full word is misread, and storage that was *)
(* not cached has been read as empty; a contract's storage and messages    *)
(* do not change its caller's balance as validateCall expects; an account  *)
(* that is empty has the hash zero; the child relay remembers the exits of *)
(* messages that were undone; and a checkpoint that was left open takes    *)
(* the revert of a message, but not the renewal of the cached balance.  No *)
(* opcode that the VM records is left out except two that the peg cannot   *)
(* decode.                                                                 *)
RecordMisjudged(type, i) ==
    LET r == w.list[i]
        s == getLastState(i)
        leaf == s.storage[w.context][r.key]
    IN CASE type = "ACCESS_RECORD_ENCODING" -> r.op \in Undecodable
         [] type = "COINBASE" -> setup.coinbase = Zero
         [] type \in {"BALANCE", "SELFBALANCE"} -> LeavesCheckpoint /\ Undone(i) # {}
         [] type = "EXTCODEHASH" -> accountIsEmpty(s, r.key)
         [] type = "EXTCODESIZE" -> r.key \in Contracts \ setup.archived
         [] type = "SLOAD" -> leaf.form = "short" \/ (r.value = 0 /\ leaf # NoLeaf)
         [] type = "SSTORE" -> r.value \in 1..(Wide - 1) \/ StorageOf(s, w.context) # NothingStored
         [] type = "CALL" -> r.success \/ r.key \notin Contracts \/ LeavesCheckpoint
         [] type = "EXIT_CALL" ->
               IF r.success THEN Sent(i) # {}
               ELSE r.data = "lax" \/ (LeavesCheckpoint /\ Undone(i) # {})
         [] type = "EXIT_CALL_ENCODING" ->
               r.key \in Contracts /\ (r.success \/ LeavesCheckpoint)
         [] OTHER -> FALSE

(* No other proof convicts the witness.                                    *)
Stands ==
    /\ \A type \in ProvedOfWitness : WitnessMisjudged(type)
    /\ \A i \in DOMAIN w.list : \A type \in ProvedOfRecord(i) : RecordMisjudged(type, i)
=============================================================================

---------------------------- MODULE WitnessAudit -----------------------------
(***************************************************************************)
(* A transaction is executed, a witness of it is sent to the peg, and the  *)
(* monitor audits it: witness-auditors (packages/monitor/src/auditor),     *)
(* WitnessAuditor.ts with its two forms for signed and for incoming        *)
(* transactions, on the state tree of utils/proof-tree.ts.  The first      *)
(* check that fails ends the audit with an error, which the peg accepts    *)
(* (WitnessProofs) or not.                                                 *)
(*                                                                         *)
(* The witness is the one that the execution gave, or differs from it in   *)
(* one way: a field, the last record, or a record more or less.            *)
(***************************************************************************)
EXTENDS WitnessProofs

CONSTANT MaxChanged  \* bound on the records of a witness that is changed

VARIABLES
    plan,     \* the checks that are still to come
    audited,  \* the auditor's state tree
    index,    \* recordIndex, which counts from one here
    error     \* the error that ended the audit

audit == <<plan, audited, index, error>>

NoError == [type |-> "none"]
Unsent == [type |-> "unsent"]  \* thrown, but nothing reaches the peg

Honest == [witness |-> witness, root |-> state]
Audited == claim # NoClaim /\ plan = <<>>
Rejected == error \notin {NoError, Unsent} /\ ~Proves(error)

AuditInit ==
    /\ Init
    /\ claim = NoClaim
    /\ plan = <<>>
    /\ audited = setup.before
    /\ index = 1
    /\ error = NoError

-----------------------------------------------------------------------------
(* Witnesses that differ from the one given.                               *)

ChangedRecords(r) ==
    {[r EXCEPT !.value = IF r.op = "COINBASE" THEN Relay
                         ELSE IF r.op \in {"EXTCODESIZE", "EXTCODEHASH", "HEADER", "BLOCKHASH"}
                         THEN "changed" ELSE IF r.op = "EXTCODECOPY" THEN ~r.value
                         ELSE r.value + 1]}
    \union (IF r.op \in ChangesState
            THEN {[r EXCEPT !.root = Wrong], [r EXCEPT !.success = ~r.success],
                  [r EXCEPT !.refund = @ + 1]} ELSE {})
    \union (IF r.op = "STATICCALL" THEN {[r EXCEPT !.success = ~r.success]} ELSE {})
Forged == {Record(op, Zero, 0) : op \in {"LOG", "BLOCKHASH", "DELEGATECALL", "STATICCALL"}}

ChangedWitnesses ==
    LET h == witness
    IN IF Len(h.list) > MaxChanged THEN {} ELSE
       {[h EXCEPT !.stateRootEnter = Wrong], [h EXCEPT !.stateRootLeave = Wrong],
        [h EXCEPT !.stateRootLeave = before], [h EXCEPT !.isStatic = TRUE],
        [h EXCEPT !.origin = tx.from], [h EXCEPT !.caller = Zero], [h EXCEPT !.to = Zero],
        [h EXCEPT !.callvalue = @ + 1], [h EXCEPT !.gasPrice = @ + 1],
        [h EXCEPT !.gasAvailable = @ - 1], [h EXCEPT !.gasUsed = @ + 1],
        [h EXCEPT !.gasUsed = h.gasAvailable + 1], [h EXCEPT !.refund = @ + 1],
        [h EXCEPT !.calldata = "changed"]}
       \union {[h EXCEPT !.context = c] : c \in Contracts}
       \union {[h EXCEPT !.status = s] : s \in {"success", "exception"}}
       \union {[h EXCEPT !.list = Append(@, r)] : r \in Forged}
       \union (IF h.list = <<>> THEN {}
               ELSE {[h EXCEPT !.list = Front(@)]} \union
                    {[h EXCEPT !.list[Len(h.list)] = r] : r \in ChangedRecords(Last(h.list))})

(* The root in the block is that of the execution, or what follows from    *)
(* the witness.                                                            *)
ClaimedRoots(v) ==
    {state, Wrong} \union
    (IF v.stateRootLeave = Wrong \/ v.status # "success" THEN {}
     ELSE {IF tx.incoming THEN v.stateRootLeave ELSE SuccessRoot(v, v.stateRootLeave)})

(* The order of checkAll in the two auditors.                              *)
SignedPlan(v) ==
    <<"input data", "gas limit", "refund">>
    \o (IF v.status = "success" THEN <<>> ELSE <<"failure root">>)
    \o <<"input root">>
    \o (IF v.to = Relay THEN <<"exit call">> ELSE <<"access list", "output root">>)
    \o (IF v.status = "success" THEN <<"success root">> ELSE <<>>)
IncomingPlan(v) ==
    <<"input data", "gas limit", "input root", "access list", "output root", "refund">>
    \o (IF v.status = "success" THEN <<"success root">> ELSE <<>>)

(* The auditor executes the transaction itself, inside a checkpoint, and   *)
(* reverts the last one: its own, or the one that runTx opened upon it,    *)
(* which has the same state, unless the messages left more of them open.   *)
Reverted == IF saved = <<>> THEN before ELSE Last(saved)

auditWitness ==
    /\ pc = "done" /\ claim = NoClaim
    /\ \E v \in {witness} \union ChangedWitnesses : \E root \in ClaimedRoots(v) :
          claim' = [witness |-> v, root |-> root]
    /\ plan' = IF tx.incoming THEN IncomingPlan(w') ELSE SignedPlan(w')
    /\ audited' = Reverted /\ index' = 1 /\ error' = NoError
    /\ UNCHANGED execution

-----------------------------------------------------------------------------
Checks(check) == plan # <<>> /\ Head(plan) = check

Error(type, account, receiver) ==
    [type |-> type, index |-> index, account |-> account, receiver |-> receiver,
     owner |-> w.context, storage |-> NothingStored, exits |-> <<>>]
WitnessError(type) == Error(type, audited, audited)

Fail(e) == error' = e /\ plan' = <<>> /\ UNCHANGED <<audited, index>>
Pass(s) == plan' = Tail(plan) /\ audited' = s /\ UNCHANGED <<index, error>>
Check(name, bad, e) ==
    /\ Checks(name)
    /\ IF bad THEN Fail(e) ELSE Pass(audited)
    /\ UNCHANGED <<execution, claim>>

\* The base fee is not taken from the gas of the message.
WitnessInputDataOfTx ==
    Check("input data",
        \/ w.caller # tx.from \/ w.origin # tx.from
        \/ w.to # tx.to \/ w.context # tx.to
        \/ w.gasAvailable # tx.gas \/ w.callvalue # tx.value
        \/ w.gasPrice # (IF tx.incoming THEN 0 ELSE tx.price),
        WitnessError("WITNESS_CONTEXT"))

(* Neither isStatic nor the call data is compared.                         *)
checkWitnessInputData ==
    Check("input data",
        \/ w.caller # tx.from \/ w.origin # tx.from
        \/ w.to # tx.to \/ w.context # tx.to
        \/ w.gasAvailable # Available \/ w.callvalue # tx.value
        \/ w.gasPrice # (IF tx.incoming THEN 0 ELSE tx.price),
        WitnessError("WITNESS_CONTEXT"))

\* The gas used is compared with the transaction's limit.
GasLimitOfTx ==
    Check("gas limit", w.gasUsed > tx.gas, WitnessError("WITNESS_GAS_EXCEEDED"))

checkGasLimit ==
    Check("gas limit", w.gasUsed > w.gasAvailable, WitnessError("WITNESS_GAS_EXCEEDED"))

checkRefund == Check("refund", w.refund # SstoreRefunds, WitnessError("WITNESS_REFUND"))

checkTransactionRootFailure ==
    Check("failure root", claim.root # FailureRootFrom(audited),
          WitnessError("SIGNED_TX_STATE_ROOT_FAILURE"))

(* The incoming auditor leaves out what the call of the peg needs.         *)
checkInputRoot ==
    /\ Checks("input root")
    /\ IF w.stateRootEnter # EntryRootFrom(audited)
       THEN Fail(IF tx.incoming THEN Unsent ELSE WitnessError("INPUT_STATE_ROOT"))
       ELSE Pass(EntryRootFrom(audited))
    /\ UNCHANGED <<execution, claim>>

(* An output root error is not known to encodeErrorProofInput; without a   *)
(* root in the list there is nothing to compare, which throws.             *)
checkOutputRoot ==
    Check("output root",
        \/ w.stateRootLeave # getLastState(Len(w.list) + 1)
        \/ /\ w.list # <<>>
           /\ \A i \in DOMAIN w.list : w.list[i].op \notin ChangesState,
        Unsent)

checkTransactionRootSuccess ==
    Check("success root",
        claim.root # (IF tx.incoming THEN w.stateRootLeave ELSE SuccessRoot(w, audited)),
        WitnessError(IF tx.incoming THEN "INCOMING_TX_STATE_ROOT_SUCCESS"
                     ELSE "SIGNED_TX_STATE_ROOT_SUCCESS"))

decodes(data, gas) == data = "exit" /\ gas >= ExitFee

(* The exits of the block are read under another key than they are written *)
(* with, and are found empty.                                              *)
exitCallCheck ==
    LET inserted == updateExitsRoot(audited, <<>>, w.caller, w.callvalue, w.gasAvailable)
    IN /\ Checks("exit call")
       /\ IF w.gasAvailable # w.gasUsed \/ w.refund # 0
          THEN Fail(WitnessError("EXIT_CALL_WITNESS_GAS"))
          ELSE IF ~decodes(w.calldata, w.gasAvailable)
          THEN IF w.status = "success" THEN Fail(WitnessError("EXIT_WITNESS_ENCODING"))
               ELSE Pass(audited)
          ELSE IF inserted # w.stateRootLeave
          THEN Fail(WitnessError("EXIT_CALL_WITNESS_EXIT_ROOT"))
          ELSE IF w.status # "success" THEN Fail(WitnessError("EXIT_WITNESS_ENCODING"))
          ELSE Pass(inserted)
       /\ UNCHANGED <<execution, claim>>

-----------------------------------------------------------------------------
(* checkAccessList.                                                        *)
record == w.list[index]
Balance(a) == audited.balance[a]

NextRecord(s) == index' = index + 1 /\ audited' = s /\ UNCHANGED <<plan, error>>
CheckRecord(ops) ==
    /\ Checks("access list")
    /\ index <= Len(w.list) /\ record.op \in ops
    /\ UNCHANGED <<execution, claim>>

(* A balance of zero is stored as no bytes, and given as one.              *)
checkBalance ==
    LET b == Balance(IF record.op = "BALANCE" THEN record.key ELSE w.context)
    IN record.value # b \/ b = 0
checkExtCode ==
    record.value # IF record.op = "EXTCODECOPY" THEN record.key \in Contracts
                   ELSE IF record.key \in Contracts THEN "code" ELSE "empty"
checkHeader == record.value # IF record.op = "COINBASE" THEN setup.coinbase ELSE "header"
(* Whatever is stored is not found.                                        *)
checkSload == record.value # 0

Deviates ==
    CASE record.op \in {"BALANCE", "SELFBALANCE"} -> checkBalance
      [] record.op \in {"EXTCODESIZE", "EXTCODEHASH", "EXTCODECOPY"} -> checkExtCode
      [] record.op \in {"COINBASE", "HEADER"} -> checkHeader
      [] record.op = "SLOAD" -> checkSload

checkObserved ==
    /\ CheckRecord(Observers \ {"BLOCKHASH"})
    /\ IF Deviates THEN Fail(Error(record.op, audited, audited)) ELSE NextRecord(audited)

skipRecord == CheckRecord({"LOG", "BLOCKHASH", "DELEGATECALL"}) /\ NextRecord(audited)

(* The slot is written into an empty tree, as its shortest bytes: for zero *)
(* that is one byte.                                                       *)
checkSstore ==
    LET s == Put([audited EXCEPT !.storage[w.context] =
                     [NothingStored EXCEPT ![record.key] = Short(record.value)]], w.context)
    IN /\ CheckRecord({"SSTORE"})
       /\ IF s # record.root \/ record.refund # ExpectedRefund(record.value, 0)
          THEN Fail(Error("SSTORE", audited, audited)) ELSE NextRecord(s)

(* The caller is taken for a contract instead of the receiver.             *)
checkCall ==
    LET paid == Debit(audited, w.context, record.value)
        unchanged == NothingHappened(record, audited)
        moved == Credit(paid, record.key, record.value)
        e(type) == Error(type, audited, paid)
    IN /\ CheckRecord({"CALL"})
       /\ IF Balance(w.context) < record.value
          THEN IF unchanged THEN NextRecord(audited) ELSE Fail(e("CALL"))
          ELSE IF record.key = Relay
          THEN IF index > Len(witness.list) THEN Fail(Unsent)
               ELSE IF ~decodes(record.data, record.gas)
               THEN IF unchanged THEN NextRecord(audited) ELSE Fail(e("EXIT_CALL_ENCODING"))
               ELSE IF record.success /\ record.root = audited
               THEN NextRecord(updateExitsRoot(paid, <<>>, w.context, record.value, record.gas))
               ELSE Fail(e("EXIT_CALL"))
          ELSE IF w.context \in Contracts
          THEN IF unchanged THEN NextRecord(paid) ELSE Fail(e("CALL"))
          ELSE IF record.success /\ record.root = moved
          THEN NextRecord(moved) ELSE Fail(e("CALL"))

(* No precompile is the target of a static call in a witness.              *)
checkStaticCall ==
    /\ CheckRecord({"STATICCALL"})
    /\ Fail(IF index <= Len(witness.list) THEN Error("STATICCALL", audited, audited) ELSE Unsent)

endOfList ==
    /\ Checks("access list")
    /\ index > Len(w.list)
    /\ Pass(audited)
    /\ UNCHANGED <<execution, claim>>

-----------------------------------------------------------------------------
Audit ==
    \/ auditWitness
    \/ checkWitnessInputData \/ checkGasLimit \/ checkRefund \/ checkTransactionRootFailure
    \/ checkInputRoot \/ checkOutputRoot \/ checkTransactionRootSuccess \/ exitCallCheck
    \/ checkObserved \/ skipRecord \/ checkSstore \/ checkCall \/ checkStaticCall \/ endOfList

Next == (Execute /\ UNCHANGED <<claim, audit>>) \/ Audit

Spec == AuditInit /\ [][Next]_<<execution, claim, audit>>

-----------------------------------------------------------------------------
(* The debit that checkCall makes for a call that fails.                   *)
DebitKept(i) ==
    \E j \in 1..(i - 1) : w.list[j].op = "CALL" /\ ~w.list[j].success
                          /\ w.list[j].key # Relay /\ w.list[j].value # 0

(* What the auditor reports of a witness in which nothing is wrong, where  *)
(* its tree is in step with the witness.                                   *)
JudgedOtherwise ==
    LET r == record
    IN CASE error = Unsent ->
               \/ tx.incoming /\ (tx.value = 0 \/ tx.to = Relay)
               \/ w.list # <<>> /\ \A i \in DOMAIN w.list : w.list[i].op \notin ChangesState
         [] error.type = "WITNESS_CONTEXT" -> tx.incoming /\ tx.from # Zero
         [] error.type \in {"INPUT_STATE_ROOT", "WITNESS_REFUND", "SIGNED_TX_STATE_ROOT_FAILURE"} ->
               WitnessMisjudged(error.type)
         [] error.type = "SIGNED_TX_STATE_ROOT_SUCCESS" -> DebitKept(Len(w.list) + 1)
         [] error.type = "EXIT_CALL_WITNESS_EXIT_ROOT" -> before.exits # <<>>
         [] error.type = "COINBASE" -> RecordMisjudged(error.type, index)
         [] error.type = "EXTCODEHASH" -> DebitKept(index) \/ RecordMisjudged(error.type, index)
         [] error.type = "EXTCODESIZE" -> DebitKept(index)
         [] error.type = "EXTCODECOPY" -> DebitKept(index) \/ r.key \notin Contracts
         [] error.type \in {"BALANCE", "SELFBALANCE"} ->
               r.value = 0 \/ DebitKept(index) \/ RecordMisjudged(error.type, index)
         [] error.type = "SLOAD" -> r.value # 0
         [] error.type = "SSTORE" ->
               \/ r.value = 0 \/ DebitKept(index)
               \/ \E k \in Slots \ {r.key} :
                      StorageOf(getLastState(index), w.context)[k] # NoLeaf
         [] error.type = "CALL" -> r.success \/ DebitKept(index) \/ LeavesCheckpoint
         [] error.type = "EXIT_CALL" -> r.success \/ DebitKept(index)
         [] error.type = "EXIT_CALL_ENCODING" -> DebitKept(index)
         [] error.type = "STATICCALL" -> TRUE
         [] OTHER -> FALSE

(* Its tree is not in step where its revert missed the state before the    *)
(* transaction.                                                            *)
RevertMissed == Reverted # before
TreeErrors(type) == type \notin {"WITNESS_CONTEXT", "WITNESS_GAS_EXCEEDED", "WITNESS_REFUND"}
Misreported == JudgedOtherwise \/ (RevertMissed /\ TreeErrors(error.type))

(* Why the peg rejects an error.  The account in a CALL error is that of   *)
(* the contract, where the peg expects the sender of the transaction; the  *)
(* trees of a contract's storage and of exits are empty.                   *)
Unconvincing ==
    CASE error.type = "CALL" -> w.context # w.caller
      [] error.type = "SSTORE" ->
            DebitKept(index) \/ StorageOf(getLastState(index), w.context) # NothingStored
      [] error.type = "EXIT_CALL" -> before.exits # <<>>
      [] error.type = "EXIT_CALL_WITNESS_EXIT_ROOT" -> before.exits # <<>>
      [] error.type = "EXIT_CALL_ENCODING" -> record.data = "lax"
      [] error.type = "EXIT_WITNESS_ENCODING" -> w.calldata = "lax"
      [] OTHER -> FALSE

(* Nobody can prove an error in the witness that the VM itself gave, over  *)
(* the root that the VM itself reached, other than those that follow from  *)
(* a known disagreement of VM and provers (WitnessMisjudged and            *)
(* RecordMisjudged).                                                       *)
HonestStands == claim # NoClaim /\ claim = Honest => Stands

(* What the auditor passes is safe from every proof too: where nothing was *)
(* found, no other error can be proved, whatever was claimed.  Only an     *)
(* incoming message to the child relay would escape, since the auditor of  *)
(* incoming transactions checks no exit; ParentRelay.sol:121 queues none.  *)
PassedStands ==
    Audited /\ error = NoError /\ ~(tx.incoming /\ tx.to = Relay) => Stands

(* The auditor reports an honest witness only where it judges otherwise    *)
(* than the VM (the child relay, zeroes, storage, and calls) or where its  *)
(* revert missed the state before the transaction, and the peg rejects     *)
(* what it reports only then or where the proofs that it sends are made    *)
(* from the wrong account, storage or exits.                               *)
ReportedAndRejectedOnlyIf ==
    Audited =>
        /\ claim = Honest /\ error # NoError => Misreported
        /\ Rejected => Misreported \/ Unconvincing
=============================================================================

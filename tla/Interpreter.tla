----------------------------- MODULE Interpreter -----------------------------
(***************************************************************************)
(* One transaction in the VM with the option produceWitness: runTx.ts, the *)
(* messages of evm/evm.ts, precompiles/exit-contract.ts and eei.ts, and    *)
(* the instructions of opFns.ts that leave a record in the witness of      *)
(* their message (packages/vm/lib/witness).                                *)
(*                                                                         *)
(* What the code of a contract does is free: at every step its frame       *)
(* executes any instruction of its code.  Instructions without a record    *)
(* are left out, and so are returned bytes.  A state stands for its root.  *)
(* A leaf of a storage tree is none, the shortest bytes of a value, or its *)
(* word; for a value from Wide on these are the same.  The data of a call  *)
(* to the child relay is an exit, an exit followed by more bytes (lax) or  *)
(* something else.                                                         *)
(*                                                                         *)
(* A definition under a comment line that begins with \* is a mistaken     *)
(* form of the one after it, which no specification uses: it shows which   *)
(* property notices which mistake.                                         *)
(***************************************************************************)
EXTENDS Integers, SequencesExt, FiniteSets

CONSTANTS
    Addresses,
    Zero,         \* the zero address
    Ones,         \* 0x1111..., which stands in for a coinbase that is zero
    Relay,        \* the child relay
    Precompile,
    Contracts,    \* the addresses with code
    Slots,        \* of storage
    Wide,         \* values from here on fill a word
    NoRoot,       \* the field of a record that has no root
    BaseGas, OpGas, StoreGas, ClearRefund,
    ExitFee,      \* gas that an exit must bring
    MaxRecords,   \* bound on the records of a message, by its depth
    Setups        \* where the execution may begin

ASSUME AddressAssumption ==
    /\ {Zero, Ones, Relay, Precompile} \union Contracts \subseteq Addresses
    /\ {Zero, Ones, Relay, Precompile} \cap Contracts = {}
ASSUME GasAssumption == {BaseGas, OpGas, StoreGas, ClearRefund, ExitFee, Wide} \subseteq Nat
ASSUME BoundAssumption == MaxRecords \in Seq(Nat)

Leaves == [value : Int, form : {"none", "short", "word"}]
OutgoingTransactions == [from : Addresses, value : Int, gas : Int]
States ==
    [balance : [Addresses -> Int], nonce : [Addresses -> Int], stored : SUBSET Addresses,
     storage : [Contracts -> [Slots -> Leaves]], exits : Seq(OutgoingTransactions)]

Transactions ==
    [incoming : BOOLEAN, from : Addresses, to : Addresses, gas : Nat, price : Nat, value : Nat,
     data : {"exit", "lax", "other"}]
Instruction(ops, keys) ==
    [op : ops, key : keys, value : Nat, gas : Nat, data : {"exit", "lax", "other"}]
Instructions ==
    Instruction({"SLOAD", "SSTORE"}, Slots) \union
    Instruction({"BALANCE", "SELFBALANCE", "EXTCODEHASH", "EXTCODESIZE", "EXTCODECOPY",
                 "COINBASE", "HEADER", "BLOCKHASH", "LOG", "CALL", "STATICCALL"}, Addresses)

getBaseFee(t) == IF t.incoming THEN 0 ELSE BaseGas
getUpfrontCost(t) == IF t.incoming THEN 0 ELSE t.gas * t.price + t.value

(* runTx throws unless the gas covers the base fee and the sender of a     *)
(* signed transaction can pay for all of it.  The gas of an incoming       *)
(* transaction has no price.                                               *)
ASSUME SetupAssumption ==
    \A s \in Setups :
        /\ s \in [before : States, tx : Transactions, coinbase : Addresses,
                  known : SUBSET Contracts, code : SUBSET Instructions,
                  archived : SUBSET Contracts]
        /\ s.tx.gas >= getBaseFee(s.tx)
        /\ s.before.balance[s.tx.from] >= getUpfrontCost(s.tx)
        /\ s.tx.incoming => s.tx.price = 0

VARIABLES
    setup,    \* the state before the transaction, the transaction, the coinbase,
              \* the storage that is cached then, the code, and what is archived
    pc,       \* tx, message, paid or done
    state,    \* the root of the account tree
    saved,    \* the states at the open checkpoints
    relay,    \* the exits that the cached child relay counts
    known,    \* the contracts whose storage trie is cached
    frames,   \* the messages to contracts that are being executed
    spent,    \* gas and refund of the message of the transaction
    witness   \* the first witness of the transaction

execution == <<setup, pc, state, saved, relay, known, frames, spent, witness>>

tx == setup.tx
before == setup.before

-----------------------------------------------------------------------------
NoLeaf == [value |-> 0, form |-> "none"]
NothingStored == [slot \in Slots |-> NoLeaf]
Word(v) == [value |-> v, form |-> "word"]
Short(v) == IF v >= Wide THEN Word(v) ELSE [value |-> v, form |-> "short"]

(* putAccount keeps a leaf for an account, though it be empty.             *)
Put(s, a) == [s EXCEPT !.stored = @ \union {a}]
Credit(s, a, v) == Put([s EXCEPT !.balance[a] = @ + v], a)
Debit(s, a, v) == Put([s EXCEPT !.balance[a] = @ - v], a)
addToBalance(s, a, v) == IF v = 0 THEN s ELSE Credit(s, a, v)
accountIsEmpty(s, a) == s.balance[a] = 0 /\ s.nonce[a] = 0 /\ a \notin Contracts
Lesser(m, n) == IF m < n THEN m ELSE n

origin == IF tx.incoming THEN Zero ELSE tx.from

(* gasLimit of the message.                                                *)
Available == tx.gas - getBaseFee(tx)

MessageWitness(enter, leave, used, refund, list, status) ==
    [stateRootEnter |-> enter, stateRootLeave |-> leave, isStatic |-> FALSE,
     origin |-> origin, caller |-> tx.from, to |-> tx.to, context |-> tx.to,
     callvalue |-> tx.value, gasPrice |-> tx.price, gasAvailable |-> Available,
     gasUsed |-> used, refund |-> refund, list |-> list, status |-> status,
     calldata |-> tx.data]
NoWitness == <<>>

Init ==
    /\ setup \in Setups
    /\ pc = "tx"
    /\ state = setup.before
    /\ saved = <<setup.before>>
    /\ relay = setup.before.exits
    /\ known = setup.known
    /\ frames = <<>>
    /\ spent = [gas |-> 0, refund |-> 0]
    /\ witness = NoWitness

-----------------------------------------------------------------------------
outgoingTransactionFromCallInputs(caller, value, gas) ==
    [from |-> caller, value |-> value, gas |-> gas - ExitFee]

(* A message to the child relay.  The sender is debited before the root is *)
(* taken on entering, and has its value back when the exit fails.          *)
Exit(s, caller, value, gas, isStatic, data) ==
    LET debited == Debit(s, caller, value)
        exits == Append(relay, outgoingTransactionFromCallInputs(caller, value, gas))
    IN IF isStatic \/ s.balance[caller] < value
       THEN [state |-> s, enter |-> s, relay |-> relay, status |-> "exception"]
       ELSE IF data # "exit" \/ gas < ExitFee
       THEN [state |-> s, enter |-> debited, relay |-> relay, status |-> "exception"]
       ELSE [state |-> [debited EXCEPT !.exits = exits], enter |-> debited,
             relay |-> exits, status |-> "success"]

(* Every revert forgets the storage tries.                                 *)
Cached(status) == IF status = "success" THEN known ELSE {}

(* What runTx charges before the message.                                  *)
Charged ==
    IF tx.incoming THEN before
    ELSE [Debit(before, tx.from, tx.gas * tx.price) EXCEPT !.nonce[tx.from] = @ + 1]

(* Of an incoming message the sender pays nothing.                         *)
Entered ==
    addToBalance(IF tx.incoming THEN Charged ELSE Debit(Charged, tx.from, tx.value),
                 tx.to, tx.value)

executeExitCall ==
    /\ pc = "tx" /\ tx.to = Relay
    /\ LET e == Exit(Charged, tx.from, tx.value, Available, FALSE, tx.data)
       IN /\ state' = e.state
          /\ relay' = e.relay
          /\ known' = Cached(e.status)
          /\ witness' = MessageWitness(e.enter, e.state, Available, 0, <<>>, e.status)
    /\ spent' = [gas |-> Available, refund |-> 0]
    /\ pc' = "paid"
    /\ UNCHANGED <<setup, saved, frames>>

(* A message to an account without code.                                   *)
executeTransfer ==
    /\ pc = "tx" /\ tx.to \notin Contracts \union {Relay, Precompile}
    /\ state' = Entered
    /\ witness' = MessageWitness(Entered, Entered, 0, 0, <<>>, "success")
    /\ pc' = "paid"
    /\ UNCHANGED <<setup, saved, relay, known, frames, spent>>

(* A frame, with a copy of the balance of its contract (env.contract); the *)
(* records that share the object of its refund; the gas of its last call;  *)
(* and the instruction of the caller that it executes.                     *)
Frame(self, limit, isStatic, s, call) ==
    [self |-> self, limit |-> limit, left |-> limit, isStatic |-> isStatic,
     cached |-> s.balance[self], list |-> <<>>, refund |-> 0, shared |-> {},
     lastCallGasUsed |-> 0, call |-> call]

executeCall ==
    /\ pc = "tx" /\ tx.to \in Contracts
    /\ pc' = "message"
    /\ saved' = Append(saved, Charged)
    /\ state' = Entered
    /\ frames' = <<Frame(tx.to, Available, FALSE, Entered, [op |-> "none"])>>
    /\ UNCHANGED <<setup, relay, known, spent, witness>>

-----------------------------------------------------------------------------
Top == Last(frames)
Record(op, key, value) ==
    [op |-> op, key |-> key, value |-> value, root |-> NoRoot, gas |-> 0,
     used |-> 0, refund |-> 0, success |-> FALSE, data |-> "none"]

Continue(f) == frames' = [frames EXCEPT ![Len(frames)] = f]

(* A call of f that is over, with its record.  The refund in the record is *)
(* the object of the frame, which SSTORE changes in place.                 *)
Called(f, s, success) ==
    [f EXCEPT
        !.list = Append(@, [Record("CALL", f.call.to, f.call.value)
            EXCEPT !.root = s, !.gas = f.call.gas, !.used = f.lastCallGasUsed,
                   !.refund = f.refund, !.success = success, !.data = f.call.data]),
        !.shared = @ \union {Len(f.list) + 1}]

\* The copy of the balance is not renewed.
KeepCached(f, s, used, refund, success) ==
    [f EXCEPT !.left = @ - used, !.lastCallGasUsed = used,
              !.refund = @ + refund, !.shared = {}]

(* What the caller takes over from a message that it sent.                 *)
baseCall(f, s, used, refund, success) ==
    [f EXCEPT !.left = @ - used, !.lastCallGasUsed = used,
              !.refund = @ + refund, !.shared = {},
              !.cached = IF success THEN s.balance[f.self] ELSE @]

(* The innermost message ends.  The root on leaving is taken before the    *)
(* message is reverted.                                                    *)
EndWith(status, checkpoints) ==
    LET f == Top
        used == IF status = "exception" THEN f.limit ELSE f.limit - f.left
        refund == IF status = "success" THEN f.refund ELSE 0
        s == IF status = "success" THEN state ELSE Last(checkpoints)
        outer == Front(frames)
    IN /\ state' = s
       /\ saved' = Front(checkpoints)
       /\ known' = Cached(status)
       /\ IF outer = <<>>
          THEN /\ frames' = <<>>
               /\ witness' = MessageWitness(Entered, state, used, refund, f.list, status)
               /\ spent' = [gas |-> used, refund |-> refund]
               /\ pc' = "paid"
          ELSE /\ frames' = [outer EXCEPT ![Len(outer)] =
                      Called(baseCall(@, s, used, refund, status = "success"),
                             s, status = "success")]
               /\ UNCHANGED <<witness, spent, pc>>
       /\ UNCHANGED <<setup, relay>>
End(status) == EndWith(status, saved)

(* An instruction of the innermost message.  It may do what follows if the *)
(* gas is enough.                                                          *)
Executes(ins) ==
    /\ pc = "message"
    /\ Len(frames) <= Len(MaxRecords) /\ Len(Top.list) < MaxRecords[Len(frames)]
    /\ Top.left >= OpGas

OutOfGas == pc = "message" /\ Top.left < OpGas /\ End("exception")
Finish(status) == pc = "message" /\ End(status)

-----------------------------------------------------------------------------
getBlockCoinbase == IF setup.coinbase = Zero THEN Ones ELSE setup.coinbase

(* The trie of a contract is opened anew unless it is cached, in a bucket  *)
(* of the database that has none of its nodes.                             *)
Readable(a) == IF a \in known THEN state.storage[a] ELSE NothingStored

(* The value that an instruction without effect records, and pushes.       *)
Observed(f, op, key) ==
    CASE op = "BALANCE" -> IF key = f.self THEN f.cached ELSE state.balance[key]
      [] op = "SELFBALANCE" -> f.cached
      [] op = "SLOAD" -> Readable(f.self)[key].value
      [] op = "EXTCODESIZE" -> IF key \in Contracts THEN "code" ELSE "empty"
      [] op = "EXTCODEHASH" -> IF accountIsEmpty(state, key) THEN "zero"
                               ELSE IF key \in Contracts THEN "code" ELSE "empty"
      [] op = "EXTCODECOPY" -> ~accountIsEmpty(state, key)
      [] op = "COINBASE" -> getBlockCoinbase
      [] OTHER -> "header"
GlobalStateRecords == {"BALANCE", "SELFBALANCE", "EXTCODEHASH", "EXTCODESIZE", "EXTCODECOPY"}
HeaderRecords == {"COINBASE", "HEADER"}
Observers == GlobalStateRecords \union HeaderRecords \union {"SLOAD", "BLOCKHASH"}

Observe(ins) ==
    /\ Executes(ins)
    /\ ins.op \in Observers
    /\ Continue([Top EXCEPT !.left = @ - OpGas,
           !.list = Append(@, Record(ins.op, ins.key, Observed(Top, ins.op, ins.key)))])
    /\ UNCHANGED <<setup, pc, state, saved, relay, known, spent, witness>>

Log(ins) ==
    /\ Executes(ins)
    /\ ins.op = "LOG"
    /\ IF Top.isStatic THEN End("exception")
       ELSE /\ Continue([Top EXCEPT !.left = @ - OpGas, !.list = Append(@, Record("LOG", Zero, 0))])
            /\ UNCHANGED <<setup, pc, state, saved, relay, known, spent, witness>>

(* The refund looks at the length of a pair of values, which has none.     *)
updateSstoreGas(v) == IF v = 0 THEN ClearRefund ELSE 0

Sstore(ins) ==
    LET f == Top
        refund == f.refund + updateSstoreGas(ins.value)
        leaf == IF ins.value = 0 THEN NoLeaf ELSE Short(ins.value)
    IN /\ Executes(ins)
       /\ ins.op = "SSTORE"
       /\ IF f.isStatic \/ f.left < OpGas + StoreGas THEN End("exception")
          ELSE /\ state' = Put([state EXCEPT !.storage[f.self] =
                      [Readable(f.self) EXCEPT ![ins.key] = leaf]], f.self)
               /\ known' = known \union {f.self}
               /\ Continue([f EXCEPT
                      !.left = @ - OpGas - StoreGas, !.refund = refund,
                      !.cached = state'.balance[f.self],
                      !.list = Append(
                          [i \in DOMAIN @ |-> IF i \in f.shared
                              THEN [@[i] EXCEPT !.refund = refund] ELSE @[i]],
                          [Record("SSTORE", ins.key, ins.value)
                              EXCEPT !.root = state', !.refund = updateSstoreGas(ins.value)])])
               /\ UNCHANGED <<setup, pc, saved, relay, spent, witness>>

-----------------------------------------------------------------------------
maxCallGas(wanted, left) == Lesser(wanted, left - left \div 64)
isPermittedCallTarget(a) == a \in Contracts \union {Relay}

Call(ins) ==
    LET paid == [Top EXCEPT !.left = @ - OpGas]
        f == [paid EXCEPT !.call = [op |-> "CALL", to |-> ins.key, value |-> ins.value,
                  gas |-> maxCallGas(ins.gas, paid.left), data |-> ins.data]]
        e == Exit(state, f.self, ins.value, f.call.gas, f.isStatic, ins.data)
        moved == addToBalance(Debit(state, f.self, ins.value), ins.key, ins.value)
    IN /\ Executes(ins)
       /\ ins.op = "CALL"
       /\ IF f.isStatic /\ ins.value # 0 THEN End("exception")
          ELSE IF ~isPermittedCallTarget(ins.key) \/ f.cached < ins.value
          THEN /\ Continue(Called(f, state, FALSE))
               /\ UNCHANGED <<setup, pc, state, saved, relay, known, spent, witness>>
          ELSE IF ins.key = Relay
          THEN /\ state' = e.state
               /\ relay' = e.relay
               /\ known' = Cached(e.status)
               /\ Continue(Called(baseCall(f, e.state, f.call.gas, 0, e.status = "success"),
                                  e.state, e.status = "success"))
               /\ UNCHANGED <<setup, pc, saved, spent, witness>>
          ELSE /\ Len(frames) < Len(MaxRecords)
               /\ saved' = Append(saved, state)
               /\ state' = moved
               /\ frames' = Append([frames EXCEPT ![Len(frames)] = f],
                                Frame(ins.key, f.call.gas, f.isStatic, moved, [op |-> "none"]))
               /\ UNCHANGED <<setup, pc, relay, known, spent, witness>>

(* Only precompiles may be called, and then the field of an undefined      *)
(* runState is read: the code of the caller ends in an exception, and the  *)
(* checkpoint of the call is left open.                                    *)
StaticCall(ins) ==
    /\ Executes(ins)
    /\ ins.op = "STATICCALL"
    /\ IF ins.key = Precompile THEN EndWith("exception", Append(saved, state))
       ELSE /\ Continue([Top EXCEPT !.left = @ - OpGas, !.list = Append(@,
                   [Record("STATICCALL", ins.key, 0) EXCEPT !.used = Top.lastCallGasUsed])])
            /\ UNCHANGED <<setup, pc, state, saved, relay, known, spent, witness>>

(* What runTx pays back, and pays the coinbase.                            *)
Payed ==
    LET used == spent.gas + getBaseFee(tx)
        paid == used - Lesser(spent.refund, used \div 2)
    IN IF tx.incoming THEN state
       ELSE Credit(Credit(state, tx.from, (tx.gas - paid) * tx.price),
                   setup.coinbase, paid * tx.price)

EndTx ==
    /\ pc = "paid"
    /\ state' = Payed
    /\ saved' = Front(saved)
    /\ pc' = "done"
    /\ UNCHANGED <<setup, relay, known, frames, spent, witness>>

Execute ==
    \/ executeExitCall \/ executeTransfer \/ executeCall
    \/ OutOfGas
    \/ \E status \in {"success", "revert", "exception"} : Finish(status)
    \/ \E ins \in setup.code :
          Observe(ins) \/ Log(ins) \/ Sstore(ins) \/ Call(ins) \/ StaticCall(ins)
    \/ EndTx

-----------------------------------------------------------------------------
(* The copy of its balance that the innermost contract reads is up to      *)
(* date, whatever the messages it sent sent on, unless one of them called  *)
(* a precompile.                                                           *)
SelfBalanceIsCurrent ==
    frames # <<>> /\ Len(saved) = Len(frames) + 1 =>
        Top.cached = state.balance[Top.self]
=============================================================================

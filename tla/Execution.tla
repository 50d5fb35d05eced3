------------------------------ MODULE Execution ------------------------------
(***************************************************************************)
(* What one transaction does to the state of the rollup chain:             *)
(* packages/vm/lib/runTx.ts, the message it sends (vm/lib/evm/evm.ts and   *)
(* precompiles/exit-contract.ts) and the costs of packages/tx.             *)
(*                                                                         *)
(* A state stands for its root hash: two states have the same root only if *)
(* they are equal.  Code is present or absent; the code of a contract      *)
(* keeps the value it is sent, uses CallGas and asks for CallRefund, or    *)
(* runs out of gas.  Amounts do not overflow.                              *)
(***************************************************************************)
EXTENDS Integers, Sequences

CONSTANTS
    Addresses,
    Zero,        \* the zero address: the receiver of a deployment
    Relay,       \* the child relay
    Coinbase,    \* header.coinbase
    BaseGas,     \* gas of every signed transaction, 21000
    DataGas,     \* gas of a word of its data
    CallGas,     \* gas that the code of a contract uses
    CallRefund   \* gas that it gives back

ASSUME AddressAssumption == {Zero, Relay, Coinbase} \subseteq Addresses
ASSUME GasAssumption == {BaseGas, DataGas, CallGas, CallRefund} \subseteq Nat

Exits == Seq([from : Addresses, value : Nat])
States ==
    [balance : [Addresses -> Nat], nonce : [Addresses -> Nat],
     code : [Addresses -> BOOLEAN], exits : Exits]
Transactions ==
    [incoming : BOOLEAN, from : Addresses, to : Addresses, nonce : Nat,
     gas : Nat, price : Nat, value : Nat, data : Nat]

-----------------------------------------------------------------------------
(* The costs of a transaction; an incoming one has none.                   *)
getBaseFee(t) == IF t.incoming THEN 0 ELSE BaseGas + DataGas * t.data
getUpfrontCost(t) == IF t.incoming THEN 0 ELSE t.gas * t.price + t.value

Credit(s, a, v) == [s EXCEPT !.balance[a] = @ + v]
Debit(s, a, v) == [s EXCEPT !.balance[a] = @ - v]

(* A message that ends in an exception leaves the state and takes the gas. *)
Exception(s, g) == [state |-> s, used |-> g, refund |-> 0]

(* An exit burns its value and uses all the gas, whoever asks for it.      *)
executeExitCall(s, t, g) ==
    IF s.balance[t.from] >= t.value /\ t.data > 0
    THEN [state |-> [Debit(s, t.from, t.value) EXCEPT !.exits =
                         Append(@, [from |-> t.from, value |-> t.value])],
          used |-> g, refund |-> 0]
    ELSE Exception(s, g)

(* The value of an incoming message is minted.                             *)
Moved(s, t) ==
    Credit(IF t.incoming THEN s ELSE Debit(s, t.from, t.value), t.to, t.value)

executeCall(s, t, g) ==
    IF ~s.code[t.to] THEN [state |-> Moved(s, t), used |-> 0, refund |-> 0]
    ELSE IF g >= CallGas
    THEN [state |-> Moved(s, t), used |-> CallGas, refund |-> CallRefund]
    ELSE Exception(s, g)

(* Only the parent chain creates contracts, once at an address, and sends  *)
(* no value with them (QueueAssumption).                                   *)
executeCreate(s, t, g) ==
    IF t.incoming /\ s.nonce[t.from] = 0 /\ ~s.code[t.from]
    THEN [state |-> [s EXCEPT !.code[t.from] = TRUE],
          used |-> 0, refund |-> 0]
    ELSE Exception(s, g)

executeMessage(s, t, g) ==
    IF t.to = Relay THEN executeExitCall(s, t, g)
    ELSE IF t.to # Zero THEN executeCall(s, t, g)
    ELSE executeCreate(s, t, g)

(* runTx throws, and its checkpoint is reverted, unless this holds.        *)
CanRun(s, t) ==
    /\ t.gas >= getBaseFee(t)
    /\ \/ t.incoming
       \/ s.balance[t.from] >= getUpfrontCost(t) /\ s.nonce[t.from] = t.nonce

Lesser(m, n) == IF m < n THEN m ELSE n

(* The whole gas is paid at the start and what is left comes back, up to   *)
(* half of what was used as a refund; the rest goes to the coinbase.       *)
runTx(s, t) ==
    LET charged == IF t.incoming THEN s
                   ELSE [Debit(s, t.from, t.gas * t.price)
                            EXCEPT !.nonce[t.from] = @ + 1]
        sent == executeMessage(charged, t, t.gas - getBaseFee(t))
        used == sent.used + getBaseFee(t)
        spent == used - Lesser(sent.refund, used \div 2)
    IN IF t.incoming THEN sent.state
       ELSE Credit(Credit(sent.state, t.from, (t.gas - spent) * t.price),
                   Coinbase, spent * t.price)
=============================================================================

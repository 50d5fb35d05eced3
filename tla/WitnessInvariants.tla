-------------------------- MODULE WitnessInvariants --------------------------
(***************************************************************************)
(* What is true of WitnessAudit at every step, for the proofs about it.    *)
(*                                                                         *)
(* TypeInv and HonestInv are about execution: what the records of the      *)
(* message of the transaction say of the states in between, and the        *)
(* witness of the whole.  ClaimedOf is what every witness says that may be *)
(* sent, changed or not.  AuditInv is about the auditor, between any two   *)
(* checks: what the checks before found, and where its tree stands; or     *)
(* else which check failed, and on what (Finds).                           *)
(***************************************************************************)
EXTENDS WitnessAudit

Calldata == {"exit", "lax", "other"}

RecordValues == Int \cup {"code", "empty", "zero", "header"} \cup BOOLEAN \cup Addresses

Records ==
  [op : Observers \cup {"LOG", "SSTORE", "CALL", "STATICCALL"}, key : Addresses \cup Slots,
   value : RecordValues, root : States \cup {NoRoot}, gas : Int, used : Int, refund : Int,
   success : BOOLEAN, data : Calldata \cup {"none"}]

Sending == [op : {"CALL"}, to : Addresses, value : Nat, gas : Int, data : Calldata]

CallsSent == [op : {"none"}] \cup Sending

NoCall == [op |-> "none"]

(* No message is static: those that would be end their caller.             *)
MessageFrames ==
  [self : Contracts, limit : Int, left : Int, isStatic : {FALSE}, cached : Int,
   list : Seq(Records), refund : Int, shared : SUBSET Nat, lastCallGasUsed : Int,
   call : CallsSent]

TypeInv ==
  /\ setup \in Setups
  /\ pc \in {"tx", "message", "paid", "done"}
  /\ state \in States
  /\ saved \in Seq(States)
  /\ relay \in Seq(OutgoingTransactions)
  /\ known \in SUBSET Contracts
  /\ frames \in Seq(MessageFrames)
  /\ \A k \in 1 .. Len(frames) - 1 : frames[k].call \in Sending
  /\ pc = "message" <=> frames # <<>>
  /\ pc # "done" => Len(saved) >= Len(frames) + 1
  /\ spent \in [gas : Int, refund : Int]

-----------------------------------------------------------------------------
\* The steps of execution, and what each leaves.

(* What an exit comes to.                                                  *)
Exited(e, s, caller, value, gas, data) ==
  /\ e.status = "success" <=> s.balance[caller] >= value /\ data = "exit" /\ gas >= ExitFee
  /\ e.status # "success" => e.state = s /\ e.relay = relay
  /\ e.status = "success" =>
       /\ e.enter = Debit(s, caller, value)
       /\ e.relay = Append(relay, outgoingTransactionFromCallInputs(caller, value, gas))
       /\ e.state = updateExitsRoot(Debit(s, caller, value), relay, caller, value, gas)
  /\ s.balance[caller] >= value => e.enter = Debit(s, caller, value)

(* How a message begins: with its gas and without records.                 *)
Begun(f, self, limit, s) ==
  /\ f \in MessageFrames /\ f.self = self /\ f.limit = limit /\ f.left = limit
  /\ f.cached = s.balance[self] /\ f.list = <<>> /\ f.refund = 0 /\ f.shared = {}
  /\ f.call = NoCall

(* The record of a call that is over.                                      *)
CallRecord(f, s, success) ==
  [op |-> "CALL", key |-> f.call.to, value |-> f.call.value, root |-> s, gas |-> f.call.gas,
   used |-> f.lastCallGasUsed, refund |-> f.refund, success |-> success, data |-> f.call.data]

(* The fields of a record that a call sets.                                *)
SetFields(k, v, s, g, u, n, b, d) ==
  [Record("CALL", k, v) EXCEPT !.root = s, !.gas = g, !.used = u, !.refund = n,
                               !.success = b, !.data = d]

(* What the caller takes over from a message that it sent.                 *)
TookOver(g, f, s, used, refund, success) ==
  /\ g \in MessageFrames
  /\ g.self = f.self /\ g.limit = f.limit /\ g.left = f.left - used
  /\ g.cached = IF success THEN s.balance[f.self] ELSE f.cached
  /\ g.list = f.list /\ g.refund = f.refund + refund /\ g.shared = {} /\ g.call = f.call

(* Gas and refund of the message that ends.                                *)
UsedGas(status) == IF status = "exception" THEN Top.limit ELSE Top.limit - Top.left

Refunds(status) == IF status = "success" THEN Top.refund ELSE 0

(* A frame after an instruction that only leaves a record.                 *)
Looked(g, r) ==
  /\ g \in MessageFrames /\ r \in Records
  /\ g.list = Append(Top.list, r) /\ g.left = Top.left - OpGas
  /\ g.self = Top.self /\ g.limit = Top.limit /\ g.cached = Top.cached
  /\ g.refund = Top.refund /\ g.shared = Top.shared /\ g.call = Top.call

(* What an SSTORE leaves.                                                  *)
NewLeaf(v) == IF v = 0 THEN NoLeaf ELSE Short(v)

NewStorage(ins) == [Readable(Top.self) EXCEPT ![ins.key] = NewLeaf(ins.value)]

NewRefund(ins) == Top.refund + updateSstoreGas(ins.value)

StoreRecord(ins, s) ==
  [op |-> "SSTORE", key |-> ins.key, value |-> ins.value, root |-> s, gas |-> 0, used |-> 0,
   refund |-> updateSstoreGas(ins.value), success |-> FALSE, data |-> "none"]

Shared(list, indices, refund) ==
  [i \in DOMAIN list |-> IF i \in indices THEN [list[i] EXCEPT !.refund = refund] ELSE list[i]]

(* The fields of a record that an SSTORE sets.                             *)
StoreFields(k, v, s, n) == [Record("SSTORE", k, v) EXCEPT !.root = s, !.refund = n]

(* The frame of a caller, once it has paid for the call.                   *)
Message(ins) ==
  [op |-> "CALL", to |-> ins.key, value |-> ins.value,
   gas |-> maxCallGas(ins.gas, Top.left - OpGas), data |-> ins.data]

Caller(ins) ==
  [[Top EXCEPT !.left = @ - OpGas] EXCEPT
      !.call = [op |-> "CALL", to |-> ins.key, value |-> ins.value,
                gas |-> maxCallGas(ins.gas, [Top EXCEPT !.left = @ - OpGas].left),
                data |-> ins.data]]

(* The checkpoints at which a message may end: one more than those that    *)
(* are open, if it called a precompile.                                    *)
Checkpoints(status, checkpoints) ==
  \/ checkpoints = saved
  \/ status = "exception" /\ checkpoints = Append(saved, state)

(* The instructions that only leave a record.                              *)
Seen(r) ==
  \/ \E ins \in setup.code : /\ ins.op \in Observers
                            /\ r = Record(ins.op, ins.key, Observed(Top, ins.op, ins.key))
  \/ r.op = "LOG"
  \/ r.op = "STATICCALL" /\ r.success = FALSE

LookStep ==
  \E r : LET g == [Top EXCEPT !.left = @ - OpGas, !.list = Append(@, r)] IN
     /\ Seen(r) /\ Looked(g, r) /\ Continue(g) /\ pc = "message" /\ Top.left >= OpGas
     /\ UNCHANGED <<setup, pc, state, saved, relay, known, spent, witness>>

EndStep ==
  /\ pc = "message"
  /\ \E status \in {"success", "revert", "exception"} : \E checkpoints :
        /\ Checkpoints(status, checkpoints) /\ EndWith(status, checkpoints)
        /\ checkpoints # saved => LeavesCheckpoint

(* The message of a call goes to its receiver with the gas of the call.    *)
Inner(ins) ==
  LET f == Caller(ins)
      moved == addToBalance(Debit(state, f.self, ins.value), ins.key, ins.value)
  IN Frame(ins.key, f.call.gas, FALSE, moved, NoCall)

Moved(ins) == addToBalance(Debit(state, Top.self, ins.value), ins.key, ins.value)

(* The steps of a call: it is refused, is an exit, or sends a message.     *)
RefusedStep(ins) ==
  /\ ~isPermittedCallTarget(ins.key) \/ Caller(ins).cached < ins.value
  /\ Continue(Called(Caller(ins), state, FALSE))
  /\ UNCHANGED <<setup, pc, state, saved, relay, known, spent, witness>>

ExitStep(ins) ==
  LET f == Caller(ins)
      e == Exit(state, f.self, ins.value, f.call.gas, FALSE, ins.data)
  IN /\ f.cached >= ins.value /\ ins.key = Relay
     /\ state' = e.state /\ relay' = e.relay /\ known' = Cached(e.status)
     /\ Continue(Called(baseCall(f, e.state, f.call.gas, 0, e.status = "success"),
                        e.state, e.status = "success"))
     /\ UNCHANGED <<setup, pc, saved, spent, witness>>

SendStep(ins) ==
  /\ Caller(ins).cached >= ins.value /\ ins.key \in Contracts
  /\ saved' = Append(saved, state) /\ state' = Moved(ins)
  /\ frames' = Append([frames EXCEPT ![Len(frames)] = Caller(ins)], Inner(ins))
  /\ UNCHANGED <<setup, pc, relay, known, spent, witness>>

(* What a call that is over leaves in the frame of its caller.             *)
CallOver(g, ins, s, used, refund, success) ==
  /\ g \in MessageFrames /\ g.self = Top.self /\ g.limit = Top.limit /\ g.call \in Sending
  /\ g.left = Caller(ins).left - used /\ g.refund = Top.refund + refund
  /\ g.cached = IF success THEN s.balance[Top.self] ELSE Top.cached
  /\ \E r \in Records :
       /\ g.list = Append(Top.list, r)
       /\ r.op = "CALL" /\ r.key = ins.key /\ r.value = ins.value /\ r.root = s
       /\ r.gas = Caller(ins).call.gas /\ r.success = success /\ r.data = ins.data

-----------------------------------------------------------------------------
\* What execution keeps true.

(* As long as no checkpoint was left open, each message has its own, and   *)
(* the copy of the balance of every contract that waits for a call agrees  *)
(* with the state that would be restored if the call failed.               *)
Current ==
  pc = "message" /\ Len(saved) = Len(frames) + 1 =>
    /\ Top.cached = state.balance[Top.self]
    /\ \A k \in 1 .. Len(frames) - 1 : frames[k].cached = saved[k + 2].balance[frames[k].self]

(* The records before the i-th one that have a root, the root before it,   *)
(* the messages to contracts among them, those that failed, and those that *)
(* failed and left another root than they found.                           *)
Changes(list, i) == {j \in DOMAIN list : j < i /\ list[j].op \in ChangesState}

RootBefore(list, i) ==
  IF Changes(list, i) = {} THEN Entered ELSE list[Max(Changes(list, i))].root

Messages(list, i) == {j \in 1 .. (i - 1) : list[j].op = "CALL" /\ list[j].key \in Contracts}

Failed(list, i) == {j \in Messages(list, i) : ~list[j].success}

Traces(list, i) == {j \in Failed(list, i) : list[j].root # RootBefore(list, j)}

(* A record is added to a list.  The refunds in the records of calls may   *)
(* change.                                                                 *)
Longer(list, more, r) ==
  /\ list \in Seq(Records) /\ more \in Seq(Records) /\ r \in Records
  /\ Len(more) = Len(list) + 1 /\ more[Len(list) + 1] = r
  /\ \A j \in 1 .. Len(list) :
       /\ more[j].op = list[j].op /\ more[j].key = list[j].key /\ more[j].value = list[j].value
       /\ more[j].root = list[j].root /\ more[j].gas = list[j].gas
       /\ more[j].success = list[j].success /\ more[j].data = list[j].data
       /\ list[j].op # "CALL" => more[j].refund = list[j].refund

(* What the record of an instruction says, if s is the state before it.    *)
(* Messages that were sent may have left copies of exits behind, and those *)
(* that failed and left a trace copies of balances.                        *)
GoodLook(r, s, failed) ==
  /\ r.op = "BALANCE" /\ ~(LeavesCheckpoint /\ failed # {}) => r.value = s.balance[r.key]
  /\ r.op = "SELFBALANCE" /\ ~(LeavesCheckpoint /\ failed # {}) => r.value = s.balance[tx.to]
  /\ r.op = "EXTCODESIZE" => r.value = IF r.key \in Contracts THEN "code" ELSE "empty"
  /\ r.op = "EXTCODEHASH" =>
       accountIsEmpty(s, r.key) \/ r.value = IF r.key \in Contracts THEN "code" ELSE "empty"
  /\ r.op = "EXTCODECOPY" => (r.key \in Contracts => r.value = TRUE)
  /\ r.op = "COINBASE" => setup.coinbase = Zero \/ r.value = setup.coinbase
  /\ r.op = "HEADER" => r.value = "header"
  /\ r.op = "SLOAD" =>
       r.key \in Slots /\ (r.value = 0 \/ r.value = s.storage[tx.to][r.key].value)
  /\ r.op = "STATICCALL" => r.success = FALSE

Stored(s, storage) == Put([s EXCEPT !.storage[tx.to] = storage], tx.to)

GoodStore(r, s) ==
  r.op = "SSTORE" =>
    /\ r.key \in Slots /\ r.value \in Nat /\ r.refund = updateSstoreGas(r.value)
    /\ r.root.storage[tx.to][r.key] = NewLeaf(r.value)
    /\ \/ r.root = Stored(s, [s.storage[tx.to] EXCEPT ![r.key] = NewLeaf(r.value)])
       \/ r.root = Stored(s, [NothingStored EXCEPT ![r.key] = NewLeaf(r.value)])

GoodCall(r, s, sent, failed) ==
  r.op = "CALL" =>
    /\ r.value \in Nat /\ r.gas \in Int /\ r.data \in Calldata
    /\ r.success => r.key \in Contracts \cup {Relay}
    /\ r.key = Relay /\ r.success =>
         /\ ~(s.balance[tx.to] < r.value) /\ r.data = "exit" /\ r.gas >= ExitFee
         /\ sent = {} => r.root = updateExitsRoot(Debit(s, tx.to, r.value), s.exits,
                                                  tx.to, r.value, r.gas)
         /\ r.root # s
    /\ r.key = Relay /\ ~r.success =>
         \/ s.balance[tx.to] < r.value \/ r.data # "exit" \/ r.gas < ExitFee
         \/ LeavesCheckpoint /\ failed # {}
    /\ ~r.success /\ (r.key \in Contracts => ~LeavesCheckpoint) => r.root = s

GoodRecord(r, s, sent, failed) ==
  GoodLook(r, s, failed) /\ GoodStore(r, s) /\ GoodCall(r, s, sent, failed)

GoodList(list) ==
  \A i \in 1 .. Len(list) :
     GoodRecord(list[i], RootBefore(list, i), Messages(list, i), Traces(list, i))

(* The refunds of a list, and whether all messages in it failed.           *)
RefundOf(list) == RefundsUpTo(list)[Len(list)]

AllSent(list) == Messages(list, Len(list) + 1)

AllFailed(list) == Failed(list, Len(list) + 1)

AllTraces(list) == Traces(list, Len(list) + 1)

Prior(list) == RootBefore(list, Len(list) + 1)

(* A message has what is left of its gas, and a caller at least the gas    *)
(* that it sent on.                                                        *)
GasInv ==
  /\ frames # <<>> => frames[1].limit = Available
  /\ \A k \in 1 .. Len(frames) : 0 <= frames[k].left /\ frames[k].left <= frames[k].limit
  /\ \A k \in 1 .. Len(frames) - 1 :
       /\ 0 <= frames[k].call.gas /\ frames[k].call.gas <= frames[k].left
       /\ frames[k + 1].limit = frames[k].call.gas

(* Before the message nothing has happened.                                *)
BeginInv ==
  pc = "tx" =>
    state = before /\ relay = before.exits /\ saved = <<before>> /\ spent = [gas |-> 0, refund |-> 0]

(* A checkpoint is left open only by the call of a precompile.             *)
CheckpointInv ==
  pc = "message" =>
    /\ saved[2] = Charged
    /\ ~LeavesCheckpoint => Len(saved) = Len(frames) + 1
    /\ Len(frames) = 1 /\ AllSent(frames[1].list) = {} => Len(saved) = 2
    /\ Len(frames) > 1 /\ ~LeavesCheckpoint => saved[3] = Prior(frames[1].list)

(* The child relay forgets no exit, and the states do.                     *)
RelayInv ==
  /\ Len(state.exits) <= Len(relay)
  /\ \A i \in 1 .. Len(saved) : Len(saved[i].exits) <= Len(relay)

(* The message of the transaction, and what its records say.               *)
ListInv ==
  pc = "message" =>
    LET f == frames[1] IN
    /\ f.self = tx.to /\ GoodList(f.list)
    /\ \A i \in f.shared : i \in 1 .. Len(f.list) /\ f.list[i].op = "CALL"
    /\ AllSent(f.list) = AllFailed(f.list) => f.refund = RefundOf(f.list)
    /\ AllTraces(f.list) = {} => f.cached = Prior(f.list).balance[tx.to]
    /\ Len(frames) = 1 =>
         /\ state = Prior(f.list)
         /\ AllSent(f.list) = {} => relay = state.exits
    /\ Len(frames) > 1 => f.call.to \in Contracts

(* The witness that the message left.                                      *)
GivenWitness(h) ==
  /\ h = MessageWitness(h.stateRootEnter, h.stateRootLeave, h.gasUsed, h.refund, h.list, h.status)
  /\ h.caller = tx.from /\ h.to = tx.to /\ h.context = tx.to /\ h.callvalue = tx.value
  /\ h.gasAvailable = Available /\ h.calldata = tx.data
  /\ h.isStatic = FALSE /\ h.origin = origin /\ h.gasPrice = tx.price
  /\ h.list \in Seq(Records) /\ h.refund \in Int
  /\ 0 <= h.gasUsed /\ h.gasUsed <= Available
  /\ h.status \in {"success", "revert", "exception"}
  /\ h.status # "success" => h.refund = 0
  /\ h.stateRootLeave \in States

(* That of an exit.                                                        *)
ExitWitness(h) ==
  /\ h.gasUsed = Available /\ h.refund = 0 /\ h.list = <<>>
  /\ ~tx.incoming \/ h.status = "success" => h.stateRootEnter = Debit(Charged, tx.from, tx.value)
  /\ h.status = "success" <=>
       Charged.balance[tx.from] >= tx.value /\ tx.data = "exit" /\ Available >= ExitFee
  /\ h.status = "success" =>
       h.stateRootLeave = updateExitsRoot(Debit(Charged, tx.from, tx.value), before.exits,
                                          tx.from, tx.value, Available)

(* That of a transfer or of a call of a contract.                          *)
CallWitness(h) ==
  /\ h.stateRootEnter = Entered /\ h.stateRootLeave = Prior(h.list)
  /\ h.list = <<>> \/ tx.to \in Contracts
  /\ GoodList(h.list)
  /\ h.status = "success" /\ AllSent(h.list) = AllFailed(h.list) => h.refund = RefundOf(h.list)

(* The state before the gas is paid for, and after.                        *)
Settled(s, h) ==
  /\ s \in States
  /\ h.status = "success" => s = h.stateRootLeave
  /\ h.status # "success"
       /\ ~(LeavesCheckpoint /\ (h.status = "exception" \/ AllSent(h.list) # {})) => s = Charged

PayedFrom(s, h) ==
  LET used == h.gasUsed + getBaseFee(tx)
      paid == used - Lesser(h.refund, used \div 2)
  IN IF tx.incoming THEN s
     ELSE Credit(Credit(s, tx.from, (tx.gas - paid) * tx.price), setup.coinbase, paid * tx.price)

WitnessInv ==
  pc \in {"paid", "done"} =>
    /\ GivenWitness(witness)
    /\ spent = [gas |-> witness.gasUsed, refund |-> witness.refund]
    /\ IF tx.to = Relay THEN ExitWitness(witness) ELSE CallWitness(witness)
    /\ IF pc = "paid" THEN Settled(state, witness)
       ELSE \E s \in States : Settled(s, witness) /\ state = PayedFrom(s, witness)

ClaimInv == claim # NoClaim => pc = "done"

HonestInv == GasInv /\ BeginInv /\ CheckpointInv /\ RelayInv /\ ListInv /\ WitnessInv /\ ClaimInv

-----------------------------------------------------------------------------
\* How a list of records grows.

(* The refund that a record adds, and sums of these over k records.        *)
RefundIn(r) == IF r.op = "SSTORE" THEN r.refund ELSE 0

AreRefunds(F, list, k) ==
  /\ F \in [0 .. k -> Int]
  /\ F[0] = 0
  /\ \A n \in 1 .. k : F[n] = F[n - 1] + RefundIn(list[n])

(* A record is added to the message of the transaction.                    *)
Grows(g, r) ==
  LET l == frames[1].list IN
  /\ pc = "message" /\ pc' = "message" /\ setup' = setup
  /\ Len(frames') = 1 /\ frames'[1] = g /\ g.self = frames[1].self
  /\ Longer(l, g.list, r) /\ GoodRecord(r, Prior(l), AllSent(l), AllTraces(l))
  /\ state' = IF r.op \in ChangesState THEN r.root ELSE Prior(l)
  /\ AllSent(g.list) = {} => relay' = state'.exits
  /\ AllTraces(g.list) = {} => g.cached = state'.balance[tx.to]
  /\ AllSent(g.list) = AllFailed(g.list) => g.refund = frames[1].refund + RefundIn(r)
  /\ \A i \in g.shared : i \in 1 .. Len(g.list) /\ g.list[i].op = "CALL"

(* No message that it sent is forgotten.                                   *)
Remembers == AllSent(frames[1].list) \subseteq AllSent(frames'[1].list)

(* How the phases of a transaction follow each other.                      *)
Phase ==
  \/ UNCHANGED execution
  \/ pc = "tx" /\ (executeExitCall \/ executeTransfer \/ executeCall)
  \/ pc = "message" /\ pc' = "message"
  \/ pc = "message" /\ pc' = "paid" /\ EndStep /\ Len(frames) = 1
  \/ pc = "paid" /\ EndTx

-----------------------------------------------------------------------------
\* What a claim says, honest or not.

(* The witness of the message, over the root that the transaction reached. *)
HonestClaim ==
  /\ setup \in Setups
  /\ GivenWitness(w) /\ w.gasUsed \in Int
  /\ IF tx.to = Relay THEN ExitWitness(w) ELSE CallWitness(w)
  /\ \E s \in States : Settled(s, w) /\ claim.root = PayedFrom(s, w)

(* The nonce of an account is raised.                                      *)
Raised(s, a) == [s EXCEPT !.nonce[a] = @ + 1]

(* The balance of an account is less, or more.                             *)
Less(b, a, v) == [b EXCEPT ![a] = @ - v]

More(b, a, v) == [b EXCEPT ![a] = @ + v]

(* The types of errors about a record.                                     *)
OwnOps == {"BALANCE", "SELFBALANCE", "EXTCODESIZE", "EXTCODEHASH", "EXTCODECOPY", "COINBASE",
           "HEADER", "SLOAD", "SSTORE", "CALL", "STATICCALL"}

ExitOps == {"EXIT_CALL", "EXIT_CALL_ENCODING"}

(* What is known of a record of such a claim: it is good for the root      *)
(* before it.                                                              *)
KnownRecord(i, r, s) ==
  /\ r = w.list[i] /\ s = getLastState(i)
  /\ tx.to \in Contracts /\ w.context = tx.to
  /\ GoodRecord(r, s, Sent(i), Undone(i))

(* The root before the i-th record of a witness.                           *)
LastRoot(v, i) ==
  LET changes == {j \in DOMAIN v.list : j < i /\ v.list[j].op \in ChangesState}
  IN IF changes = {} THEN v.stateRootEnter ELSE v.list[Max(changes)].root

(* What a record of a witness says, whether it was changed or not.         *)
ClaimedStore(r) ==
  /\ tx.to \in Contracts /\ r.key \in Slots /\ r.value \in Nat
  /\ \/ r.root = Wrong
     \/ \E u \in Nat : u \in {r.value, r.value - 1} /\ r.root.storage[tx.to][r.key] = NewLeaf(u)

ClaimedCall(v, i, r, s) ==
  /\ tx.to \in Contracts /\ r.value \in Nat /\ r.gas \in Int /\ r.success \in BOOLEAN
  /\ r.key = Relay /\ r.success /\ r.root = s /\ s \in States /\ ~(s.balance[tx.to] < r.value)
       /\ decodes(r.data, r.gas) =>
       \E j \in 1 .. i - 1 : /\ v.list[j].op = "CALL" /\ v.list[j].key \in Contracts
                             /\ ~v.list[j].success /\ v.list[j].root # LastRoot(v, j)

ClaimedRecord(v, i) ==
  LET r == v.list[i]
  IN /\ r.op = "EXTCODECOPY" /\ r.key \in Contracts => r.value \in BOOLEAN
     /\ r.op = "SSTORE" => ClaimedStore(r)
     /\ r.op = "CALL" => ClaimedCall(v, i, r, LastRoot(v, i))

(* What every witness says that may be sent.  Only the root that it begins *)
(* with is compared before its records are.                                *)
ClaimedOf(v) ==
  /\ Len(v.list) \in Nat /\ DOMAIN v.list = 1 .. Len(v.list)
  /\ v.gasAvailable = Available \/ v.isStatic = FALSE
  /\ v.stateRootEnter # Wrong => \A i \in 1 .. Len(v.list) : ClaimedRecord(v, i)
  /\ \A i \in 1 .. Len(v.list) : v.list[i].op = "DELEGATECALL" =>
       i = Len(v.list) /\ v.list[i].root = NoRoot /\ v.stateRootLeave \in States

-----------------------------------------------------------------------------
\* What the audit keeps true.

(* The checks in the order of both plans.                                  *)
Rank(check) ==
  CASE check = "input data" -> 1
    [] check = "gas limit" -> 2
    [] check = "refund" -> IF tx.incoming THEN 9 ELSE 3
    [] check = "failure root" -> 4
    [] check = "input root" -> 5
    [] check = "exit call" -> 6
    [] check = "access list" -> 7
    [] check = "output root" -> 8
    [] OTHER -> 10

CheckNames ==
  {"input data", "gas limit", "refund", "failure root", "input root", "exit call", "access list",
   "output root", "success root"}

Left(check, p) == \E k \in 1 .. Len(p) : p[k] = check

Ordered(p) == \A j, k \in 1 .. Len(p) : j < k => Rank(p[j]) < Rank(p[k])

(* A signed transaction to the child relay has its exit checked instead of *)
(* its records.                                                            *)
Exiting == ~tx.incoming /\ w.to = Relay

(* The checks that are left fit the witness.                               *)
PlanFits(p) ==
  /\ p \in Seq(CheckNames) /\ Ordered(p)
  /\ Left("failure root", p) => ~tx.incoming /\ w.status # "success"
  /\ Left("success root", p) => w.status = "success"
  /\ Left("exit call", p) => Exiting
  /\ Left("input root", p) /\ Exiting => Left("exit call", p)
  /\ Left("access list", p) \/ Left("output root", p) => ~Exiting

(* The root on entering, as the auditor computes it.                       *)
Entry == EntryRootFrom(Reverted)

(* What those found that are not left.                                     *)
Checked(p) ==
  /\ ~Left("input data", p) =>
       /\ w.caller = tx.from /\ w.to = tx.to /\ w.context = tx.to
       /\ w.gasAvailable = Available /\ w.callvalue = tx.value
  /\ ~Left("input root", p) => w.stateRootEnter = Entry
  /\ ~Left("output root", p) /\ ~Exiting => w.stateRootLeave = getLastState(Len(w.list) + 1)

(* The auditor's tree is the state before the next record, until a debit   *)
(* is kept.                                                                *)
InStep(a, i) ==
  /\ a = getLastState(i) /\ a.exits = Reverted.exits
  /\ \A j \in 1 .. i - 1 : w.list[j].op = "CALL" /\ w.list[j].key \in Contracts =>
       ~w.list[j].success /\ w.list[j].root = getLastState(j)

Tracks(a, i) ==
  /\ tx.to \in a.stored
  /\ \/ DebitKept(i) \/ InStep(a, i)
     \/ i = Len(w.list) + 1 /\ w.stateRootLeave # getLastState(i)

(* Where the auditor is when checks are left.                              *)
AuditAt(p, a, i) ==
  /\ PlanFits(p) /\ Checked(p)
  /\ a \in States /\ i \in 1 .. Len(w.list) + 1
  /\ Left("input root", p) => i = 1
  /\ Left("failure root", p) \/ Left("input root", p) => a = Reverted
  /\ ~Left("access list", p) /\ ~Exiting => i = Len(w.list) + 1
  /\ ~Left("input root", p) /\ ~Exiting => Tracks(a, i)
  /\ ~Left("input root", p) /\ Exiting =>
       IF Left("exit call", p) THEN a = Entry ELSE w.status = "success" => a = w.stateRootLeave

(* The error that a check ends with, and why.                              *)
FindsInExit(e) ==
  LET exited == decodes(w.calldata, w.gasAvailable)
      inserted == updateExitsRoot(audited, <<>>, w.caller, w.callvalue, w.gasAvailable)
  IN \/ /\ e = WitnessError("EXIT_CALL_WITNESS_GAS")
        /\ w.gasAvailable # w.gasUsed \/ w.refund # 0
     \/ /\ e = WitnessError("EXIT_WITNESS_ENCODING")
        /\ \/ ~exited /\ w.status = "success"
           \/ exited /\ inserted = w.stateRootLeave /\ w.status # "success"
     \/ /\ e = WitnessError("EXIT_CALL_WITNESS_EXIT_ROOT")
        /\ exited /\ inserted # w.stateRootLeave

FindsInCall(e) ==
  LET paid == Debit(audited, w.context, record.value)
      poor == Balance(w.context) < record.value
      unchanged == NothingHappened(record, audited)
  IN \/ e = Unsent /\ index > Len(witness.list)
     \/ e = Error("CALL", audited, paid) /\ poor /\ ~unchanged
     \/ /\ e = Error("EXIT_CALL_ENCODING", audited, paid) /\ ~poor /\ record.key = Relay
        /\ ~decodes(record.data, record.gas) /\ ~unchanged
     \/ /\ e = Error("EXIT_CALL", audited, paid) /\ ~poor /\ record.key = Relay
        /\ decodes(record.data, record.gas) /\ ~(record.success /\ record.root = audited)
     \/ /\ e = Error("CALL", audited, paid) /\ ~poor /\ record.key # Relay
        /\ w.context \in Contracts => ~unchanged

FindsInStore(e) ==
  /\ e = Error("SSTORE", audited, audited)
  /\ \/ record.root # Put([audited EXCEPT !.storage[w.context] =
                             [NothingStored EXCEPT ![record.key] = Short(record.value)]], w.context)
     \/ record.refund # ExpectedRefund(record.value, 0)

FindsInList(e) ==
  /\ index <= Len(w.list)
  /\ \/ /\ record.op \in Observers \ {"BLOCKHASH"} /\ Deviates
        /\ e = Error(record.op, audited, audited)
     \/ record.op = "SSTORE" /\ FindsInStore(e)
     \/ record.op = "CALL" /\ FindsInCall(e)
     \/ /\ record.op = "STATICCALL"
        /\ e = IF index <= Len(witness.list) THEN Error("STATICCALL", audited, audited) ELSE Unsent

ContextDiffers ==
  \/ w.caller # tx.from \/ w.origin # tx.from
  \/ w.to # tx.to \/ w.context # tx.to
  \/ w.gasAvailable # Available \/ w.callvalue # tx.value
  \/ w.gasPrice # (IF tx.incoming THEN 0 ELSE tx.price)

LeaveDiffers ==
  \/ w.stateRootLeave # getLastState(Len(w.list) + 1)
  \/ w.list # <<>> /\ \A i \in DOMAIN w.list : w.list[i].op \notin ChangesState

EndDiffers(e) ==
  /\ claim.root # (IF tx.incoming THEN w.stateRootLeave ELSE SuccessRoot(w, audited))
  /\ e = WitnessError(IF tx.incoming THEN "INCOMING_TX_STATE_ROOT_SUCCESS"
                      ELSE "SIGNED_TX_STATE_ROOT_SUCCESS")

Finds(check, e) ==
  \/ check = "input data" /\ e = WitnessError("WITNESS_CONTEXT") /\ ContextDiffers
  \/ /\ check = "gas limit" /\ e = WitnessError("WITNESS_GAS_EXCEEDED")
     /\ w.gasUsed > w.gasAvailable
  \/ check = "refund" /\ e = WitnessError("WITNESS_REFUND") /\ w.refund # SstoreRefunds
  \/ /\ check = "failure root" /\ e = WitnessError("SIGNED_TX_STATE_ROOT_FAILURE")
     /\ claim.root # FailureRootFrom(audited)
  \/ /\ check = "input root" /\ w.stateRootEnter # EntryRootFrom(audited)
     /\ e = IF tx.incoming THEN Unsent ELSE WitnessError("INPUT_STATE_ROOT")
  \/ check = "output root" /\ e = Unsent /\ LeaveDiffers
  \/ check = "success root" /\ EndDiffers(e)
  \/ check = "exit call" /\ FindsInExit(e)
  \/ check = "access list" /\ FindsInList(e)

(* An audit goes on, or a check has failed.                                *)
FailedAt(p) == p # <<>> /\ AuditAt(p, audited, index) /\ Finds(Head(p), error)

AuditInv ==
  claim # NoClaim \/ plan # <<>> =>
    /\ pc = "done" /\ ClaimedOf(w)
    /\ \/ error = NoError /\ AuditAt(plan, audited, index)
       \/ plan = <<>> /\ \E p : FailedAt(p)

-----------------------------------------------------------------------------
\* What the lemmas say of a plan, of a record and of an exit.

(* The witness of the message, and what is known of it.                    *)
Given(h) ==
  /\ setup \in Setups
  /\ GivenWitness(h)
  /\ IF tx.to = Relay THEN ExitWitness(h) ELSE CallWitness(h)

(* A part of a plan, with ranks from m to n.                               *)
Between(p, m, n) ==
  /\ p \in Seq(CheckNames) /\ Ordered(p)
  /\ \A k \in 1 .. Len(p) : m <= Rank(p[k]) /\ Rank(p[k]) <= n

(* The checks in a part.                                                   *)
Holds(p, checks) == \A check : Left(check, p) <=> check \in checks

Part(p, checks, m, n) == Between(p, m, n) /\ Holds(p, checks)

(* What has been compared with the transaction.                            *)
ContextFits ==
  /\ w.caller = tx.from /\ w.to = tx.to /\ w.context = tx.to
  /\ w.gasAvailable = Available /\ w.callvalue = tx.value

(* What every witness that may be sent says of its list.                   *)
Listed == Len(w.list) \in Nat /\ DOMAIN w.list = 1 .. Len(w.list)

(* What the record that is checked says, and where the auditor is.         *)
AtRecordFacts(a, i) ==
  /\ setup \in Setups /\ ClaimedOf(w) /\ Listed /\ i \in 1 .. Len(w.list)
  /\ a \in States /\ ContextFits /\ w.stateRootEnter = Entry /\ Tracks(a, i)
  /\ Reverted \in States

(* What the auditor knows where it checks an exit.                         *)
ExitKnown(a) ==
  /\ a = Entry /\ w.stateRootEnter = Entry /\ ContextFits
  /\ Entry \in States /\ Entry.exits = Reverted.exits
  /\ ~tx.incoming /\ w.to = Relay

(* What was found with the tree was found with the state before the        *)
(* transaction.                                                            *)
TreeTrusted == TreeErrors(error.type) => Reverted = before

(* What the peg rejects, and the auditor does not misreport.               *)
Astray == Rejected /\ ~JudgedOtherwise /\ ~Unconvincing /\ TreeTrusted

(* The record that an error is about, r, and the root before it, which is  *)
(* that of the auditor's tree as long as no debit was kept.                *)
AtError(r, s) ==
  /\ AtRecordFacts(audited, index) /\ r = record /\ r = w.list[index] /\ s = getLastState(index)
  /\ DebitKept(index) \/ (InStep(audited, index) /\ s = audited)
  /\ s = audited => s # Wrong

(* What the auditor finds wrong in an honest claim, and does not           *)
(* misreport.                                                              *)
Unfounded == error # NoError /\ ~JudgedOtherwise /\ TreeTrusted
=============================================================================

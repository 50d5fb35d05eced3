-------------------------- MODULE WitnessAuditProofs --------------------------
(***************************************************************************)
(* Proofs about WitnessAudit for every value of its constants.             *)
(***************************************************************************)
EXTENDS WitnessInvariants, WellFoundedInduction, TLAPS

(* The order by which a least counterexample is looked for.                *)
Before == OpToRel(<, Nat)

-----------------------------------------------------------------------------
\* What SetupAssumption says of the transaction at hand.
LEMMA SetupFacts ==
  ASSUME setup \in Setups
  PROVE  /\ tx \in Transactions
         /\ tx.incoming \in BOOLEAN /\ tx.from \in Addresses /\ tx.to \in Addresses
         /\ tx.gas \in Nat /\ tx.price \in Nat /\ tx.value \in Nat
         /\ tx.data \in {"exit", "lax", "other"}
         /\ before \in States /\ setup.coinbase \in Addresses
         /\ setup.known \in SUBSET Contracts /\ setup.code \in SUBSET Instructions
         /\ BaseGas \in Nat
         /\ getBaseFee(tx) \in Nat /\ Available \in Nat
<1>1. /\ setup \in [before : States, tx : Transactions, coinbase : Addresses,
                    known : SUBSET Contracts, code : SUBSET Instructions,
                    archived : SUBSET Contracts]
      /\ setup.tx.gas >= getBaseFee(setup.tx)
  BY SetupAssumption
<1>2. /\ tx \in Transactions /\ before \in States /\ setup.coinbase \in Addresses
      /\ setup.known \in SUBSET Contracts /\ setup.code \in SUBSET Instructions
  BY <1>1 DEF tx, before
<1>3. /\ tx.incoming \in BOOLEAN /\ tx.from \in Addresses /\ tx.to \in Addresses
      /\ tx.gas \in Nat /\ tx.price \in Nat /\ tx.value \in Nat
      /\ tx.data \in {"exit", "lax", "other"}
  BY <1>2 DEF Transactions
<1>4. BaseGas \in Nat /\ getBaseFee(tx) \in Nat
  BY <1>3, GasAssumption DEF getBaseFee
<1>5. Available \in Nat
  BY <1>1, <1>3, <1>4 DEF Available, tx
<1> QED BY <1>2, <1>3, <1>4, <1>5

\* The parts of a state.
LEMMA StateParts ==
  ASSUME NEW s \in States
  PROVE  /\ s.balance \in [Addresses -> Int] /\ s.nonce \in [Addresses -> Int]
         /\ s.stored \in SUBSET Addresses
         /\ s.storage \in [Contracts -> [Slots -> Leaves]]
         /\ s.exits \in Seq(OutgoingTransactions)
BY DEF States

\* One part of a state is replaced.
LEMMA ReplacedPart ==
  ASSUME NEW s \in States
  PROVE  /\ \A b \in [Addresses -> Int] : LET u == [s EXCEPT !.balance = b] IN
              /\ u \in States /\ u.balance = b /\ u.nonce = s.nonce
              /\ u.stored = s.stored /\ u.storage = s.storage /\ u.exits = s.exits
         /\ \A n \in [Addresses -> Int] : LET u == [s EXCEPT !.nonce = n] IN
              /\ u \in States /\ u.balance = s.balance /\ u.nonce = n
              /\ u.stored = s.stored /\ u.storage = s.storage /\ u.exits = s.exits
         /\ \A d \in SUBSET Addresses : LET u == [s EXCEPT !.stored = d] IN
              /\ u \in States /\ u.balance = s.balance /\ u.nonce = s.nonce
              /\ u.stored = d /\ u.storage = s.storage /\ u.exits = s.exits
         /\ \A t \in [Contracts -> [Slots -> Leaves]] : LET u == [s EXCEPT !.storage = t] IN
              /\ u \in States /\ u.balance = s.balance /\ u.nonce = s.nonce
              /\ u.stored = s.stored /\ u.storage = t /\ u.exits = s.exits
         /\ \A x \in Seq(OutgoingTransactions) : LET u == [s EXCEPT !.exits = x] IN
              /\ u \in States /\ u.balance = s.balance /\ u.nonce = s.nonce
              /\ u.stored = s.stored /\ u.storage = s.storage /\ u.exits = x
<1>1. /\ s.balance \in [Addresses -> Int] /\ s.nonce \in [Addresses -> Int]
      /\ s.stored \in SUBSET Addresses
      /\ s.storage \in [Contracts -> [Slots -> Leaves]]
      /\ s.exits \in Seq(OutgoingTransactions)
  BY StateParts
<1>2. s = [balance |-> s.balance, nonce |-> s.nonce, stored |-> s.stored,
           storage |-> s.storage, exits |-> s.exits]
  BY DEF States
<1>3. ASSUME NEW b \in [Addresses -> Int]
      PROVE  [s EXCEPT !.balance = b]
               = [balance |-> b, nonce |-> s.nonce, stored |-> s.stored,
                  storage |-> s.storage, exits |-> s.exits]
  BY <1>2
<1>4. ASSUME NEW n \in [Addresses -> Int]
      PROVE  [s EXCEPT !.nonce = n]
               = [balance |-> s.balance, nonce |-> n, stored |-> s.stored,
                  storage |-> s.storage, exits |-> s.exits]
  BY <1>2
<1>5. ASSUME NEW d \in SUBSET Addresses
      PROVE  [s EXCEPT !.stored = d]
               = [balance |-> s.balance, nonce |-> s.nonce, stored |-> d,
                  storage |-> s.storage, exits |-> s.exits]
  BY <1>2
<1>6. ASSUME NEW t \in [Contracts -> [Slots -> Leaves]]
      PROVE  [s EXCEPT !.storage = t]
               = [balance |-> s.balance, nonce |-> s.nonce, stored |-> s.stored,
                  storage |-> t, exits |-> s.exits]
  BY <1>2
<1>7. ASSUME NEW x \in Seq(OutgoingTransactions)
      PROVE  [s EXCEPT !.exits = x]
               = [balance |-> s.balance, nonce |-> s.nonce, stored |-> s.stored,
                  storage |-> s.storage, exits |-> x]
  BY <1>2
<1> QED BY <1>1, <1>3, <1>4, <1>5, <1>6, <1>7 DEF States

\* An account that is written is stored, and nothing else of the state changes.
LEMMA PutFacts ==
  ASSUME NEW s \in States, NEW a \in Addresses
  PROVE  /\ Put(s, a) \in States
         /\ Put(s, a).balance = s.balance /\ Put(s, a).nonce = s.nonce
         /\ Put(s, a).stored = s.stored \cup {a}
         /\ Put(s, a).storage = s.storage /\ Put(s, a).exits = s.exits
<1> DEFINE d == s.stored \cup {a}
<1>1. d \in SUBSET Addresses
  BY StateParts
<1>2. Put(s, a) = [s EXCEPT !.stored = d]
  BY DEF Put
<1> HIDE DEF d
<1>3. /\ Put(s, a) \in States /\ Put(s, a).balance = s.balance /\ Put(s, a).nonce = s.nonce
      /\ Put(s, a).stored = d /\ Put(s, a).storage = s.storage /\ Put(s, a).exits = s.exits
  BY <1>1, <1>2, ReplacedPart
<1> QED BY <1>3 DEF d

\* A credit changes the balance of one account.
LEMMA CreditFacts ==
  ASSUME NEW s \in States, NEW a \in Addresses, NEW v \in Int
  PROVE  /\ Credit(s, a, v) \in States
         /\ Credit(s, a, v).balance = [s.balance EXCEPT ![a] = @ + v]
         /\ Credit(s, a, v).nonce = s.nonce
         /\ Credit(s, a, v).stored = s.stored \cup {a}
         /\ Credit(s, a, v).storage = s.storage /\ Credit(s, a, v).exits = s.exits
<1> DEFINE b == [s.balance EXCEPT ![a] = @ + v]
           u == [s EXCEPT !.balance = b]
<1>1. b \in [Addresses -> Int]
  BY StateParts
<1>2. Credit(s, a, v) = Put(u, a)
  BY DEF Credit
<1> HIDE DEF b
<1>3. /\ u \in States /\ u.balance = b /\ u.nonce = s.nonce
      /\ u.stored = s.stored /\ u.storage = s.storage /\ u.exits = s.exits
  BY <1>1, ReplacedPart
<1> HIDE DEF u
<1>4. /\ Credit(s, a, v) \in States /\ Credit(s, a, v).balance = b /\ Credit(s, a, v).nonce = s.nonce
      /\ Credit(s, a, v).stored = s.stored \cup {a}
      /\ Credit(s, a, v).storage = s.storage /\ Credit(s, a, v).exits = s.exits
  BY <1>2, <1>3, PutFacts
<1> QED BY <1>4 DEF b

\* A debit changes the balance of one account.
LEMMA DebitFacts ==
  ASSUME NEW s \in States, NEW a \in Addresses, NEW v \in Int
  PROVE  /\ Debit(s, a, v) \in States
         /\ Debit(s, a, v).balance = [s.balance EXCEPT ![a] = @ - v]
         /\ Debit(s, a, v).nonce = s.nonce
         /\ Debit(s, a, v).stored = s.stored \cup {a}
         /\ Debit(s, a, v).storage = s.storage /\ Debit(s, a, v).exits = s.exits
<1> DEFINE b == [s.balance EXCEPT ![a] = @ - v]
           u == [s EXCEPT !.balance = b]
<1>1. b \in [Addresses -> Int]
  BY StateParts
<1>2. Debit(s, a, v) = Put(u, a)
  BY DEF Debit
<1> HIDE DEF b
<1>3. /\ u \in States /\ u.balance = b /\ u.nonce = s.nonce
      /\ u.stored = s.stored /\ u.storage = s.storage /\ u.exits = s.exits
  BY <1>1, ReplacedPart
<1> HIDE DEF u
<1>4. /\ Debit(s, a, v) \in States /\ Debit(s, a, v).balance = b /\ Debit(s, a, v).nonce = s.nonce
      /\ Debit(s, a, v).stored = s.stored \cup {a}
      /\ Debit(s, a, v).storage = s.storage /\ Debit(s, a, v).exits = s.exits
  BY <1>2, <1>3, PutFacts
<1> QED BY <1>4 DEF b

\* Nothing is written for a value of zero.
LEMMA AddTyped ==
  ASSUME NEW s \in States, NEW a \in Addresses, NEW v \in Int
  PROVE  addToBalance(s, a, v) \in States
BY CreditFacts DEF addToBalance

\* The states around the message of a transaction are states.
LEMMA EnteredTyped ==
  ASSUME setup \in Setups
  PROVE  Charged \in States /\ Entered \in States
<1>1. /\ tx.incoming \in BOOLEAN /\ tx.from \in Addresses /\ tx.to \in Addresses
      /\ tx.gas \in Nat /\ tx.price \in Nat /\ tx.value \in Nat /\ before \in States
  BY SetupFacts
<1>2. tx.gas * tx.price \in Int /\ tx.value \in Int
  BY <1>1
<1> DEFINE d == Debit(before, tx.from, tx.gas * tx.price)
<1>3. d \in States
  BY <1>1, <1>2, DebitFacts
<1>4. [d EXCEPT !.nonce[tx.from] = @ + 1] \in States
  <2> HIDE DEF d
  <2>1. [d.nonce EXCEPT ![tx.from] = @ + 1] \in [Addresses -> Int]
    BY <1>1, <1>3, StateParts
  <2> QED BY <2>1, <1>3, ReplacedPart
<1>5. Charged \in States
  <2> HIDE DEF d
  <2>1. Charged = IF tx.incoming THEN before ELSE [d EXCEPT !.nonce[tx.from] = @ + 1]
    BY DEF Charged, d
  <2> QED BY <2>1, <1>1, <1>4
<1>6. Debit(Charged, tx.from, tx.value) \in States
  BY <1>1, <1>2, <1>5, DebitFacts
<1> DEFINE m == IF tx.incoming THEN Charged ELSE Debit(Charged, tx.from, tx.value)
<1>7. m \in States
  BY <1>1, <1>5, <1>6
<1>8. Entered = addToBalance(m, tx.to, tx.value)
  BY DEF Entered
<1> HIDE DEF m
<1> QED BY <1>1, <1>5, <1>7, <1>8, AddTyped

\* An exit succeeds if it can be paid, is decoded and brings its fee.
LEMMA ExitFacts ==
  ASSUME NEW s \in States, NEW caller \in Addresses, NEW value \in Nat, NEW gas \in Int,
         NEW data \in Calldata, relay \in Seq(OutgoingTransactions)
  PROVE  LET e == Exit(s, caller, value, gas, FALSE, data) IN
         /\ e.state \in States /\ e.relay \in Seq(OutgoingTransactions)
         /\ e.status \in {"success", "exception"}
         /\ Exited(e, s, caller, value, gas, data)
<1> DEFINE debited == Debit(s, caller, value)
           exits == Append(relay, outgoingTransactionFromCallInputs(caller, value, gas))
<1>1. ExitFee \in Nat
  BY GasAssumption
<1>2. outgoingTransactionFromCallInputs(caller, value, gas) \in OutgoingTransactions
  BY <1>1 DEF outgoingTransactionFromCallInputs, OutgoingTransactions
<1>3. exits \in Seq(OutgoingTransactions)
  BY <1>2
<1>4. debited \in States
  <2>1. value \in Int
    OBVIOUS
  <2> QED BY <2>1, DebitFacts
<1>5. [debited EXCEPT !.exits = exits] \in States
  <2> HIDE DEF debited, exits
  <2> QED BY <1>3, <1>4, ReplacedPart
<1>6. s.balance[caller] \in Int
  BY StateParts
<1>7. updateExitsRoot(debited, relay, caller, value, gas) = [debited EXCEPT !.exits = exits]
  BY DEF updateExitsRoot
<1>8. Exit(s, caller, value, gas, FALSE, data) =
        IF s.balance[caller] < value
        THEN [state |-> s, enter |-> s, relay |-> relay, status |-> "exception"]
        ELSE IF data # "exit" \/ gas < ExitFee
        THEN [state |-> s, enter |-> debited, relay |-> relay, status |-> "exception"]
        ELSE [state |-> updateExitsRoot(debited, relay, caller, value, gas),
              enter |-> debited, relay |-> exits, status |-> "success"]
  BY <1>7 DEF Exit
<1> DEFINE after == updateExitsRoot(debited, relay, caller, value, gas)
<1>9. after \in States
  BY <1>5, <1>7
<1> DEFINE e == Exit(s, caller, value, gas, FALSE, data)
           b == s.balance[caller]
<1>10. e = IF b < value THEN [state |-> s, enter |-> s, relay |-> relay, status |-> "exception"]
           ELSE IF data # "exit" \/ gas < ExitFee
           THEN [state |-> s, enter |-> debited, relay |-> relay, status |-> "exception"]
           ELSE [state |-> after, enter |-> debited, relay |-> exits, status |-> "success"]
  BY <1>8
<1>11. b \in Int /\ ExitFee \in Int /\ value \in Int
  BY <1>1, <1>6
<1> HIDE DEF debited, exits, after, e, b
<1>12. /\ e.state \in States /\ e.relay \in Seq(OutgoingTransactions)
       /\ e.status \in {"success", "exception"}
       /\ e.status = "success" <=> b >= value /\ data = "exit" /\ gas >= ExitFee
       /\ e.status # "success" => e.state = s /\ e.relay = relay
       /\ e.status = "success" => e.enter = debited /\ e.relay = exits /\ e.state = after
       /\ b >= value => e.enter = debited
  <2>1. CASE b < value
    BY <1>10, <1>11, <2>1
  <2>2. CASE b >= value /\ (data # "exit" \/ gas < ExitFee)
    BY <1>10, <1>11, <2>2
  <2>3. CASE b >= value /\ data = "exit" /\ gas >= ExitFee
    BY <1>3, <1>9, <1>10, <1>11, <2>3
  <2> QED BY <1>11, <2>1, <2>2, <2>3
<1> QED BY <1>12 DEF Exited, e, b, after, debited, exits

\* An exit that fails leaves everything as it was.
LEMMA FailedExit ==
  ASSUME NEW s \in States, NEW caller \in Addresses, NEW value \in Nat, NEW gas \in Int,
         NEW data \in Calldata, relay \in Seq(OutgoingTransactions)
  PROVE  LET e == Exit(s, caller, value, gas, FALSE, data) IN
         e.status # "success" => e.state = s /\ e.relay = relay
BY DEF Exit

-----------------------------------------------------------------------------
\* A sequence without its last element.
LEMMA FrontFacts ==
  ASSUME NEW S, NEW q \in Seq(S), Len(q) # 0
  PROVE  /\ Len(q) \in Nat \ {0} /\ q # <<>>
         /\ Last(q) = q[Len(q)] /\ Last(q) \in S
         /\ Front(q) \in Seq(S) /\ Len(Front(q)) = Len(q) - 1
         /\ \A k \in 1 .. Len(q) - 1 : Front(q)[k] = q[k]
<1>1. Len(q) \in Nat \ {0} /\ DOMAIN q = 1 .. Len(q) /\ q # <<>>
  OBVIOUS
<1>2. Last(q) = q[Len(q)] /\ Last(q) \in S
  BY <1>1 DEF Last
<1>3. Front(q) = SubSeq(q, 1, Len(q) - 1)
  BY DEF Front
<1>4. /\ Front(q) \in Seq(S) /\ Len(Front(q)) = Len(q) - 1
      /\ \A k \in 1 .. Len(q) - 1 : Front(q)[k] = q[k]
  BY <1>1, <1>3
<1> QED BY <1>1, <1>2, <1>4

\* The innermost message is the last one.
LEMMA TopFacts ==
  ASSUME frames \in Seq(MessageFrames), frames # <<>>
  PROVE  /\ Len(frames) \in Nat \ {0}
         /\ Top = frames[Len(frames)] /\ Top \in MessageFrames
         /\ Front(frames) \in Seq(MessageFrames) /\ Len(Front(frames)) = Len(frames) - 1
         /\ \A k \in 1 .. Len(frames) - 1 : Front(frames)[k] = frames[k]
         /\ Front(frames) = <<>> <=> Len(frames) = 1
<1>1. Len(frames) # 0
  OBVIOUS
<1>2. /\ Len(frames) \in Nat \ {0} /\ Top = frames[Len(frames)] /\ Top \in MessageFrames
      /\ Front(frames) \in Seq(MessageFrames) /\ Len(Front(frames)) = Len(frames) - 1
      /\ \A k \in 1 .. Len(frames) - 1 : Front(frames)[k] = frames[k]
  BY <1>1, FrontFacts DEF Top
<1>3. Front(frames) = <<>> <=> Len(frames) = 1
  BY <1>2
<1> QED BY <1>2, <1>3

\* An instruction changes the innermost message only.
LEMMA ContinueFacts ==
  ASSUME frames \in Seq(MessageFrames), frames # <<>>, NEW f \in MessageFrames, Continue(f)
  PROVE  /\ frames' \in Seq(MessageFrames) /\ frames' # <<>>
         /\ Len(frames') = Len(frames) /\ frames'[Len(frames)] = f
         /\ \A k \in 1 .. Len(frames) - 1 : frames'[k] = frames[k]
BY DEF Continue

\* The parts of a frame.
LEMMA FrameParts ==
  ASSUME NEW f \in MessageFrames
  PROVE  /\ f.self \in Contracts /\ f.limit \in Int /\ f.left \in Int /\ f.isStatic = FALSE
         /\ f.cached \in Int /\ f.list \in Seq(Records) /\ f.refund \in Int
         /\ f.shared \in SUBSET Nat /\ f.lastCallGasUsed \in Int /\ f.call \in CallsSent
         /\ f = [self |-> f.self, limit |-> f.limit, left |-> f.left, isStatic |-> f.isStatic,
                 cached |-> f.cached, list |-> f.list, refund |-> f.refund,
                 shared |-> f.shared, lastCallGasUsed |-> f.lastCallGasUsed, call |-> f.call]
BY DEF MessageFrames

\* A message begins with its gas and without records.
LEMMA BeginTyped ==
  ASSUME NEW self \in Contracts, NEW limit \in Int, NEW s \in States
  PROVE  Begun(Frame(self, limit, FALSE, s, NoCall), self, limit, s)
<1>1. s.balance[self] \in Int
  BY StateParts, AddressAssumption
<1>2. NoCall \in CallsSent
  BY DEF CallsSent, NoCall
<1>3. <<>> \in Seq(Records) /\ {} \in SUBSET Nat /\ 0 \in Int
  OBVIOUS
<1> DEFINE b == s.balance[self]
           c == NoCall
<1>4. Frame(self, limit, FALSE, s, c) =
        [self |-> self, limit |-> limit, left |-> limit, isStatic |-> FALSE,
         cached |-> b, list |-> <<>>, refund |-> 0, shared |-> {},
         lastCallGasUsed |-> 0, call |-> c]
  BY DEF Frame
<1> DEFINE f == Frame(self, limit, FALSE, s, c)
<1>5. b \in Int /\ c \in CallsSent
  BY <1>1, <1>2
<1> HIDE DEF b, c, f
<1>6. f = [self |-> self, limit |-> limit, left |-> limit, isStatic |-> FALSE,
           cached |-> b, list |-> <<>>, refund |-> 0, shared |-> {},
           lastCallGasUsed |-> 0, call |-> c]
  BY <1>4 DEF f
<1>7. f \in MessageFrames
  BY <1>3, <1>5, <1>6 DEF MessageFrames
<1>8. /\ f \in MessageFrames /\ f.self = self /\ f.limit = limit /\ f.left = limit
      /\ f.cached = b /\ f.list = <<>> /\ f.refund = 0 /\ f.shared = {} /\ f.call = c
  BY <1>6, <1>7
<1> QED BY <1>8 DEF b, c, f, Begun

-----------------------------------------------------------------------------
\* They are all of its fields but for three.
LEMMA SetFieldsFacts ==
  ASSUME NEW k, NEW v, NEW s, NEW g, NEW u, NEW n, NEW b, NEW d
  PROVE  SetFields(k, v, s, g, u, n, b, d)
           = [op |-> "CALL", key |-> k, value |-> v, root |-> s, gas |-> g, used |-> u,
              refund |-> n, success |-> b, data |-> d]
<1> DEFINE r == Record("CALL", k, v)
<1>1. r = [op |-> "CALL", key |-> k, value |-> v, root |-> NoRoot, gas |-> 0, used |-> 0,
           refund |-> 0, success |-> FALSE, data |-> "none"]
  BY DEF Record
<1> HIDE DEF r
<1> DEFINE x == [r EXCEPT !.root = s, !.gas = g, !.used = u, !.refund = n,
                          !.success = b, !.data = d]
           y == [op |-> "CALL", key |-> k, value |-> v, root |-> s, gas |-> g, used |-> u,
                 refund |-> n, success |-> b, data |-> d]
<1>2. DOMAIN x = {"op", "key", "value", "root", "gas", "used", "refund", "success", "data"}
  BY <1>1
<1>3. /\ x.op = "CALL" /\ x.key = k /\ x.value = v /\ x.root = s /\ x.gas = g
      /\ x.used = u /\ x.refund = n /\ x.success = b /\ x.data = d
  BY <1>1
<1>4. x = [z \in DOMAIN x |-> x[z]]
  BY <1>1
<1> HIDE DEF x
<1>5. x = y
  BY ONLY <1>2, <1>3, <1>4
<1> QED BY <1>5 DEF x, y, r, SetFields

\* A call that is over leaves its record, and what else the frame has.
LEMMA CalledFacts ==
  ASSUME NEW f \in MessageFrames, f.call \in Sending, NEW s \in States, NEW success \in BOOLEAN
  PROVE  LET g == Called(f, s, success) IN
         /\ g \in MessageFrames /\ CallRecord(f, s, success) \in Records
         /\ g.list = Append(f.list, CallRecord(f, s, success))
         /\ g.self = f.self /\ g.limit = f.limit /\ g.left = f.left /\ g.cached = f.cached
         /\ g.refund = f.refund /\ g.call = f.call
         /\ g.shared = f.shared \cup {Len(f.list) + 1}
<1>1. /\ f.self \in Contracts /\ f.limit \in Int /\ f.left \in Int /\ f.isStatic = FALSE
      /\ f.cached \in Int /\ f.list \in Seq(Records) /\ f.refund \in Int
      /\ f.shared \in SUBSET Nat /\ f.lastCallGasUsed \in Int /\ f.call \in CallsSent
  BY FrameParts
<1>2. /\ f.call.to \in Addresses /\ f.call.value \in Nat /\ f.call.gas \in Int
      /\ f.call.data \in Calldata
  BY DEF Sending
<1> DEFINE r == CallRecord(f, s, success)
           l == Append(f.list, r)
           d == f.shared \cup {Len(f.list) + 1}
<1>3. r \in Records
  BY <1>1, <1>2 DEF CallRecord, Records, RecordValues, Calldata
<1>4. l \in Seq(Records) /\ d \in SUBSET Nat
  <2> HIDE DEF r
  <2> QED BY <1>1, <1>3
<1>5. Called(f, s, success) =
        [self |-> f.self, limit |-> f.limit, left |-> f.left, isStatic |-> FALSE,
         cached |-> f.cached, list |-> l, refund |-> f.refund,
         shared |-> d, lastCallGasUsed |-> f.lastCallGasUsed, call |-> f.call]
  <2> DEFINE x == SetFields(f.call.to, f.call.value, s, f.call.gas, f.lastCallGasUsed,
                            f.refund, success, f.call.data)
  <2>1. x = r
    BY SetFieldsFacts DEF CallRecord
  <2>2. Called(f, s, success) = [f EXCEPT !.list = l, !.shared = d]
    <3>1. Called(f, s, success) = [f EXCEPT !.list = Append(@, x), !.shared = d]
      BY DEF Called, SetFields
    <3> HIDE DEF x, r, d
    <3> QED BY <2>1, <3>1
  <2> HIDE DEF l, d
  <2> QED BY <2>2, <1>1, FrameParts
<1> HIDE DEF r, l, d
<1>6. Called(f, s, success) \in MessageFrames
  BY <1>1, <1>4, <1>5 DEF MessageFrames
<1> QED BY <1>3, <1>5, <1>6 DEF r, l, d

\* It is the gas used and the refund.
LEMMA BaseCallFacts ==
  ASSUME NEW f \in MessageFrames, NEW s \in States, NEW used \in Int, NEW refund \in Int,
         NEW success \in BOOLEAN
  PROVE  TookOver(baseCall(f, s, used, refund, success), f, s, used, refund, success)
<1>1. /\ f.self \in Contracts /\ f.limit \in Int /\ f.left \in Int /\ f.isStatic = FALSE
      /\ f.cached \in Int /\ f.list \in Seq(Records) /\ f.refund \in Int
      /\ f.shared \in SUBSET Nat /\ f.lastCallGasUsed \in Int /\ f.call \in CallsSent
  BY FrameParts
<1> DEFINE c == IF success THEN s.balance[f.self] ELSE f.cached
           l == f.left - used
           d == f.refund + refund
<1>2. c \in Int /\ l \in Int /\ d \in Int
  BY <1>1, StateParts, AddressAssumption
<1>3. {} \in SUBSET Nat
  OBVIOUS
<1>4. baseCall(f, s, used, refund, success) =
        [f EXCEPT !.left = l, !.lastCallGasUsed = used, !.refund = d, !.shared = {}, !.cached = c]
  BY DEF baseCall
<1> HIDE DEF c, l, d
<1>5. baseCall(f, s, used, refund, success) =
        [self |-> f.self, limit |-> f.limit, left |-> l, isStatic |-> FALSE,
         cached |-> c, list |-> f.list, refund |-> d,
         shared |-> {}, lastCallGasUsed |-> used, call |-> f.call]
  BY <1>1, <1>4, FrameParts
<1>6. baseCall(f, s, used, refund, success) \in MessageFrames
  BY <1>1, <1>2, <1>3, <1>5 DEF MessageFrames
<1> QED BY <1>5, <1>6 DEF c, l, d, TookOver

-----------------------------------------------------------------------------
\* What the end of the innermost message leaves.
LEMMA EndFacts ==
  ASSUME TypeInv, pc = "message", NEW status \in {"success", "revert", "exception"},
         NEW checkpoints \in Seq(States), Len(checkpoints) >= Len(frames) + 1,
         EndWith(status, checkpoints)
  PROVE  /\ setup' = setup /\ relay' = relay /\ known' \in SUBSET Contracts
         /\ state' = IF status = "success" THEN state ELSE checkpoints[Len(checkpoints)]
         /\ state' \in States /\ saved' \in Seq(States)
         /\ Len(saved') = Len(checkpoints) - 1
         /\ \A k \in 1 .. Len(checkpoints) - 1 : saved'[k] = checkpoints[k]
         /\ Len(frames) = 1 =>
              /\ frames' = <<>> /\ pc' = "paid"
              /\ witness' = MessageWitness(Entered, state, UsedGas(status), Refunds(status),
                                           Top.list, status)
              /\ spent' = [gas |-> UsedGas(status), refund |-> Refunds(status)]
         /\ Len(frames) # 1 =>
              /\ pc' = pc /\ witness' = witness /\ spent' = spent
              /\ frames' \in Seq(MessageFrames) /\ Len(frames') = Len(frames) - 1
              /\ \A k \in 1 .. Len(frames) - 2 : frames'[k] = frames[k]
              /\ frames'[Len(frames) - 1] =
                   Called(baseCall(frames[Len(frames) - 1], state', UsedGas(status),
                                   Refunds(status), status = "success"),
                          state', status = "success")
<1> DEFINE outer == Front(frames)
           n == Len(outer)
           success == status = "success"
           g == baseCall(outer[n], state', UsedGas(status), Refunds(status), success)
<1>1. /\ frames \in Seq(MessageFrames) /\ frames # <<>> /\ state \in States
      /\ known \in SUBSET Contracts
      /\ \A k \in 1 .. Len(frames) - 1 : frames[k].call \in Sending
  BY DEF TypeInv
<1>2. /\ Len(frames) \in Nat \ {0} /\ Top \in MessageFrames
      /\ outer \in Seq(MessageFrames) /\ n = Len(frames) - 1
      /\ \A k \in 1 .. Len(frames) - 1 : outer[k] = frames[k]
      /\ outer = <<>> <=> Len(frames) = 1
  BY <1>1, TopFacts
<1>3. /\ Len(checkpoints) \in Nat \ {0}
      /\ Last(checkpoints) = checkpoints[Len(checkpoints)] /\ Last(checkpoints) \in States
      /\ Front(checkpoints) \in Seq(States) /\ Len(Front(checkpoints)) = Len(checkpoints) - 1
      /\ \A k \in 1 .. Len(checkpoints) - 1 : Front(checkpoints)[k] = checkpoints[k]
  <2>1. Len(checkpoints) # 0
    BY <1>2
  <2> QED BY <2>1, FrontFacts
<1>4. /\ setup' = setup /\ relay' = relay /\ known' \in SUBSET Contracts
      /\ saved' = Front(checkpoints)
  BY <1>1 DEF EndWith, Cached
<1>5. state' = IF success THEN state ELSE checkpoints[Len(checkpoints)]
  BY <1>3 DEF EndWith
<1>6. state' \in States
  BY <1>1, <1>3, <1>5
<1>7. /\ saved' \in Seq(States) /\ Len(saved') = Len(checkpoints) - 1
      /\ \A k \in 1 .. Len(checkpoints) - 1 : saved'[k] = checkpoints[k]
  BY <1>3, <1>4
<1>8. UsedGas(status) \in Int /\ Refunds(status) \in Int
  <2>1. Top.limit \in Int /\ Top.left \in Int /\ Top.refund \in Int
    BY <1>2, FrameParts
  <2> QED BY <2>1 DEF UsedGas, Refunds
<1>12. success \in BOOLEAN
  OBVIOUS
<1>9. ASSUME Len(frames) = 1
      PROVE  /\ frames' = <<>> /\ pc' = "paid"
             /\ witness' = MessageWitness(Entered, state, UsedGas(status), Refunds(status),
                                          Top.list, status)
             /\ spent' = [gas |-> UsedGas(status), refund |-> Refunds(status)]
  BY <1>2, <1>9 DEF EndWith, UsedGas, Refunds
<1>10. ASSUME Len(frames) # 1
       PROVE  /\ pc' = pc /\ witness' = witness /\ spent' = spent
              /\ frames' \in Seq(MessageFrames) /\ Len(frames') = Len(frames) - 1
              /\ \A k \in 1 .. Len(frames) - 2 : frames'[k] = frames[k]
              /\ frames'[Len(frames) - 1] = Called(g, state', success)
  <2>1. /\ pc' = pc /\ witness' = witness /\ spent' = spent
        /\ frames' = [outer EXCEPT ![n] = Called(g, state', success)]
    BY <1>2, <1>10 DEF EndWith, UsedGas, Refunds
  <2>2. n \in 1 .. Len(frames) - 1 /\ n \in Nat \ {0}
    BY <1>2, <1>10
  <2>3. outer[n] \in MessageFrames /\ outer[n].call \in Sending
    BY <1>1, <1>2, <2>2
  <2>4. g \in MessageFrames /\ g.call = outer[n].call
    <3> HIDE DEF success, outer
    <3> QED BY <1>6, <1>8, <1>12, <2>3, BaseCallFacts DEF TookOver
  <2> HIDE DEF g, outer, success
  <2>5. Called(g, state', success) \in MessageFrames
    BY <1>6, <1>12, <2>3, <2>4, CalledFacts
  <2>6. /\ frames' \in Seq(MessageFrames) /\ Len(frames') = n
        /\ frames'[n] = Called(g, state', success)
        /\ \A k \in 1 .. n - 1 : frames'[k] = outer[k]
    BY <1>2, <2>1, <2>2, <2>5
  <2>7. Len(frames) - 2 = n - 1 /\ Len(frames) - 1 = n
    BY <1>2
  <2>8. \A k \in 1 .. n - 1 : frames'[k] = frames[k]
    BY <1>2, <2>2, <2>6
  <2> QED BY <2>1, <2>6, <2>7, <2>8, <1>2
<1>11. Len(frames) # 1 => outer[n] = frames[Len(frames) - 1]
  BY <1>2
<1> QED BY <1>4, <1>5, <1>6, <1>7, <1>9, <1>10, <1>11

-----------------------------------------------------------------------------
\* What the code of a contract consists of.
LEMMA CodeFacts ==
  ASSUME setup \in Setups, NEW ins \in setup.code
  PROVE  /\ ins.value \in Nat /\ ins.gas \in Nat /\ ins.data \in Calldata
         /\ ins.key \in Addresses \cup Slots
         /\ ins.op \in {"SLOAD", "SSTORE"} => ins.key \in Slots
         /\ ins.op \notin {"SLOAD", "SSTORE"} => ins.key \in Addresses
<1>1. ins \in Instructions
  BY SetupFacts
<1> QED BY <1>1 DEF Instructions, Instruction, Calldata

\* The fields of a record that says what was seen.
LEMMA RecordFacts ==
  ASSUME NEW op \in Observers \cup {"LOG", "SSTORE", "CALL", "STATICCALL"},
         NEW key \in Addresses \cup Slots, NEW value \in RecordValues
  PROVE  LET r == Record(op, key, value) IN
         /\ r \in Records
         /\ r = [op |-> op, key |-> key, value |-> value, root |-> NoRoot, gas |-> 0, used |-> 0,
                 refund |-> 0, success |-> FALSE, data |-> "none"]
BY DEF Record, Records

\* An instruction takes gas and leaves a record.
LEMMA LookFacts ==
  ASSUME NEW f \in MessageFrames, NEW r \in Records
  PROVE  LET g == [f EXCEPT !.left = @ - OpGas, !.list = Append(@, r)] IN
         /\ g \in MessageFrames /\ g.list = Append(f.list, r) /\ g.left = f.left - OpGas
         /\ g.self = f.self /\ g.limit = f.limit /\ g.cached = f.cached
         /\ g.refund = f.refund /\ g.shared = f.shared /\ g.call = f.call
<1>1. /\ f.self \in Contracts /\ f.limit \in Int /\ f.left \in Int /\ f.isStatic = FALSE
      /\ f.cached \in Int /\ f.list \in Seq(Records) /\ f.refund \in Int
      /\ f.shared \in SUBSET Nat /\ f.lastCallGasUsed \in Int /\ f.call \in CallsSent
  BY FrameParts
<1> DEFINE l == Append(f.list, r)
           m == f.left - OpGas
           g == [f EXCEPT !.left = m, !.list = l]
<1>2. l \in Seq(Records) /\ m \in Int
  BY <1>1, GasAssumption
<1> HIDE DEF l, m
<1>3. g = [self |-> f.self, limit |-> f.limit, left |-> m, isStatic |-> FALSE,
           cached |-> f.cached, list |-> l, refund |-> f.refund,
           shared |-> f.shared, lastCallGasUsed |-> f.lastCallGasUsed, call |-> f.call]
  <2>1. f = [self |-> f.self, limit |-> f.limit, left |-> f.left, isStatic |-> f.isStatic,
             cached |-> f.cached, list |-> f.list, refund |-> f.refund,
             shared |-> f.shared, lastCallGasUsed |-> f.lastCallGasUsed, call |-> f.call]
    BY FrameParts
  <2>2. /\ DOMAIN g = {"self", "limit", "left", "isStatic", "cached", "list", "refund",
                       "shared", "lastCallGasUsed", "call"}
        /\ g = [z \in DOMAIN g |-> g[z]]
    BY <2>1
  <2>3. /\ g.self = f.self /\ g.limit = f.limit /\ g.left = m /\ g.isStatic = f.isStatic
        /\ g.cached = f.cached /\ g.list = l /\ g.refund = f.refund
        /\ g.shared = f.shared /\ g.lastCallGasUsed = f.lastCallGasUsed /\ g.call = f.call
    BY <2>1
  <2>4. f.isStatic = FALSE
    BY <1>1
  <2> HIDE DEF g
  <2> QED BY ONLY <2>2, <2>3, <2>4
<1> HIDE DEF g
<1>4. /\ g \in MessageFrames /\ g.list = l /\ g.left = m
      /\ g.self = f.self /\ g.limit = f.limit /\ g.cached = f.cached
      /\ g.refund = f.refund /\ g.shared = f.shared /\ g.call = f.call
  BY <1>1, <1>2, <1>3 DEF MessageFrames
<1> QED BY <1>4 DEF g, l, m

\* What an instruction without effect records.
LEMMA ObservedTyped ==
  ASSUME TypeInv, NEW f \in MessageFrames, NEW ins \in setup.code, ins.op \in Observers
  PROVE  Observed(f, ins.op, ins.key) \in RecordValues
<1> DEFINE v == Observed(f, ins.op, ins.key)
<1>1. /\ setup \in Setups /\ state \in States
      /\ state.balance \in [Addresses -> Int]
      /\ state.storage \in [Contracts -> [Slots -> Leaves]]
      /\ f.self \in Contracts /\ f.cached \in Int /\ setup.coinbase \in Addresses
  BY FrameParts, StateParts, SetupFacts DEF TypeInv
<1>2. /\ ins.op \in {"SLOAD", "SSTORE"} => ins.key \in Slots
      /\ ins.op \notin {"SLOAD", "SSTORE"} => ins.key \in Addresses
  BY <1>1, CodeFacts
<1>3. CASE ins.op \in {"BALANCE", "SELFBALANCE"}
  BY <1>1, <1>2, <1>3 DEF Observed, RecordValues
<1>4. CASE ins.op = "SLOAD"
  <2>1. NoLeaf \in Leaves
    BY DEF NoLeaf, Leaves
  <2>2. Readable(f.self) \in [Slots -> Leaves]
    BY <1>1, <2>1 DEF Readable, NothingStored
  <2>3. Readable(f.self)[ins.key] \in Leaves
    BY <1>2, <1>4, <2>2
  <2>4. Readable(f.self)[ins.key].value \in Int
    BY <2>3 DEF Leaves
  <2> QED BY <1>4, <2>4 DEF Observed, RecordValues
<1>5. CASE ins.op = "EXTCODESIZE"
  BY <1>5 DEF Observed, RecordValues
<1>6. CASE ins.op = "EXTCODEHASH"
  BY <1>6 DEF Observed, RecordValues
<1>7. CASE ins.op = "EXTCODECOPY"
  <2>1. v = ~accountIsEmpty(state, ins.key)
    BY <1>7 DEF Observed
  <2>2. v \in BOOLEAN
    BY <2>1
  <2> QED BY <2>2 DEF RecordValues
<1>8. CASE ins.op = "COINBASE"
  <2>1. v = getBlockCoinbase
    BY <1>8 DEF Observed
  <2>2. getBlockCoinbase \in Addresses
    BY <1>1, AddressAssumption DEF getBlockCoinbase
  <2> QED BY <2>1, <2>2 DEF RecordValues
<1>9. CASE ins.op \in {"HEADER", "BLOCKHASH"}
  BY <1>9 DEF Observed, RecordValues
<1> QED BY <1>3, <1>4, <1>5, <1>6, <1>7, <1>8, <1>9
        DEF Observers, GlobalStateRecords, HeaderRecords

\* A step that only changes the innermost message keeps the types.
LEMMA ContinueTyped ==
  ASSUME TypeInv, pc = "message", NEW f \in MessageFrames, Continue(f),
         state' \in States, relay' \in Seq(OutgoingTransactions), known' \in SUBSET Contracts,
         UNCHANGED <<setup, pc, saved, spent>>
  PROVE  TypeInv'
<1>1. /\ frames \in Seq(MessageFrames) /\ frames # <<>>
      /\ \A k \in 1 .. Len(frames) - 1 : frames[k].call \in Sending
  BY DEF TypeInv
<1>2. /\ frames' \in Seq(MessageFrames) /\ frames' # <<>>
      /\ Len(frames') = Len(frames)
      /\ \A k \in 1 .. Len(frames) - 1 : frames'[k] = frames[k]
  BY <1>1, ContinueFacts
<1>3. \A k \in 1 .. Len(frames') - 1 : frames'[k].call \in Sending
  BY <1>1, <1>2
<1> QED BY <1>2, <1>3 DEF TypeInv

-----------------------------------------------------------------------------
\* The innermost message while messages are executed.
LEMMA RunningFacts ==
  ASSUME TypeInv, pc = "message"
  PROVE  /\ frames \in Seq(MessageFrames) /\ frames # <<>> /\ Len(frames) \in Nat \ {0}
         /\ Top = frames[Len(frames)] /\ Top \in MessageFrames /\ Top.isStatic = FALSE
         /\ \A k \in 1 .. Len(frames) - 1 : frames[k].call \in Sending
         /\ setup \in Setups /\ state \in States /\ saved \in Seq(States)
         /\ relay \in Seq(OutgoingTransactions) /\ known \in SUBSET Contracts
         /\ Len(saved) \in Nat /\ Len(saved) >= Len(frames) + 1
<1>1. /\ frames \in Seq(MessageFrames) /\ frames # <<>>
      /\ \A k \in 1 .. Len(frames) - 1 : frames[k].call \in Sending
      /\ setup \in Setups /\ state \in States /\ saved \in Seq(States)
      /\ relay \in Seq(OutgoingTransactions) /\ known \in SUBSET Contracts
      /\ Len(saved) >= Len(frames) + 1
  BY DEF TypeInv
<1>2. /\ Len(frames) \in Nat \ {0} /\ Top = frames[Len(frames)] /\ Top \in MessageFrames
  BY <1>1, TopFacts
<1>3. Top.isStatic = FALSE
  BY <1>2, FrameParts
<1>4. Len(saved) \in Nat
  BY <1>1
<1> QED BY <1>1, <1>2, <1>3, <1>4

\* What was seen is recorded.
LEMMA ObserveFacts ==
  ASSUME TypeInv, NEW ins \in setup.code, Observe(ins)
  PROVE  LET r == Record(ins.op, ins.key, Observed(Top, ins.op, ins.key))
             g == [Top EXCEPT !.left = @ - OpGas, !.list = Append(@, r)] IN
         /\ Looked(g, r) /\ Continue(g) /\ pc = "message" /\ ins.op \in Observers
         /\ Top.left >= OpGas
         /\ UNCHANGED <<setup, pc, state, saved, relay, known, spent, witness>>
<1> DEFINE v == Observed(Top, ins.op, ins.key)
           r == Record(ins.op, ins.key, v)
           g == [Top EXCEPT !.left = @ - OpGas, !.list = Append(@, r)]
<1>1. /\ pc = "message" /\ ins.op \in Observers /\ Top.left >= OpGas /\ Continue(g)
      /\ UNCHANGED <<setup, pc, state, saved, relay, known, spent, witness>>
  BY DEF Observe, Executes
<1>2. Top \in MessageFrames /\ setup \in Setups
  BY <1>1, RunningFacts
<1>3. v \in RecordValues
  BY <1>1, <1>2, ObservedTyped
<1>4. ins.key \in Addresses \cup Slots
  BY <1>2, CodeFacts
<1>5. r \in Records
  <2> HIDE DEF v
  <2> QED BY <1>1, <1>3, <1>4, RecordFacts
<1>6. Looked(g, r)
  <2> HIDE DEF r
  <2> QED BY <1>2, <1>5, LookFacts DEF Looked
<1> QED BY <1>1, <1>6

\* A log leaves a record of nothing.
LEMMA LogFacts ==
  ASSUME TypeInv, NEW ins \in setup.code, Log(ins)
  PROVE  LET r == Record("LOG", Zero, 0)
             g == [Top EXCEPT !.left = @ - OpGas, !.list = Append(@, r)] IN
         /\ Looked(g, r) /\ Continue(g) /\ pc = "message" /\ Top.left >= OpGas
         /\ UNCHANGED <<setup, pc, state, saved, relay, known, spent, witness>>
<1> DEFINE r == Record("LOG", Zero, 0)
           g == [Top EXCEPT !.left = @ - OpGas, !.list = Append(@, r)]
<1>1. pc = "message" /\ Top.left >= OpGas
  BY DEF Log, Executes
<1>2. Top \in MessageFrames /\ Top.isStatic = FALSE
  BY <1>1, RunningFacts
<1>3. Continue(g) /\ UNCHANGED <<setup, pc, state, saved, relay, known, spent, witness>>
  BY <1>2 DEF Log
<1>4. r \in Records
  <2>1. Zero \in Addresses \cup Slots /\ 0 \in RecordValues
    BY AddressAssumption DEF RecordValues
  <2> QED BY <2>1, RecordFacts
<1>5. Looked(g, r)
  <2> HIDE DEF r
  <2> QED BY <1>2, <1>4, LookFacts DEF Looked
<1> QED BY <1>1, <1>3, <1>5

\* A static call of anything but a precompile fails and leaves a record.
LEMMA StaticCallFacts ==
  ASSUME TypeInv, NEW ins \in setup.code, StaticCall(ins), ins.key # Precompile
  PROVE  LET r == [Record("STATICCALL", ins.key, 0) EXCEPT !.used = Top.lastCallGasUsed]
             g == [Top EXCEPT !.left = @ - OpGas, !.list = Append(@, r)] IN
         /\ Looked(g, r) /\ Continue(g) /\ pc = "message" /\ Top.left >= OpGas
         /\ r.op = "STATICCALL" /\ r.success = FALSE
         /\ UNCHANGED <<setup, pc, state, saved, relay, known, spent, witness>>
<1> DEFINE q == Record("STATICCALL", ins.key, 0)
           u == Top.lastCallGasUsed
           r == [q EXCEPT !.used = u]
           g == [Top EXCEPT !.left = @ - OpGas, !.list = Append(@, r)]
<1>1. pc = "message" /\ Top.left >= OpGas
  BY DEF StaticCall, Executes
<1>2. Top \in MessageFrames /\ setup \in Setups
  BY <1>1, RunningFacts
<1>3. Continue(g) /\ UNCHANGED <<setup, pc, state, saved, relay, known, spent, witness>>
  BY DEF StaticCall
<1>4. r \in Records /\ r.op = "STATICCALL" /\ r.success = FALSE
  <2>1. ins.key \in Addresses \cup Slots /\ 0 \in RecordValues
    BY <1>2, CodeFacts DEF RecordValues
  <2>2. q \in Records /\ q.op = "STATICCALL" /\ q.success = FALSE
    BY <2>1, RecordFacts
  <2>3. u \in Int
    BY <1>2, FrameParts
  <2> HIDE DEF q, u
  <2> QED BY <2>2, <2>3 DEF Records
<1>5. Looked(g, r)
  <2> HIDE DEF r
  <2> QED BY <1>2, <1>4, LookFacts DEF Looked
<1> QED BY <1>1, <1>3, <1>4, <1>5

-----------------------------------------------------------------------------
\* Records that share the object of the refund change in nothing else.
LEMMA SharedFacts ==
  ASSUME NEW list \in Seq(Records), NEW indices, NEW refund \in Int
  PROVE  LET l == Shared(list, indices, refund) IN
         /\ l \in Seq(Records) /\ Len(l) = Len(list)
         /\ \A i \in 1 .. Len(list) :
              /\ l[i].op = list[i].op /\ l[i].key = list[i].key /\ l[i].value = list[i].value
              /\ l[i].root = list[i].root /\ l[i].gas = list[i].gas
              /\ l[i].success = list[i].success /\ l[i].data = list[i].data
              /\ i \notin indices => l[i] = list[i]
<1> DEFINE l == Shared(list, indices, refund)
<1>1. Len(list) \in Nat /\ DOMAIN list = 1 .. Len(list)
  BY DEF Records
<1>2. ASSUME NEW r \in Records
      PROVE  LET q == [r EXCEPT !.refund = refund] IN
             /\ q \in Records /\ q.op = r.op /\ q.key = r.key /\ q.value = r.value
             /\ q.root = r.root /\ q.gas = r.gas /\ q.success = r.success /\ q.data = r.data
  BY DEF Records
<1>3. \A i \in 1 .. Len(list) : list[i] \in Records
  BY <1>1
<1>4. \A i \in 1 .. Len(list) :
        l[i] = IF i \in indices THEN [list[i] EXCEPT !.refund = refund] ELSE list[i]
  BY <1>1 DEF Shared
<1>5. \A i \in 1 .. Len(list) :
        /\ l[i] \in Records
        /\ l[i].op = list[i].op /\ l[i].key = list[i].key /\ l[i].value = list[i].value
        /\ l[i].root = list[i].root /\ l[i].gas = list[i].gas
        /\ l[i].success = list[i].success /\ l[i].data = list[i].data
        /\ i \notin indices => l[i] = list[i]
  <2> TAKE i \in 1 .. Len(list)
  <2>1. list[i] \in Records
    BY <1>3
  <2> DEFINE q == [list[i] EXCEPT !.refund = refund]
  <2>2. /\ q \in Records /\ q.op = list[i].op /\ q.key = list[i].key /\ q.value = list[i].value
        /\ q.root = list[i].root /\ q.gas = list[i].gas
        /\ q.success = list[i].success /\ q.data = list[i].data
    BY <1>2, <2>1
  <2>3. l[i] = IF i \in indices THEN q ELSE list[i]
    BY <1>4
  <2> HIDE DEF l, q
  <2> QED BY <2>1, <2>2, <2>3
<1>6. l = [i \in 1 .. Len(list) |-> l[i]]
  BY <1>1 DEF Shared
<1> HIDE DEF l
<1>7. l \in Seq(Records) /\ Len(l) = Len(list)
  <2>1. l \in [1 .. Len(list) -> Records]
    BY <1>5, <1>6
  <2> QED BY <1>1, <2>1
<1> QED BY <1>5, <1>7 DEF l

\* They are its root and its refund.
LEMMA StoreFieldsFacts ==
  ASSUME NEW k, NEW v, NEW s, NEW n
  PROVE  StoreFields(k, v, s, n)
           = [op |-> "SSTORE", key |-> k, value |-> v, root |-> s, gas |-> 0, used |-> 0,
              refund |-> n, success |-> FALSE, data |-> "none"]
<1> DEFINE r == Record("SSTORE", k, v)
           x == [r EXCEPT !.root = s, !.refund = n]
<1>1. r = [op |-> "SSTORE", key |-> k, value |-> v, root |-> NoRoot, gas |-> 0, used |-> 0,
           refund |-> 0, success |-> FALSE, data |-> "none"]
  BY DEF Record
<1> HIDE DEF r
<1>2. DOMAIN x = {"op", "key", "value", "root", "gas", "used", "refund", "success", "data"}
  BY <1>1
<1>3. /\ x.op = "SSTORE" /\ x.key = k /\ x.value = v /\ x.root = s /\ x.gas = 0
      /\ x.used = 0 /\ x.refund = n /\ x.success = FALSE /\ x.data = "none"
  BY <1>1
<1>4. x = [z \in DOMAIN x |-> x[z]]
  BY <1>1
<1>5. StoreFields(k, v, s, n) = x
  BY DEF StoreFields, r
<1> HIDE DEF x
<1> QED BY ONLY <1>2, <1>3, <1>4, <1>5

\* An SSTORE that the gas suffices for writes the slot.
LEMMA SstoreFacts ==
  ASSUME TypeInv, NEW ins \in setup.code, Sstore(ins), Top.left >= OpGas + StoreGas
  PROVE  \E g \in MessageFrames :
         LET r == StoreRecord(ins, state') IN
         /\ Continue(g) /\ pc = "message" /\ r \in Records
         /\ state' \in States
         /\ state' = Put([state EXCEPT !.storage[Top.self] = NewStorage(ins)], Top.self)
         /\ state'.balance = state.balance /\ state'.exits = state.exits
         /\ known' \in SUBSET Contracts
         /\ g.list = Append(Shared(Top.list, Top.shared, NewRefund(ins)), r)
         /\ g.left = Top.left - OpGas - StoreGas /\ g.self = Top.self /\ g.limit = Top.limit
         /\ g.cached = state'.balance[Top.self] /\ g.refund = NewRefund(ins)
         /\ g.shared = Top.shared /\ g.call = Top.call
         /\ UNCHANGED <<setup, pc, saved, relay, spent, witness>>
<1>1. pc = "message" /\ Top.left >= OpGas /\ ins.op = "SSTORE"
  BY DEF Sstore, Executes
<1>2. /\ Top \in MessageFrames /\ Top.isStatic = FALSE /\ setup \in Setups /\ state \in States
      /\ known \in SUBSET Contracts
  BY <1>1, RunningFacts
<1>3. /\ Top.self \in Contracts /\ Top.limit \in Int /\ Top.left \in Int /\ Top.cached \in Int
      /\ Top.list \in Seq(Records) /\ Top.refund \in Int /\ Top.shared \in SUBSET Nat
      /\ Top.lastCallGasUsed \in Int /\ Top.call \in CallsSent
  BY <1>2, FrameParts
<1>4. ins.key \in Slots /\ ins.value \in Nat
  BY <1>1, <1>2, CodeFacts
<1> DEFINE s == Put([state EXCEPT !.storage[Top.self] = NewStorage(ins)], Top.self)
           l == Append(Shared(Top.list, Top.shared, NewRefund(ins)), StoreRecord(ins, state'))
           g == [Top EXCEPT !.left = @ - OpGas - StoreGas, !.refund = NewRefund(ins),
                            !.cached = state'.balance[Top.self], !.list = l]
<1>5. /\ state' = s /\ known' = known \cup {Top.self}
      /\ UNCHANGED <<setup, pc, saved, relay, spent, witness>>
  BY <1>1, <1>2, <1>3, GasAssumption DEF Sstore, NewStorage, NewLeaf
<1>6. /\ s \in States /\ s.balance = state.balance /\ s.exits = state.exits
  <2> DEFINE n == NewStorage(ins)
             t == [state.storage EXCEPT ![Top.self] = n]
             u == [state EXCEPT !.storage = t]
  <2>1. /\ NewLeaf(ins.value) \in Leaves /\ NoLeaf \in Leaves
    BY <1>4, GasAssumption DEF NewLeaf, NoLeaf, Short, Word, Leaves
  <2>2. state.storage \in [Contracts -> [Slots -> Leaves]]
    BY <1>2, StateParts
  <2>3. Readable(Top.self) \in [Slots -> Leaves]
    BY <1>3, <2>1, <2>2 DEF Readable, NothingStored
  <2>4. n \in [Slots -> Leaves]
    BY <1>4, <2>1, <2>3 DEF NewStorage
  <2> HIDE DEF n
  <2>5. t \in [Contracts -> [Slots -> Leaves]]
    BY <1>3, <2>2, <2>4
  <2>6. s = Put(u, Top.self)
    BY DEF n
  <2> HIDE DEF t, s
  <2>7. u \in States /\ u.balance = state.balance /\ u.exits = state.exits
    BY <1>2, <2>5, ReplacedPart
  <2>8. Top.self \in Addresses
    BY <1>3, AddressAssumption
  <2> HIDE DEF u
  <2> QED BY <2>6, <2>7, <2>8, PutFacts
<1>7. state' \in States /\ state'.balance = state.balance /\ state'.exits = state.exits
  <2> HIDE DEF s
  <2> QED BY <1>5, <1>6
<1>8. known' \in SUBSET Contracts
  BY <1>2, <1>3, <1>5
<1>9. /\ NewRefund(ins) \in Int /\ updateSstoreGas(ins.value) \in Int
      /\ OpGas \in Int /\ StoreGas \in Int
  BY <1>3, GasAssumption DEF NewRefund, updateSstoreGas
<1>10. StoreRecord(ins, state') \in Records
  <2>1. ins.value \in RecordValues /\ ins.key \in Addresses \cup Slots
    BY <1>4 DEF RecordValues
  <2> HIDE DEF s
  <2> QED BY <1>7, <1>9, <2>1 DEF StoreRecord, Records
<1>11. l \in Seq(Records)
  <2>1. Shared(Top.list, Top.shared, NewRefund(ins)) \in Seq(Records)
    BY <1>3, <1>9, SharedFacts
  <2> QED BY <1>10, <2>1
<1>12. Continue(g)
  <2>1. StoreFields(ins.key, ins.value, state', updateSstoreGas(ins.value))
          = StoreRecord(ins, state')
    BY StoreFieldsFacts DEF StoreRecord
  <2>2. Continue([Top EXCEPT
             !.left = @ - OpGas - StoreGas, !.refund = NewRefund(ins),
             !.cached = state'.balance[Top.self],
             !.list = Append(Shared(@, Top.shared, NewRefund(ins)),
                  StoreFields(ins.key, ins.value, state', updateSstoreGas(ins.value)))])
    BY <1>1, <1>2, <1>3, GasAssumption DEF Sstore, NewRefund, Shared, StoreFields
  <2> QED BY <2>1, <2>2
<1> DEFINE left == Top.left - OpGas - StoreGas
           refund == NewRefund(ins)
           cached == state'.balance[Top.self]
<1>13. left \in Int /\ refund \in Int /\ cached \in Int
  <2>1. Top.self \in Addresses
    BY <1>3, AddressAssumption
  <2>2. state'.balance[Top.self] \in Int
    BY <1>7, <2>1, StateParts
  <2> QED BY <1>3, <1>9, <2>2
<1> DEFINE f == Top
<1>14. /\ g \in MessageFrames
       /\ g.list = l /\ g.left = left /\ g.self = f.self /\ g.limit = f.limit
       /\ g.cached = cached /\ g.refund = refund /\ g.shared = f.shared /\ g.call = f.call
  <2>1. f = [self |-> f.self, limit |-> f.limit, left |-> f.left, isStatic |-> f.isStatic,
             cached |-> f.cached, list |-> f.list, refund |-> f.refund,
             shared |-> f.shared, lastCallGasUsed |-> f.lastCallGasUsed, call |-> f.call]
    BY <1>2, FrameParts
  <2>2. g = [f EXCEPT !.left = left, !.refund = refund, !.cached = cached, !.list = l]
    OBVIOUS
  <2> HIDE DEF f, left, refund, cached, l, g
  <2>3. /\ DOMAIN g = {"self", "limit", "left", "isStatic", "cached", "list", "refund",
                       "shared", "lastCallGasUsed", "call"}
        /\ g = [z \in DOMAIN g |-> g[z]]
    BY <2>1, <2>2
  <2>4. /\ g.self = f.self /\ g.limit = f.limit /\ g.left = left /\ g.isStatic = f.isStatic
        /\ g.cached = cached /\ g.list = l /\ g.refund = refund
        /\ g.shared = f.shared /\ g.lastCallGasUsed = f.lastCallGasUsed /\ g.call = f.call
    BY <2>1, <2>2
  <2>5. g = [self |-> f.self, limit |-> f.limit, left |-> left, isStatic |-> f.isStatic,
             cached |-> cached, list |-> l, refund |-> refund,
             shared |-> f.shared, lastCallGasUsed |-> f.lastCallGasUsed, call |-> f.call]
    BY ONLY <2>3, <2>4
  <2>6. /\ f.self \in Contracts /\ f.limit \in Int /\ f.isStatic = FALSE
        /\ f.shared \in SUBSET Nat /\ f.lastCallGasUsed \in Int /\ f.call \in CallsSent
    BY <1>2, <1>3 DEF f
  <2>7. g \in MessageFrames
    BY <1>11, <1>13, <2>5, <2>6 DEF MessageFrames
  <2> QED BY <2>4, <2>7
<1> HIDE DEF g, s
<1> QED BY <1>1, <1>5, <1>7, <1>8, <1>10, <1>12, <1>14 DEF s, l

-----------------------------------------------------------------------------
\* It has the call that it makes, with gas that it has.
LEMMA CallerFacts ==
  ASSUME TypeInv, pc = "message", NEW ins \in setup.code, Top.left >= OpGas,
         ins.op = "CALL"
  PROVE  LET f == Caller(ins) IN
         /\ f \in MessageFrames /\ f.call \in Sending /\ f.call = Message(ins)
         /\ f.call.to = ins.key /\ f.call.value = ins.value /\ f.call.data = ins.data
         /\ f.call.gas \in Nat /\ f.call.gas <= f.left
         /\ f.left = Top.left - OpGas /\ f.left \in Nat
         /\ f.self = Top.self /\ f.limit = Top.limit /\ f.cached = Top.cached
         /\ f.list = Top.list /\ f.refund = Top.refund /\ f.shared = Top.shared
         /\ f.isStatic = FALSE
<1>1. Top \in MessageFrames /\ setup \in Setups
  BY RunningFacts
<1>2. /\ ins.value \in Nat /\ ins.gas \in Nat /\ ins.data \in Calldata /\ ins.key \in Addresses
  BY <1>1, CodeFacts
<1>3. Top.left \in Int /\ OpGas \in Nat
  BY <1>1, FrameParts, GasAssumption
<1> DEFINE left == Top.left - OpGas
           gas == maxCallGas(ins.gas, left)
           c == Message(ins)
           f == Caller(ins)
<1>4. left \in Nat
  BY <1>3
<1>5. gas \in Nat /\ gas <= left
  <2>1. left \div 64 \in Nat /\ left \div 64 <= left
    <3> HIDE DEF left
    <3> QED BY <1>4
  <2> HIDE DEF left
  <2> QED BY <1>2, <1>4, <2>1 DEF maxCallGas, Lesser
<1>6. /\ c \in Sending /\ c.to = ins.key /\ c.value = ins.value /\ c.data = ins.data
      /\ c.gas = gas
  <2> HIDE DEF gas
  <2>1. c = [op |-> "CALL", to |-> ins.key, value |-> ins.value, gas |-> gas, data |-> ins.data]
    BY DEF gas, Message
  <2>2. gas \in Int
    BY <1>5
  <2> HIDE DEF c
  <2> QED BY <1>2, <2>1, <2>2 DEF Sending
<1> DEFINE p == [Top EXCEPT !.left = @ - OpGas]
<1>7. p.left = left
  BY <1>1 DEF MessageFrames
<1>8. f = [p EXCEPT !.call = c]
  BY <1>7, Zenon DEF Caller, Message
<1>9. /\ DOMAIN f = {"self", "limit", "left", "isStatic", "cached", "list", "refund",
                     "shared", "lastCallGasUsed", "call"}
      /\ f = [z \in DOMAIN f |-> f[z]]
      /\ f.self = Top.self /\ f.limit = Top.limit /\ f.left = left /\ f.isStatic = Top.isStatic
      /\ f.cached = Top.cached /\ f.list = Top.list /\ f.refund = Top.refund
      /\ f.shared = Top.shared /\ f.lastCallGasUsed = Top.lastCallGasUsed /\ f.call = c
  <2> HIDE DEF f, c
  <2> QED BY <1>1, <1>8 DEF MessageFrames
<1> HIDE DEF f, c, gas, p
<1>10. f = [self |-> Top.self, limit |-> Top.limit, left |-> left, isStatic |-> Top.isStatic,
            cached |-> Top.cached, list |-> Top.list, refund |-> Top.refund,
            shared |-> Top.shared, lastCallGasUsed |-> Top.lastCallGasUsed, call |-> c]
  BY ONLY <1>9
<1>11. /\ Top.self \in Contracts /\ Top.limit \in Int /\ Top.isStatic = FALSE
       /\ Top.cached \in Int /\ Top.list \in Seq(Records) /\ Top.refund \in Int
       /\ Top.shared \in SUBSET Nat /\ Top.lastCallGasUsed \in Int
  BY <1>1, FrameParts
<1>12. c \in CallsSent /\ left \in Int
  BY <1>4, <1>6 DEF CallsSent
<1>13. f \in MessageFrames
  <2> HIDE DEF left
  <2> QED BY <1>10, <1>11, <1>12 DEF MessageFrames
<1> QED BY <1>4, <1>5, <1>6, <1>9, <1>11, <1>13 DEF f, c

\* A call is refused, is an exit, or sends a message.
LEMMA CallCases ==
  ASSUME TypeInv, NEW ins \in setup.code, Call(ins)
  PROVE  LET f == Caller(ins)
             e == Exit(state, f.self, ins.value, f.call.gas, FALSE, ins.data)
             moved == addToBalance(Debit(state, f.self, ins.value), ins.key, ins.value) IN
         /\ pc = "message" /\ Top.left >= OpGas /\ ins.op = "CALL"
         /\ \/ /\ ~isPermittedCallTarget(ins.key) \/ f.cached < ins.value
               /\ Continue(Called(f, state, FALSE))
               /\ UNCHANGED <<setup, pc, state, saved, relay, known, spent, witness>>
            \/ /\ f.cached >= ins.value /\ ins.key = Relay
               /\ state' = e.state /\ relay' = e.relay /\ known' = Cached(e.status)
               /\ Continue(Called(baseCall(f, e.state, f.call.gas, 0, e.status = "success"),
                                  e.state, e.status = "success"))
               /\ UNCHANGED <<setup, pc, saved, spent, witness>>
            \/ /\ f.cached >= ins.value /\ ins.key \in Contracts
               /\ saved' = Append(saved, state) /\ state' = moved
               /\ frames' = Append([frames EXCEPT ![Len(frames)] = f],
                                Frame(ins.key, f.call.gas, FALSE, moved, [op |-> "none"]))
               /\ UNCHANGED <<setup, pc, relay, known, spent, witness>>
<1>1. pc = "message" /\ Top.left >= OpGas /\ ins.op = "CALL"
  BY DEF Call, Executes
<1> DEFINE f == Caller(ins)
<1>2. /\ f.isStatic = FALSE /\ f.cached = Top.cached
  BY <1>1, CallerFacts
<1>3. Top \in MessageFrames /\ setup \in Setups
  BY <1>1, RunningFacts
<1>4. f.cached \in Int /\ ins.value \in Int
  <2>1. Top.cached \in Int
    BY <1>3, FrameParts
  <2>2. ins.value \in Nat
    BY <1>3, CodeFacts
  <2> QED BY <1>2, <2>1, <2>2
<1> DEFINE e == Exit(state, f.self, ins.value, f.call.gas, FALSE, ins.data)
           moved == addToBalance(Debit(state, f.self, ins.value), ins.key, ins.value)
<1>5. \/ /\ ~isPermittedCallTarget(ins.key) \/ f.cached < ins.value
         /\ Continue(Called(f, state, FALSE))
         /\ UNCHANGED <<setup, pc, state, saved, relay, known, spent, witness>>
      \/ /\ isPermittedCallTarget(ins.key) /\ ~(f.cached < ins.value) /\ ins.key = Relay
         /\ state' = e.state /\ relay' = e.relay /\ known' = Cached(e.status)
         /\ Continue(Called(baseCall(f, e.state, f.call.gas, 0, e.status = "success"),
                            e.state, e.status = "success"))
         /\ UNCHANGED <<setup, pc, saved, spent, witness>>
      \/ /\ isPermittedCallTarget(ins.key) /\ ~(f.cached < ins.value) /\ ins.key # Relay
         /\ saved' = Append(saved, state) /\ state' = moved
         /\ frames' = Append([frames EXCEPT ![Len(frames)] = f],
                          Frame(ins.key, f.call.gas, FALSE, moved, [op |-> "none"]))
         /\ UNCHANGED <<setup, pc, relay, known, spent, witness>>
  BY <1>2 DEF Call, Caller
<1> HIDE DEF f, e, moved
<1>6. ~(f.cached < ins.value) => f.cached >= ins.value
  BY <1>4
<1>7. isPermittedCallTarget(ins.key) /\ ins.key # Relay => ins.key \in Contracts
  BY DEF isPermittedCallTarget
<1> QED BY <1>1, <1>5, <1>6, <1>7 DEF f, e, moved

-----------------------------------------------------------------------------
\* Those are one more than the messages, at least.
LEMMA CheckpointFacts ==
  ASSUME TypeInv, pc = "message", NEW status, NEW checkpoints, Checkpoints(status, checkpoints)
  PROVE  /\ checkpoints \in Seq(States) /\ Len(checkpoints) \in Nat
         /\ Len(checkpoints) >= Len(saved) /\ Len(checkpoints) >= Len(frames) + 1
         /\ \A k \in 1 .. Len(saved) : checkpoints[k] = saved[k]
<1>1. /\ saved \in Seq(States) /\ state \in States
      /\ Len(saved) \in Nat /\ Len(saved) >= Len(frames) + 1
      /\ Len(frames) \in Nat
  BY RunningFacts
<1>2. CASE checkpoints = saved
  BY <1>1, <1>2
<1>3. CASE checkpoints = Append(saved, state)
  <2>1. /\ checkpoints \in Seq(States) /\ Len(checkpoints) = Len(saved) + 1
        /\ \A k \in 1 .. Len(saved) : checkpoints[k] = saved[k]
    BY <1>1, <1>3
  <2> QED BY <1>1, <2>1
<1> QED BY <1>2, <1>3 DEF Checkpoints

\* The end of a message keeps the types.
LEMMA EndTyped ==
  ASSUME TypeInv, pc = "message", NEW status \in {"success", "revert", "exception"},
         NEW checkpoints, Checkpoints(status, checkpoints), EndWith(status, checkpoints)
  PROVE  TypeInv'
<1>1. /\ checkpoints \in Seq(States) /\ Len(checkpoints) \in Nat
      /\ Len(checkpoints) >= Len(frames) + 1
  BY CheckpointFacts
<1>2. /\ frames \in Seq(MessageFrames) /\ Len(frames) \in Nat \ {0} /\ setup \in Setups
      /\ relay \in Seq(OutgoingTransactions)
      /\ \A k \in 1 .. Len(frames) - 1 : frames[k].call \in Sending
  BY RunningFacts
<1>6. spent' \in [gas : Int, refund : Int]
  <2>1. Top.limit \in Int /\ Top.left \in Int /\ Top.refund \in Int
    <3>1. Top \in MessageFrames
      BY RunningFacts
    <3> QED BY <3>1, FrameParts
  <2>2. UsedGas(status) \in Int /\ Refunds(status) \in Int
    BY <2>1 DEF UsedGas, Refunds
  <2>3. spent' = spent \/ spent' = [gas |-> UsedGas(status), refund |-> Refunds(status)]
    BY <1>1, EndFacts
  <2> QED BY <2>2, <2>3 DEF TypeInv
<1>3. /\ setup' = setup /\ relay' = relay /\ known' \in SUBSET Contracts
      /\ state' \in States /\ saved' \in Seq(States)
      /\ Len(saved') = Len(checkpoints) - 1
  BY <1>1, EndFacts
<1>4. CASE Len(frames) = 1
  <2>1. frames' = <<>> /\ pc' = "paid"
    BY <1>1, <1>4, EndFacts
  <2>2. frames' \in Seq(MessageFrames) /\ Len(frames') = 0
    BY <2>1
  <2>3. Len(saved') >= Len(frames') + 1
    BY <1>1, <1>3, <1>4, <2>2
  <2> QED BY <1>2, <1>3, <1>6, <2>1, <2>2, <2>3 DEF TypeInv
<1>5. CASE Len(frames) # 1
  <2>1. /\ pc' = pc /\ frames' \in Seq(MessageFrames) /\ Len(frames') = Len(frames) - 1
        /\ \A k \in 1 .. Len(frames) - 2 : frames'[k] = frames[k]
    BY <1>1, <1>5, EndFacts
  <2>2. frames' # <<>>
    BY <1>2, <1>5, <2>1
  <2>3. Len(saved') >= Len(frames') + 1
    BY <1>1, <1>2, <1>3, <2>1
  <2>4. \A k \in 1 .. Len(frames') - 1 : frames'[k].call \in Sending
    BY <1>2, <2>1
  <2> QED BY <1>2, <1>3, <1>6, <2>1, <2>2, <2>3, <2>4 DEF TypeInv
<1> QED BY <1>4, <1>5

-----------------------------------------------------------------------------
\* What a step of a message may be.
LEMMA MessageSteps ==
  ASSUME TypeInv,
         \/ OutOfGas
         \/ \E status \in {"success", "revert", "exception"} : Finish(status)
         \/ \E ins \in setup.code :
               Observe(ins) \/ Log(ins) \/ Sstore(ins) \/ Call(ins) \/ StaticCall(ins)
  PROVE  \/ EndStep \/ LookStep
         \/ \E ins \in setup.code : Sstore(ins) /\ Top.left >= OpGas + StoreGas
         \/ \E ins \in setup.code : Call(ins)
<1>1. ASSUME pc = "message", NEW status \in {"success", "revert", "exception"}, End(status)
      PROVE  EndStep
  BY <1>1 DEF EndStep, End, Checkpoints
<1>2. CASE OutOfGas
  BY <1>1, <1>2 DEF OutOfGas
<1>3. CASE \E status \in {"success", "revert", "exception"} : Finish(status)
  BY <1>1, <1>3 DEF Finish
<1>4. ASSUME NEW ins \in setup.code, Observe(ins) PROVE LookStep
  BY <1>4, ObserveFacts DEF LookStep, Seen
<1>5. ASSUME NEW ins \in setup.code, Log(ins) PROVE LookStep
  <2> DEFINE r == Record("LOG", Zero, 0)
             g == [Top EXCEPT !.left = @ - OpGas, !.list = Append(@, r)]
  <2>1. r.op = "LOG"
    BY DEF Record
  <2>2. /\ Looked(g, r) /\ Continue(g) /\ pc = "message" /\ Top.left >= OpGas
        /\ UNCHANGED <<setup, pc, state, saved, relay, known, spent, witness>>
    BY <1>5, LogFacts
  <2> HIDE DEF r
  <2> QED BY <2>1, <2>2 DEF LookStep, Seen
<1>6. ASSUME NEW ins \in setup.code, StaticCall(ins) PROVE LookStep \/ EndStep
  <2>1. CASE ins.key = Precompile
    <3>1. pc = "message" /\ EndWith("exception", Append(saved, state)) /\ ins.op = "STATICCALL"
      BY <1>6, <2>1 DEF StaticCall, Executes
    <3>2. LeavesCheckpoint
      BY <2>1, <3>1 DEF LeavesCheckpoint
    <3> QED BY <3>1, <3>2 DEF EndStep, Checkpoints
  <2>2. CASE ins.key # Precompile
    BY <1>6, <2>2, StaticCallFacts DEF LookStep, Seen
  <2> QED BY <2>1, <2>2
<1>7. ASSUME NEW ins \in setup.code, Sstore(ins), ~(Top.left >= OpGas + StoreGas) PROVE EndStep
  <2>1. pc = "message"
    BY <1>7 DEF Sstore, Executes
  <2>2. Top.left < OpGas + StoreGas
    <3>1. Top \in MessageFrames
      BY <2>1, RunningFacts
    <3>2. Top.left \in Int /\ OpGas \in Int /\ StoreGas \in Int
      <4>1. Top.left \in Int
        BY <3>1, FrameParts
      <4>2. OpGas \in Int /\ StoreGas \in Int
        BY GasAssumption
      <4> QED BY <4>1, <4>2
    <3> QED BY <1>7, <3>2
  <2>3. End("exception")
    BY <1>7, <2>2 DEF Sstore
  <2> QED BY <1>1, <2>1, <2>3
<1> QED BY <1>2, <1>3, <1>4, <1>5, <1>6, <1>7

-----------------------------------------------------------------------------
\* A call is one of these.
LEMMA CallSteps ==
  ASSUME TypeInv, NEW ins \in setup.code, Call(ins)
  PROVE  /\ pc = "message" /\ Top.left >= OpGas /\ ins.op = "CALL"
         /\ RefusedStep(ins) \/ ExitStep(ins) \/ SendStep(ins)
<1>1. pc = "message" /\ Top.left >= OpGas /\ ins.op = "CALL"
  BY CallCases
<1>2. Caller(ins).self = Top.self
  BY <1>1, CallerFacts
<1> QED BY <1>1, <1>2, CallCases DEF RefusedStep, ExitStep, SendStep, Inner, Moved, NoCall

\* What a message that is sent changes.
LEMMA SendFacts ==
  ASSUME TypeInv, pc = "message", NEW ins \in setup.code, Top.left >= OpGas, ins.op = "CALL",
         SendStep(ins)
  PROVE  /\ state' \in States /\ state' = Moved(ins)
         /\ saved' \in Seq(States) /\ Len(saved') = Len(saved) + 1
         /\ saved'[Len(saved) + 1] = state
         /\ \A k \in 1 .. Len(saved) : saved'[k] = saved[k]
         /\ frames' \in Seq(MessageFrames) /\ Len(frames') = Len(frames) + 1
         /\ frames'[Len(frames)] = Caller(ins)
         /\ \A k \in 1 .. Len(frames) - 1 : frames'[k] = frames[k]
         /\ LET f == frames'[Len(frames) + 1] IN
            /\ f.self = ins.key /\ f.limit = Caller(ins).call.gas /\ f.left = f.limit
            /\ f.cached = state'.balance[ins.key] /\ f.list = <<>> /\ f.refund = 0
            /\ f.shared = {}
         /\ pc' = pc /\ setup' = setup /\ relay' = relay /\ known' = known /\ spent' = spent
<1> DEFINE f == Caller(ins)
           g == Inner(ins)
           n == Len(frames)
<1>1. /\ frames \in Seq(MessageFrames) /\ n \in Nat \ {0} /\ Top \in MessageFrames
      /\ setup \in Setups /\ state \in States /\ saved \in Seq(States) /\ Len(saved) \in Nat
  BY RunningFacts
<1>2. /\ f \in MessageFrames /\ f.self = Top.self /\ f.call.gas \in Int
  <2>1. /\ f \in MessageFrames /\ f.self = Top.self /\ f.call.gas \in Nat
    BY CallerFacts
  <2> QED BY <2>1
<1>3. /\ ins.key \in Contracts /\ ins.key \in Addresses /\ ins.value \in Int
      /\ Top.self \in Addresses
  <2>1. ins.key \in Contracts
    BY DEF SendStep
  <2>2. ins.value \in Nat
    BY <1>1, CodeFacts
  <2>3. Top.self \in Contracts
    BY <1>1, FrameParts
  <2> QED BY <2>1, <2>2, <2>3, AddressAssumption
<1>4. Debit(state, Top.self, ins.value) \in States
  BY <1>1, <1>3, DebitFacts
<1>5. Moved(ins) \in States
  BY <1>3, <1>4, AddTyped DEF Moved
<1>6. g = Frame(ins.key, f.call.gas, FALSE, Moved(ins), NoCall)
  BY <1>2 DEF Inner, Moved
<1> DEFINE gas == f.call.gas
           moved == Moved(ins)
<1>7. /\ g \in MessageFrames /\ g.self = ins.key /\ g.limit = gas
      /\ g.left = gas /\ g.cached = moved.balance[ins.key]
      /\ g.list = <<>> /\ g.refund = 0 /\ g.shared = {}
  <2>1. gas \in Int /\ moved \in States /\ ins.key \in Contracts
    BY <1>2, <1>3, <1>5
  <2>2. g = Frame(ins.key, gas, FALSE, moved, NoCall)
    BY <1>6
  <2> HIDE DEF g, gas, moved
  <2>3. Begun(g, ins.key, gas, moved)
    BY <2>1, <2>2, BeginTyped
  <2> QED BY <2>3 DEF Begun
<1>8. /\ state' = moved /\ saved' = Append(saved, state)
      /\ frames' = Append([frames EXCEPT ![n] = f], g)
      /\ pc' = pc /\ setup' = setup /\ relay' = relay /\ known' = known /\ spent' = spent
  BY DEF SendStep
<1>9. /\ saved' \in Seq(States) /\ Len(saved') = Len(saved) + 1
      /\ saved'[Len(saved) + 1] = state
      /\ \A k \in 1 .. Len(saved) : saved'[k] = saved[k]
  BY <1>1, <1>8
<1> DEFINE q == [frames EXCEPT ![n] = f]
<1>10. /\ q \in Seq(MessageFrames) /\ Len(q) = n /\ q[n] = f
       /\ \A k \in 1 .. n - 1 : q[k] = frames[k]
  <2> HIDE DEF f
  <2> QED BY <1>1, <1>2
<1>11. /\ frames' \in Seq(MessageFrames) /\ Len(frames') = n + 1
       /\ frames'[n + 1] = g /\ frames'[n] = f
       /\ \A k \in 1 .. n - 1 : frames'[k] = frames[k]
  <2>1. frames' = Append(q, g)
    BY <1>8
  <2> HIDE DEF q, g, f
  <2> QED BY <1>1, <1>7, <1>10, <2>1
<1>12. g.left = g.limit /\ g.cached = state'.balance[ins.key]
  <2> HIDE DEF g, moved, gas
  <2> QED BY <1>7, <1>8
<1> HIDE DEF f, g
<1> QED BY <1>5, <1>7, <1>8, <1>9, <1>11, <1>12 DEF f

-----------------------------------------------------------------------------
\* A refused call costs nothing but the instruction.
LEMMA RefusedFacts ==
  ASSUME TypeInv, pc = "message", NEW ins \in setup.code, Top.left >= OpGas, ins.op = "CALL"
  PROVE  LET g == Called(Caller(ins), state, FALSE) IN
         /\ CallOver(g, ins, state, 0, 0, FALSE)
         /\ g.shared = Top.shared \cup {Len(Top.list) + 1}
<1> DEFINE f == Caller(ins)
           g == Called(f, state, FALSE)
           r == CallRecord(f, state, FALSE)
<1>1. state \in States /\ Top \in MessageFrames
  BY RunningFacts
<1>2. /\ f \in MessageFrames /\ f.call \in Sending
      /\ f.call.to = ins.key /\ f.call.value = ins.value /\ f.call.data = ins.data
      /\ f.self = Top.self /\ f.limit = Top.limit /\ f.cached = Top.cached
      /\ f.list = Top.list /\ f.refund = Top.refund /\ f.shared = Top.shared
  BY CallerFacts
<1>3. f.left \in Int /\ Top.refund \in Int
  BY <1>1, <1>2, FrameParts
<1> HIDE DEF f
<1>4. /\ g \in MessageFrames /\ r \in Records /\ g.list = Append(f.list, r)
      /\ g.self = f.self /\ g.limit = f.limit /\ g.left = f.left /\ g.cached = f.cached
      /\ g.refund = f.refund /\ g.call = f.call
      /\ g.shared = f.shared \cup {Len(f.list) + 1}
  BY <1>1, <1>2, CalledFacts
<1>5. /\ r.op = "CALL" /\ r.key = ins.key /\ r.value = ins.value /\ r.root = state
      /\ r.gas = f.call.gas /\ r.success = FALSE /\ r.data = ins.data
  BY <1>2 DEF CallRecord
<1>6. f.left = f.left - 0 /\ Top.refund = Top.refund + 0
  BY <1>3
<1> HIDE DEF g, r
<1>7. CallOver(g, ins, state, 0, 0, FALSE)
  BY <1>2, <1>4, <1>5, <1>6 DEF CallOver, f
<1> QED BY <1>2, <1>4, <1>7 DEF f, g

\* A call that was made takes the gas and the refund of its message.
LEMMA ReturnedFacts ==
  ASSUME NEW f \in MessageFrames, f.call \in Sending, NEW s \in States, NEW used \in Int,
         NEW refund \in Int, NEW success \in BOOLEAN
  PROVE  LET b == baseCall(f, s, used, refund, success)
             g == Called(b, s, success)
             r == CallRecord(b, s, success) IN
         /\ g \in MessageFrames /\ g.self = f.self /\ g.limit = f.limit /\ g.call = f.call
         /\ g.left = f.left - used /\ g.refund = f.refund + refund
         /\ g.cached = IF success THEN s.balance[f.self] ELSE f.cached
         /\ g.shared = {Len(f.list) + 1}
         /\ r \in Records /\ g.list = Append(f.list, r)
         /\ r.op = "CALL" /\ r.key = f.call.to /\ r.value = f.call.value /\ r.root = s
         /\ r.gas = f.call.gas /\ r.success = success /\ r.data = f.call.data
<1> DEFINE b == baseCall(f, s, used, refund, success)
           g == Called(b, s, success)
           r == CallRecord(b, s, success)
<1>1. /\ b \in MessageFrames
      /\ b.self = f.self /\ b.limit = f.limit /\ b.left = f.left - used
      /\ b.cached = IF success THEN s.balance[f.self] ELSE f.cached
      /\ b.list = f.list /\ b.refund = f.refund + refund /\ b.shared = {} /\ b.call = f.call
  <2>1. TookOver(b, f, s, used, refund, success)
    BY BaseCallFacts
  <2> HIDE DEF b
  <2> QED BY <2>1 DEF TookOver
<1> HIDE DEF b
<1>2. /\ g \in MessageFrames /\ r \in Records /\ g.list = Append(b.list, r)
      /\ g.self = b.self /\ g.limit = b.limit /\ g.left = b.left /\ g.cached = b.cached
      /\ g.refund = b.refund /\ g.call = b.call
      /\ g.shared = b.shared \cup {Len(b.list) + 1}
  BY <1>1, CalledFacts
<1>3. /\ r.op = "CALL" /\ r.key = b.call.to /\ r.value = b.call.value /\ r.root = s
      /\ r.gas = b.call.gas /\ r.success = success /\ r.data = b.call.data
  BY DEF CallRecord
<1> HIDE DEF g, r
<1>4. {} \cup {Len(f.list) + 1} = {Len(f.list) + 1}
  OBVIOUS
<1> QED BY <1>1, <1>2, <1>3, <1>4 DEF b, g, r

\* An exit takes its gas whether or not it succeeds.
LEMMA ExitCallFacts ==
  ASSUME TypeInv, pc = "message", NEW ins \in setup.code, Top.left >= OpGas, ins.op = "CALL",
         ExitStep(ins)
  PROVE  LET f == Caller(ins)
             e == Exit(state, Top.self, ins.value, f.call.gas, FALSE, ins.data)
             success == e.status = "success" IN
         /\ \E g \in MessageFrames :
              /\ Continue(g) /\ CallOver(g, ins, e.state, f.call.gas, 0, success)
              /\ g.shared = {Len(Top.list) + 1}
         /\ f.cached >= ins.value /\ ins.key = Relay
         /\ state' = e.state /\ relay' = e.relay /\ known' = Cached(e.status)
         /\ state' \in States /\ relay' \in Seq(OutgoingTransactions) /\ known' \in SUBSET Contracts
         /\ UNCHANGED <<setup, pc, saved, spent, witness>>
<1> DEFINE f == Caller(ins)
           e == Exit(state, Top.self, ins.value, f.call.gas, FALSE, ins.data)
           success == e.status = "success"
           g == Called(baseCall(f, e.state, f.call.gas, 0, success), e.state, success)
<1>1. /\ state \in States /\ Top \in MessageFrames /\ setup \in Setups
      /\ relay \in Seq(OutgoingTransactions) /\ known \in SUBSET Contracts
  BY RunningFacts
<1>2. /\ f \in MessageFrames /\ f.call \in Sending
      /\ f.call.to = ins.key /\ f.call.value = ins.value /\ f.call.data = ins.data
      /\ f.self = Top.self /\ f.limit = Top.limit /\ f.cached = Top.cached
      /\ f.list = Top.list /\ f.refund = Top.refund /\ f.shared = Top.shared
      /\ f.call.gas \in Nat
  BY CallerFacts
<1>3. Top.self \in Addresses /\ ins.value \in Nat /\ ins.data \in Calldata
  <2>1. Top.self \in Contracts
    BY <1>1, FrameParts
  <2> QED BY <1>1, <2>1, CodeFacts, AddressAssumption
<1>4. f.call.gas \in Int /\ 0 \in Int
  BY <1>2
<1>5. e.state \in States /\ e.relay \in Seq(OutgoingTransactions)
  <2> HIDE DEF f
  <2> QED BY <1>1, <1>3, <1>4, ExitFacts
<1>6. success \in BOOLEAN
  OBVIOUS
<1>7. /\ f.cached >= ins.value /\ ins.key = Relay
      /\ state' = e.state /\ relay' = e.relay /\ known' = Cached(e.status)
      /\ Continue(g) /\ UNCHANGED <<setup, pc, saved, spent, witness>>
  <2> HIDE DEF f
  <2>1. f = Caller(ins)
    BY DEF f
  <2> QED BY <1>2, <2>1 DEF ExitStep
<1>8. known' \in SUBSET Contracts
  BY <1>1, <1>7 DEF Cached
<1> DEFINE s == e.state
           used == f.call.gas
           r == CallRecord(baseCall(f, s, used, 0, success), s, success)
<1>9. s \in States /\ used \in Int
  BY <1>4, <1>5
<1> HIDE DEF f, s, used, success
<1>10. /\ g \in MessageFrames /\ g.self = f.self /\ g.limit = f.limit /\ g.call = f.call
       /\ g.left = f.left - used /\ g.refund = f.refund + 0
       /\ g.cached = IF success THEN s.balance[f.self] ELSE f.cached
       /\ g.shared = {Len(f.list) + 1}
       /\ r \in Records /\ g.list = Append(f.list, r)
       /\ r.op = "CALL" /\ r.key = f.call.to /\ r.value = f.call.value /\ r.root = s
       /\ r.gas = f.call.gas /\ r.success = success /\ r.data = f.call.data
  <2>1. g = Called(baseCall(f, s, used, 0, success), s, success)
    BY DEF s, used
  <2> HIDE DEF g
  <2> QED BY <1>2, <1>4, <1>6, <1>9, <2>1, ReturnedFacts
<1> HIDE DEF g, r, e
<1>11. CallOver(g, ins, s, used, 0, success)
  BY <1>2, <1>10 DEF CallOver, f
<1> QED BY <1>2, <1>5, <1>7, <1>8, <1>10, <1>11 DEF f, e, s, used, success

-----------------------------------------------------------------------------
\* A look keeps the types.
LEMMA LookTyped == ASSUME TypeInv, LookStep PROVE TypeInv'
<1>1. PICK r : LET g == [Top EXCEPT !.left = @ - OpGas, !.list = Append(@, r)] IN
        /\ Looked(g, r) /\ Continue(g) /\ pc = "message"
        /\ UNCHANGED <<setup, pc, state, saved, relay, known, spent, witness>>
  BY DEF LookStep
<1> DEFINE g == [Top EXCEPT !.left = @ - OpGas, !.list = Append(@, r)]
<1>2. g \in MessageFrames
  BY <1>1 DEF Looked
<1>3. state' \in States /\ relay' \in Seq(OutgoingTransactions) /\ known' \in SUBSET Contracts
  BY <1>1, RunningFacts
<1> HIDE DEF g
<1> QED BY <1>1, <1>2, <1>3, ContinueTyped DEF g

\* So does an SSTORE.
LEMMA SstoreTyped ==
  ASSUME TypeInv, NEW ins \in setup.code, Sstore(ins), Top.left >= OpGas + StoreGas
  PROVE  TypeInv'
<1>1. PICK g \in MessageFrames :
        /\ Continue(g) /\ pc = "message" /\ state' \in States /\ known' \in SUBSET Contracts
        /\ UNCHANGED <<setup, pc, saved, relay, spent, witness>>
  BY SstoreFacts
<1>2. relay' \in Seq(OutgoingTransactions)
  BY <1>1, RunningFacts
<1> QED BY <1>1, <1>2, ContinueTyped

\* A message that is sent adds a frame and a checkpoint.
LEMMA SendTyped ==
  ASSUME TypeInv, pc = "message", NEW ins \in setup.code, Top.left >= OpGas, ins.op = "CALL",
         SendStep(ins)
  PROVE  TypeInv'
<1>1. /\ state' \in States /\ saved' \in Seq(States) /\ Len(saved') = Len(saved) + 1
      /\ frames' \in Seq(MessageFrames) /\ Len(frames') = Len(frames) + 1
      /\ frames'[Len(frames)] = Caller(ins)
      /\ \A k \in 1 .. Len(frames) - 1 : frames'[k] = frames[k]
      /\ pc' = pc /\ setup' = setup /\ relay' = relay /\ known' = known /\ spent' = spent
  BY SendFacts
<1>2. Caller(ins).call \in Sending
  BY CallerFacts
<1>3. /\ Len(frames) \in Nat \ {0} /\ Len(saved) \in Nat /\ Len(saved) >= Len(frames) + 1
      /\ \A k \in 1 .. Len(frames) - 1 : frames[k].call \in Sending
      /\ setup \in Setups /\ relay \in Seq(OutgoingTransactions) /\ known \in SUBSET Contracts
  BY RunningFacts
<1>4. \A k \in 1 .. Len(frames') - 1 : frames'[k].call \in Sending
  <2> TAKE k \in 1 .. Len(frames') - 1
  <2>1. k \in 1 .. Len(frames) - 1 \/ k = Len(frames)
    BY <1>1, <1>3
  <2> QED BY <1>1, <1>2, <1>3, <2>1
<1>5. /\ frames' # <<>> /\ Len(saved') >= Len(frames') + 1
      /\ spent \in [gas : Int, refund : Int]
  BY <1>1, <1>3 DEF TypeInv
<1> QED BY <1>1, <1>3, <1>4, <1>5 DEF TypeInv

\* Every call keeps the types.
LEMMA CallTyped == ASSUME TypeInv, NEW ins \in setup.code, Call(ins) PROVE TypeInv'
<1>1. /\ pc = "message" /\ Top.left >= OpGas /\ ins.op = "CALL"
      /\ RefusedStep(ins) \/ ExitStep(ins) \/ SendStep(ins)
  BY CallSteps
<1>2. CASE RefusedStep(ins)
  <2> DEFINE g == Called(Caller(ins), state, FALSE)
  <2>1. CallOver(g, ins, state, 0, 0, FALSE)
    BY <1>1, RefusedFacts
  <2>2. g \in MessageFrames
    BY <2>1 DEF CallOver
  <2>3. /\ Continue(g) /\ UNCHANGED <<setup, pc, state, saved, relay, known, spent>>
    BY <1>2 DEF RefusedStep
  <2>4. state' \in States /\ relay' \in Seq(OutgoingTransactions) /\ known' \in SUBSET Contracts
    BY <1>1, <2>3, RunningFacts
  <2> HIDE DEF g
  <2> QED BY <1>1, <2>2, <2>3, <2>4, ContinueTyped
<1>3. CASE ExitStep(ins)
  <2>1. /\ \E g \in MessageFrames : Continue(g)
        /\ state' \in States /\ relay' \in Seq(OutgoingTransactions) /\ known' \in SUBSET Contracts
        /\ UNCHANGED <<setup, pc, saved, spent>>
    BY <1>1, <1>3, ExitCallFacts
  <2> QED BY <1>1, <2>1, ContinueTyped
<1>4. CASE SendStep(ins)
  BY <1>1, <1>4, SendTyped
<1> QED BY <1>1, <1>2, <1>3, <1>4

\* The end of a message keeps them.
LEMMA EndStepTyped == ASSUME TypeInv, EndStep PROVE TypeInv'
BY EndTyped DEF EndStep

\* What is left when all is paid is a state.
LEMMA PayedTyped ==
  ASSUME setup \in Setups, state \in States, spent \in [gas : Int, refund : Int]
  PROVE  Payed \in States /\ Payed.exits = state.exits
<1> DEFINE used == spent.gas + getBaseFee(tx)
           paid == used - Lesser(spent.refund, used \div 2)
           back == (tx.gas - paid) * tx.price
           cost == paid * tx.price
           s == Credit(state, tx.from, back)
<1>1. /\ tx.from \in Addresses /\ setup.coinbase \in Addresses
      /\ tx.gas \in Nat /\ tx.price \in Nat /\ getBaseFee(tx) \in Nat
  BY SetupFacts
<1>2. used \in Int /\ spent.refund \in Int
  BY <1>1
<1>3. paid \in Int
  <2>1. used \div 2 \in Int
    <3> HIDE DEF used
    <3> QED BY <1>2
  <2> HIDE DEF used
  <2> QED BY <1>2, <2>1 DEF Lesser
<1>4. back \in Int /\ cost \in Int
  <2> HIDE DEF paid
  <2> QED BY <1>1, <1>3
<1>5. Payed = IF tx.incoming THEN state ELSE Credit(s, setup.coinbase, cost)
  BY DEF Payed
<1> HIDE DEF back, cost
<1>6. s \in States /\ s.exits = state.exits
  BY <1>1, <1>4, CreditFacts
<1>7. /\ Credit(s, setup.coinbase, cost) \in States
      /\ Credit(s, setup.coinbase, cost).exits = s.exits
  <2> HIDE DEF s
  <2> QED BY <1>1, <1>4, <1>6, CreditFacts
<1> HIDE DEF s
<1> QED BY <1>5, <1>6, <1>7

\* The steps before and after the message keep them.
LEMMA OuterTyped ==
  ASSUME TypeInv, executeExitCall \/ executeTransfer \/ executeCall \/ EndTx
  PROVE  TypeInv'
<1>0. /\ setup \in Setups /\ state \in States /\ saved \in Seq(States)
      /\ relay \in Seq(OutgoingTransactions) /\ known \in SUBSET Contracts
      /\ frames \in Seq(MessageFrames) /\ pc = "message" <=> frames # <<>>
      /\ pc # "done" => Len(saved) >= Len(frames) + 1
      /\ spent \in [gas : Int, refund : Int]
  BY DEF TypeInv
<1>1. /\ Charged \in States /\ Entered \in States
      /\ tx.from \in Addresses /\ tx.to \in Addresses /\ setup.coinbase \in Addresses
      /\ tx.value \in Nat /\ tx.gas \in Nat /\ tx.price \in Nat
      /\ Available \in Nat /\ tx.data \in Calldata
  BY <1>0, SetupFacts, EnteredTyped DEF Calldata
<1>2. pc # "message" => frames = <<>>
  BY <1>0
<1>3. CASE executeExitCall
  <2> DEFINE e == Exit(Charged, tx.from, tx.value, Available, FALSE, tx.data)
  <2>1. e.state \in States /\ e.relay \in Seq(OutgoingTransactions)
    <3>1. Available \in Int
      BY <1>1
    <3> QED BY <1>0, <1>1, <3>1, ExitFacts
  <2>2. /\ pc = "tx" /\ state' = e.state /\ relay' = e.relay /\ known' = Cached(e.status)
        /\ pc' = "paid" /\ UNCHANGED <<setup, saved, frames>>
        /\ spent' = [gas |-> Available, refund |-> 0]
    BY <1>3 DEF executeExitCall
  <2>3. known' \in SUBSET Contracts
    BY <1>0, <2>2 DEF Cached
  <2>4. spent' \in [gas : Int, refund : Int]
    BY <1>1, <2>2
  <2> HIDE DEF e
  <2> QED BY <1>0, <1>2, <2>1, <2>2, <2>3, <2>4 DEF TypeInv
<1>4. CASE executeTransfer
  BY <1>0, <1>1, <1>2, <1>4 DEF executeTransfer, TypeInv
<1>5. CASE executeCall
  <2> DEFINE f == Frame(tx.to, Available, FALSE, Entered, NoCall)
  <2>1. /\ pc = "tx" /\ tx.to \in Contracts /\ pc' = "message" /\ saved' = Append(saved, Charged)
        /\ state' = Entered /\ frames' = <<f>> /\ UNCHANGED <<setup, relay, known, spent>>
    BY <1>5 DEF executeCall, NoCall
  <2>2. f \in MessageFrames
    <3>1. Available \in Int
      BY <1>1
    <3> QED BY <1>1, <2>1, <3>1, BeginTyped DEF Begun
  <2> HIDE DEF f
  <2>3. saved' \in Seq(States) /\ Len(saved') = Len(saved) + 1 /\ Len(saved) \in Nat
    BY <1>0, <1>1, <2>1
  <2>4. frames' \in Seq(MessageFrames) /\ frames' # <<>> /\ Len(frames') = 1
    BY <2>1, <2>2
  <2>5. Len(saved) >= 1
    BY <1>0, <1>2, <2>1, <2>3
  <2> QED BY <1>0, <1>1, <2>1, <2>3, <2>4, <2>5 DEF TypeInv
<1>6. CASE EndTx
  <2>1. pc = "paid" /\ state' = Payed /\ saved' = Front(saved) /\ pc' = "done"
        /\ UNCHANGED <<setup, relay, known, frames, spent>>
    BY <1>6 DEF EndTx
  <2>2. Len(saved) # 0
    BY <1>0, <1>2, <2>1
  <2>3. saved' \in Seq(States)
    BY <1>0, <2>1, <2>2, FrontFacts
  <2>4. Payed \in States
    BY <1>0, PayedTyped
  <2> QED BY <1>0, <1>2, <2>1, <2>3, <2>4 DEF TypeInv
<1> QED BY <1>3, <1>4, <1>5, <1>6

-----------------------------------------------------------------------------
\* Execution begins in a state of the setup.
LEMMA InitTyped == AuditInit => TypeInv
<1> SUFFICES ASSUME AuditInit PROVE TypeInv
  OBVIOUS
<1>1. setup \in Setups /\ before \in States /\ setup.known \in SUBSET Contracts
  BY SetupFacts DEF AuditInit, Init
<1>2. before.exits \in Seq(OutgoingTransactions)
  BY <1>1, StateParts
<1>3. /\ pc = "tx" /\ state = before /\ saved = <<before>> /\ relay = before.exits
      /\ known = setup.known /\ frames = <<>> /\ spent = [gas |-> 0, refund |-> 0]
  BY DEF AuditInit, Init, before
<1>4. frames \in Seq(MessageFrames) /\ Len(frames) = 0 /\ saved \in Seq(States) /\ Len(saved) = 1
  BY <1>1, <1>3
<1> QED BY <1>1, <1>2, <1>3, <1>4 DEF TypeInv

\* The auditor reads the execution and does not change it.
LEMMA AuditReads == Audit => UNCHANGED execution
BY DEF Audit, auditWitness, checkWitnessInputData, checkGasLimit, checkRefund,
       checkTransactionRootFailure, checkInputRoot, checkOutputRoot, checkTransactionRootSuccess,
       exitCallCheck, checkObserved, skipRecord, checkSstore, checkCall, checkStaticCall,
       endOfList, Check, CheckRecord

\* A step is one of the message, one around it, or one that leaves the execution alone.
LEMMA StepCases ==
  ASSUME TypeInv, [Next]_<<execution, claim, audit>>
  PROVE  \/ UNCHANGED execution
         \/ executeExitCall \/ executeTransfer \/ executeCall \/ EndTx
         \/ EndStep \/ LookStep
         \/ \E ins \in setup.code : Sstore(ins) /\ Top.left >= OpGas + StoreGas
         \/ \E ins \in setup.code : Call(ins)
BY AuditReads, MessageSteps DEF Next, Execute, execution

\* No step leaves the types.
LEMMA NextTyped == TypeInv /\ [Next]_<<execution, claim, audit>> => TypeInv'
<1> SUFFICES ASSUME TypeInv, [Next]_<<execution, claim, audit>> PROVE TypeInv'
  OBVIOUS
<1>1. CASE UNCHANGED execution
  BY <1>1 DEF TypeInv, execution
<1> QED BY <1>1, StepCases, OuterTyped, EndStepTyped, LookTyped, SstoreTyped, CallTyped

\* The types are an invariant.
THEOREM Types == Spec => []TypeInv
BY InitTyped, NextTyped, PTL DEF Spec

-----------------------------------------------------------------------------
\* A step of the innermost message that keeps its copy current.
LEMMA ContinueCurrent ==
  ASSUME TypeInv, Current, pc = "message", NEW f \in MessageFrames, Continue(f), TypeInv',
         f.self = Top.self, UNCHANGED <<pc, saved>>,
         Top.cached = state.balance[Top.self] => f.cached = state'.balance[Top.self]
  PROVE  Current'
<1>1. /\ frames \in Seq(MessageFrames) /\ frames # <<>> /\ Len(frames) \in Nat \ {0}
  BY RunningFacts
<1>2. /\ frames' \in Seq(MessageFrames) /\ frames' # <<>>
      /\ Len(frames') = Len(frames) /\ frames'[Len(frames)] = f
      /\ \A k \in 1 .. Len(frames) - 1 : frames'[k] = frames[k]
  BY <1>1, ContinueFacts
<1>3. Top' = f
  BY <1>2 DEF Top, Last
<1> QED BY <1>1, <1>2, <1>3 DEF Current

\* The copy is renewed with what the end of a message leaves.
LEMMA EndCurrent ==
  ASSUME TypeInv, Current, TypeInv', EndStep
  PROVE  Current'
<1>1. PICK status \in {"success", "revert", "exception"} : \E checkpoints :
        pc = "message" /\ Checkpoints(status, checkpoints) /\ EndWith(status, checkpoints)
  BY DEF EndStep
<1>2. PICK checkpoints :
        pc = "message" /\ Checkpoints(status, checkpoints) /\ EndWith(status, checkpoints)
  BY <1>1
<1> DEFINE n == Len(frames)
           success == status = "success"
           f == frames[n - 1]
           g == Called(baseCall(f, state', UsedGas(status), Refunds(status), success),
                       state', success)
<1> SUFFICES ASSUME pc' = "message", Len(saved') = Len(frames') + 1
             PROVE  /\ Top'.cached = state'.balance[Top'.self]
                    /\ \A k \in 1 .. Len(frames') - 1 :
                          frames'[k].cached = saved'[k + 2].balance[frames'[k].self]
  BY DEF Current
<1>3. /\ checkpoints \in Seq(States) /\ Len(checkpoints) \in Nat
      /\ Len(checkpoints) >= n + 1 /\ Len(checkpoints) >= Len(saved)
      /\ \A k \in 1 .. Len(saved) : checkpoints[k] = saved[k]
  BY <1>2, CheckpointFacts
<1>4. /\ frames \in Seq(MessageFrames) /\ n \in Nat \ {0} /\ Top = frames[n]
      /\ Top \in MessageFrames /\ Len(saved) \in Nat /\ Len(saved) >= n + 1
      /\ \A k \in 1 .. n - 1 : frames[k].call \in Sending
  BY <1>2, RunningFacts
<1>5. n # 1
  BY <1>2, <1>3, EndFacts
<1>6. /\ state' = IF success THEN state ELSE checkpoints[Len(checkpoints)]
      /\ Len(saved') = Len(checkpoints) - 1 /\ state' \in States
      /\ \A k \in 1 .. Len(checkpoints) - 1 : saved'[k] = checkpoints[k]
      /\ frames' \in Seq(MessageFrames) /\ Len(frames') = n - 1
      /\ \A k \in 1 .. n - 2 : frames'[k] = frames[k]
      /\ frames'[n - 1] = g
  BY <1>2, <1>3, <1>5, EndFacts
<1>7. Len(checkpoints) = n + 1 /\ Len(saved) = n + 1
  BY <1>3, <1>4, <1>6
<1>8. /\ Top.cached = state.balance[Top.self]
      /\ \A k \in 1 .. n - 1 : frames[k].cached = saved[k + 2].balance[frames[k].self]
  BY <1>2, <1>7 DEF Current
<1>9. Top' = g
  <2>1. Top' = frames'[Len(frames')]
    BY <1>4, <1>5, <1>6 DEF Top, Last
  <2> HIDE DEF g
  <2> QED BY <1>6, <2>1
<1>10. g.self = f.self /\ g.cached = IF success THEN state'.balance[f.self] ELSE f.cached
  <2>1. UsedGas(status) \in Int /\ Refunds(status) \in Int
    <3>1. Top.limit \in Int /\ Top.left \in Int /\ Top.refund \in Int
      BY <1>4, FrameParts
    <3> QED BY <3>1 DEF UsedGas, Refunds
  <2>2. f \in MessageFrames /\ f.call \in Sending
    <3>1. n - 1 \in 1 .. n - 1 /\ n - 1 \in 1 .. n
      <4>1. n \in Nat \ {0}
        BY <1>4
      <4> HIDE DEF n
      <4> QED BY <1>5, <4>1
    <3> QED BY <1>4, <3>1
  <2>3. success \in BOOLEAN
    OBVIOUS
  <2> HIDE DEF f, success
  <2> QED BY <1>6, <2>1, <2>2, <2>3, ReturnedFacts
<1>11. g.cached = state'.balance[g.self]
  <2>1. CASE success
    BY <1>10, <2>1
  <2>2. CASE ~success
    <3>1. state' = saved[n + 1] /\ n - 1 \in 1 .. n - 1 /\ (n - 1) + 2 = n + 1
      BY <1>3, <1>4, <1>5, <1>6, <1>7, <2>2
    <3>2. f.cached = saved[n + 1].balance[f.self]
      BY <1>8, <3>1
    <3> HIDE DEF g, f
    <3> QED BY <1>10, <2>2, <3>1, <3>2
  <2> QED BY <2>1, <2>2
<1>12. ASSUME NEW k \in 1 .. Len(frames') - 1
       PROVE  frames'[k].cached = saved'[k + 2].balance[frames'[k].self]
  <2>1. k \in 1 .. n - 2 /\ k \in 1 .. n - 1 /\ k + 2 \in 1 .. Len(checkpoints) - 1
        /\ k + 2 \in 1 .. Len(saved)
    BY <1>4, <1>6, <1>7
  <2> QED BY <1>3, <1>6, <1>8, <2>1
<1> HIDE DEF g
<1> QED BY <1>9, <1>11, <1>12

\* So does a call.
LEMMA CallCurrent ==
  ASSUME TypeInv, Current, TypeInv', NEW ins \in setup.code, Call(ins)
  PROVE  Current'
<1>1. /\ pc = "message" /\ Top.left >= OpGas /\ ins.op = "CALL"
      /\ RefusedStep(ins) \/ ExitStep(ins) \/ SendStep(ins)
  BY CallSteps
<1>2. CASE RefusedStep(ins)
  <2> DEFINE g == Called(Caller(ins), state, FALSE)
  <2>1. CallOver(g, ins, state, 0, 0, FALSE)
    BY <1>1, RefusedFacts
  <2>2. g \in MessageFrames /\ g.self = Top.self /\ g.cached = Top.cached
    BY <2>1 DEF CallOver
  <2>3. Continue(g) /\ UNCHANGED <<pc, state, saved>>
    BY <1>2 DEF RefusedStep
  <2> HIDE DEF g
  <2> QED BY <1>1, <2>2, <2>3, ContinueCurrent
<1>3. CASE ExitStep(ins)
  <2> DEFINE f == Caller(ins)
             e == Exit(state, Top.self, ins.value, f.call.gas, FALSE, ins.data)
             success == e.status = "success"
  <2>1. PICK g \in MessageFrames :
          Continue(g) /\ CallOver(g, ins, e.state, f.call.gas, 0, success)
    BY <1>1, <1>3, ExitCallFacts
  <2>2. state' = e.state /\ UNCHANGED <<pc, saved>>
    BY <1>1, <1>3, ExitCallFacts
  <2>3. e.status # "success" => e.state = state /\ e.relay = relay
    <3>1. f.call.gas \in Int
      <4>1. f.call.gas \in Nat
        BY <1>1, CallerFacts
      <4> QED BY <4>1
    <3>2. Top.self \in Addresses /\ ins.value \in Nat /\ ins.data \in Calldata
      <4>1. Top.self \in Contracts /\ setup \in Setups
        BY <1>1, RunningFacts, FrameParts
      <4> QED BY <4>1, CodeFacts, AddressAssumption
    <3>3. state \in States /\ relay \in Seq(OutgoingTransactions)
      BY <1>1, RunningFacts
    <3> DEFINE gas == f.call.gas
               a == Top.self
    <3>4. gas \in Int /\ a \in Addresses
      BY <3>1, <3>2
    <3> HIDE DEF gas, a
    <3>5. LET u == Exit(state, a, ins.value, gas, FALSE, ins.data)
          IN u.status # "success" => u.state = state /\ u.relay = relay
      BY <3>2, <3>3, <3>4, FailedExit
    <3> QED BY <3>5 DEF gas, a
  <2>4. /\ g.self = Top.self
        /\ g.cached = IF success THEN e.state.balance[Top.self] ELSE Top.cached
    <3> HIDE DEF e, f, success
    <3> QED BY <2>1 DEF CallOver
  <2>5. Top.cached = state.balance[Top.self] => g.cached = state'.balance[Top.self]
    <3> HIDE DEF e
    <3> QED BY <2>2, <2>3, <2>4
  <2> QED BY <1>1, <2>1, <2>2, <2>4, <2>5, ContinueCurrent
<1>4. CASE SendStep(ins)
  <2>1. /\ state' = Moved(ins) /\ Len(saved') = Len(saved) + 1
        /\ saved'[Len(saved) + 1] = state
        /\ \A k \in 1 .. Len(saved) : saved'[k] = saved[k]
        /\ frames' \in Seq(MessageFrames) /\ Len(frames') = Len(frames) + 1
        /\ frames'[Len(frames)] = Caller(ins)
        /\ \A k \in 1 .. Len(frames) - 1 : frames'[k] = frames[k]
        /\ frames'[Len(frames) + 1].self = ins.key
        /\ frames'[Len(frames) + 1].cached = state'.balance[ins.key]
    BY <1>1, <1>4, SendFacts
  <2>2. Caller(ins).self = Top.self /\ Caller(ins).cached = Top.cached
    BY <1>1, CallerFacts
  <2>3. Len(frames) \in Nat \ {0} /\ Len(saved) \in Nat
    BY <1>1, RunningFacts
  <2>4. Top' = frames'[Len(frames) + 1]
    BY <2>1 DEF Top, Last
  <2> SUFFICES ASSUME Len(saved') = Len(frames') + 1
               PROVE  \A k \in 1 .. Len(frames') - 1 :
                        frames'[k].cached = saved'[k + 2].balance[frames'[k].self]
    BY <2>1, <2>4 DEF Current
  <2>5. Len(saved) = Len(frames) + 1
    BY <2>1, <2>3
  <2>6. /\ Top.cached = state.balance[Top.self]
        /\ \A k \in 1 .. Len(frames) - 1 : frames[k].cached = saved[k + 2].balance[frames[k].self]
    BY <1>1, <2>5 DEF Current
  <2> TAKE k \in 1 .. Len(frames') - 1
  <2>7. CASE k = Len(frames)
    <3>1. k + 2 = Len(saved) + 1
      BY <2>3, <2>5, <2>7
    <3> QED BY <2>1, <2>2, <2>6, <2>7, <3>1
  <2>8. CASE k # Len(frames)
    <3>1. k \in 1 .. Len(frames) - 1 /\ k + 2 \in 1 .. Len(saved)
      BY <2>1, <2>3, <2>5, <2>8
    <3> QED BY <2>1, <2>6, <3>1
  <2> QED BY <2>7, <2>8
<1> QED BY <1>1, <1>2, <1>3, <1>4

\* No step leaves a copy behind.
LEMMA NextCurrent ==
  ASSUME TypeInv, Current, TypeInv', [Next]_<<execution, claim, audit>>
  PROVE  Current'
<1>1. CASE UNCHANGED execution
  BY <1>1 DEF Current, execution, Top
<1>2. CASE executeExitCall \/ executeTransfer \/ EndTx
  BY <1>2 DEF executeExitCall, executeTransfer, EndTx, Current
<1>3. CASE executeCall
  <2> DEFINE f == Frame(tx.to, Available, FALSE, Entered, NoCall)
  <2>1. tx.to \in Contracts /\ state' = Entered /\ frames' = <<f>>
    BY <1>3 DEF executeCall, NoCall
  <2>2. Available \in Int /\ Entered \in States
    BY SetupFacts, EnteredTyped DEF TypeInv
  <2>3. f.self = tx.to /\ f.cached = Entered.balance[tx.to]
    <3>1. Begun(f, tx.to, Available, Entered)
      BY <2>1, <2>2, BeginTyped
    <3> QED BY <3>1 DEF Begun
  <2> HIDE DEF f
  <2>4. Top' = f /\ Len(frames') = 1
    BY <2>1 DEF Top, Last
  <2> QED BY <2>1, <2>3, <2>4 DEF Current
<1>4. CASE LookStep
  <2>1. PICK r : LET g == [Top EXCEPT !.left = @ - OpGas, !.list = Append(@, r)] IN
          /\ Looked(g, r) /\ Continue(g) /\ pc = "message"
          /\ UNCHANGED <<setup, pc, state, saved, relay, known, spent, witness>>
    BY <1>4 DEF LookStep
  <2> DEFINE g == [Top EXCEPT !.left = @ - OpGas, !.list = Append(@, r)]
  <2>2. g \in MessageFrames /\ g.self = Top.self /\ g.cached = Top.cached
    BY <2>1 DEF Looked
  <2>3. Continue(g) /\ pc = "message" /\ UNCHANGED <<pc, state, saved>>
    BY <2>1
  <2> HIDE DEF g
  <2> QED BY <2>2, <2>3, ContinueCurrent
<1>5. ASSUME NEW ins \in setup.code, Sstore(ins), Top.left >= OpGas + StoreGas PROVE Current'
  <2>1. PICK g \in MessageFrames :
          /\ Continue(g) /\ pc = "message"
          /\ g.self = Top.self /\ g.cached = state'.balance[Top.self] /\ UNCHANGED <<pc, saved>>
    BY <1>5, SstoreFacts
  <2> QED BY <2>1, ContinueCurrent
<1> QED BY <1>1, <1>2, <1>3, <1>4, <1>5, StepCases, EndCurrent, CallCurrent

\* The copy of its balance that a contract reads is up to date unless a
\* precompile took a checkpoint (evm.ts: executeMessage and baseCall of eei.ts).
THEOREM BalanceIsCurrent == Spec => []SelfBalanceIsCurrent
<1>1. AuditInit => TypeInv /\ Current
  <2>1. AuditInit => pc # "message"
    BY DEF AuditInit, Init
  <2> QED BY <2>1, InitTyped DEF Current
<1>2. TypeInv /\ Current /\ [Next]_<<execution, claim, audit>> => (TypeInv /\ Current)'
  BY NextTyped, NextCurrent
<1>3. TypeInv /\ Current => SelfBalanceIsCurrent
  BY DEF TypeInv, Current, SelfBalanceIsCurrent
<1> QED BY <1>1, <1>2, <1>3, PTL DEF Spec

-----------------------------------------------------------------------------
\* A set of numbers that is not empty has a least one.
LEMMA Least ==
  ASSUME NEW T \in SUBSET Nat, T # {}
  PROVE  \E m \in T : \A n \in T : m <= n
<1>1. IsWellFoundedOn(Before, Nat)
  BY NatLessThanWellFounded DEF Before
<1>2. \A m, n \in Nat : m < n => <<m, n>> \in Before
  BY DEF Before, OpToRel
<1>3. \E m \in T : \A n \in T : ~ (<<n, m>> \in Before)
  BY <1>1, WFMin
<1>4. \A m, n \in T : ~ (n < m) => m <= n
  OBVIOUS
<1> QED BY <1>2, <1>3, <1>4

\* A set of numbers up to n that is not empty has a greatest one.
LEMMA Greatest ==
  ASSUME NEW n \in Nat, NEW T \in SUBSET (1 .. n), T # {}
  PROVE  Max(T) \in T /\ \A x \in T : x <= Max(T)
<1> DEFINE U == {n - x : x \in T}
<1>0. \A x \in T : x \in Int /\ x <= n /\ n - x \in Nat
  OBVIOUS
<1>1. U \in SUBSET Nat /\ U # {}
  BY <1>0
<1>2. PICK m \in U : \A y \in U : m <= y
  BY <1>1, Least
<1>3. PICK x \in T : m = n - x
  BY <1>2
<1>4. \A y \in T : x >= y
  <2> TAKE y \in T
  <2>1. n - y \in U
    OBVIOUS
  <2>2. n - x <= n - y
    BY <1>2, <1>3, <2>1
  <2> QED BY <1>0, <2>2
<1>5. \E z \in T : \A y \in T : z >= y
  BY <1>4
<1>6. Max(T) \in T /\ \A y \in T : Max(T) >= y
  BY <1>5 DEF Max
<1> HIDE DEF U
<1> QED BY <1>0, <1>6

\* The greatest number of a set is its only one of that kind.
LEMMA MaxIs ==
  ASSUME NEW n \in Nat, NEW T \in SUBSET (1 .. n), NEW m \in T, \A x \in T : x <= m
  PROVE  Max(T) = m
<1>1. Max(T) \in T /\ \A x \in T : x <= Max(T)
  BY Greatest
<1>2. Max(T) <= m /\ m <= Max(T)
  BY <1>1
<1>3. \A x \in T : x \in Int
  OBVIOUS
<1>4. Max(T) \in Int /\ m \in Int
  BY <1>1, <1>3
<1> QED BY <1>2, <1>4

-----------------------------------------------------------------------------
\* The root before a record is that of the last record before it that has one.
LEMMA RootOf ==
  ASSUME NEW list \in Seq(Records), NEW i \in Int
  PROVE  \/ Changes(list, i) = {} /\ RootBefore(list, i) = Entered
         \/ \E m \in Changes(list, i) : /\ m \in 1 .. Len(list) /\ m < i
                                        /\ RootBefore(list, i) = list[m].root
<1>1. Len(list) \in Nat /\ DOMAIN list = 1 .. Len(list)
  OBVIOUS
<1>2. Changes(list, i) \in SUBSET (1 .. Len(list))
  BY <1>1 DEF Changes
<1>3. CASE Changes(list, i) # {}
  <2>1. Max(Changes(list, i)) \in Changes(list, i)
    BY <1>1, <1>2, <1>3, Greatest
  <2> QED BY <1>2, <1>3, <2>1 DEF RootBefore, Changes
<1> QED BY <1>3 DEF RootBefore

\* It stays when a record is added, and is what that one says, if it has a root.
LEMMA RootGrows ==
  ASSUME NEW list, NEW more, NEW r, Longer(list, more, r)
  PROVE  /\ \A i \in 1 .. Len(list) + 1 : RootBefore(more, i) = RootBefore(list, i)
         /\ RootBefore(more, Len(more) + 1)
              = IF r.op \in ChangesState THEN r.root ELSE RootBefore(list, Len(list) + 1)
<1> DEFINE n == Len(list)
<1>1. /\ n \in Nat /\ DOMAIN list = 1 .. n /\ DOMAIN more = 1 .. n + 1 /\ Len(more) = n + 1
      /\ more[n + 1] = r /\ list \in Seq(Records)
      /\ \A j \in 1 .. n : more[j].op = list[j].op /\ more[j].root = list[j].root
  BY DEF Longer
<1> HIDE DEF n
<1>2. ASSUME NEW i \in 1 .. n + 1
      PROVE  Changes(more, i) = Changes(list, i) /\ RootBefore(more, i) = RootBefore(list, i)
  <2>1. \A j \in 1 .. n + 1 : j < i => j \in 1 .. n
    BY <1>1
  <2>2. Changes(more, i) = Changes(list, i)
    BY <1>1, <2>1 DEF Changes
  <2>3. CASE Changes(list, i) = {}
    BY <2>2, <2>3 DEF RootBefore
  <2>4. CASE Changes(list, i) # {}
    <3>1. Max(Changes(list, i)) \in 1 .. n
      <4>1. Changes(list, i) \in SUBSET (1 .. n)
        BY <1>1 DEF Changes
      <4> QED BY <1>1, <2>4, <4>1, Greatest
    <3> QED BY <1>1, <2>2, <2>4, <3>1 DEF RootBefore
  <2> QED BY <2>2, <2>3, <2>4
<1>3. CASE r.op \in ChangesState
  <2> DEFINE T == Changes(more, n + 2)
  <2>1. T \in SUBSET (1 .. n + 1) /\ n + 1 \in T /\ n + 1 \in Nat /\ \A x \in T : x <= n + 1
    BY <1>1, <1>3 DEF Changes
  <2> HIDE DEF T
  <2>2. Max(T) = n + 1
    BY <2>1, MaxIs
  <2>3. RootBefore(more, n + 2) = more[n + 1].root
    BY <2>1, <2>2 DEF RootBefore, T
  <2> QED BY <1>1, <1>2, <1>3, <2>3 DEF n
<1>4. CASE r.op \notin ChangesState
  <2>1. Changes(more, n + 2) = Changes(more, n + 1)
    BY <1>1, <1>4 DEF Changes
  <2>2. RootBefore(more, n + 2) = RootBefore(more, n + 1)
    BY <2>1 DEF RootBefore
  <2>3. RootBefore(more, n + 1) = RootBefore(list, n + 1)
    BY <1>1, <1>2
  <2> QED BY <1>1, <1>2, <1>4, <2>2, <2>3 DEF n
<1> QED BY <1>2, <1>3, <1>4 DEF n

\* The messages before a record stay as well, and a new one joins them.
LEMMA MessagesGrow ==
  ASSUME NEW list, NEW more, NEW r, Longer(list, more, r)
  PROVE  /\ \A i \in 1 .. Len(list) + 1 :
              Messages(more, i) = Messages(list, i) /\ Failed(more, i) = Failed(list, i)
         /\ Messages(list, Len(list) + 1) \subseteq Messages(more, Len(more) + 1)
         /\ Failed(list, Len(list) + 1) \subseteq Failed(more, Len(more) + 1)
         /\ r.op = "CALL" /\ r.key \in Contracts =>
              /\ Messages(more, Len(more) + 1) # {}
              /\ ~r.success => Failed(more, Len(more) + 1) # {}
         /\ ~(r.op = "CALL" /\ r.key \in Contracts) =>
              /\ Messages(more, Len(more) + 1) = Messages(list, Len(list) + 1)
              /\ Failed(more, Len(more) + 1) = Failed(list, Len(list) + 1)
<1> DEFINE n == Len(list)
<1>1. /\ n \in Nat /\ Len(more) = n + 1 /\ more[n + 1] = r
      /\ \A j \in 1 .. n : /\ more[j].op = list[j].op /\ more[j].key = list[j].key
                           /\ more[j].success = list[j].success
  BY DEF Longer
<1> HIDE DEF n
<1>2. ASSUME NEW i \in 1 .. n + 1
      PROVE  Messages(more, i) = Messages(list, i) /\ Failed(more, i) = Failed(list, i)
  <2>1. 1 .. (i - 1) \subseteq 1 .. n
    BY <1>1
  <2>2. Messages(more, i) = Messages(list, i) /\ Messages(list, i) \subseteq 1 .. n
    BY <1>1, <2>1 DEF Messages
  <2> QED BY <1>1, <2>2 DEF Failed
<1>3. 1 .. (n + 2 - 1) = (1 .. (n + 1 - 1)) \cup {n + 1}
  BY <1>1
<1>4. 1 .. (n + 1 - 1) = 1 .. n
  BY <1>1
<1>5. Messages(more, n + 2) = Messages(list, n + 1)
        \cup (IF r.op = "CALL" /\ r.key \in Contracts THEN {n + 1} ELSE {})
  BY <1>1, <1>3, <1>4 DEF Messages
<1>6. Messages(list, n + 1) \subseteq 1 .. n
  BY <1>1, <1>4 DEF Messages
<1>7. Failed(list, n + 1) \subseteq Failed(more, n + 2)
  BY <1>1, <1>5, <1>6 DEF Failed
<1>8. r.op = "CALL" /\ r.key \in Contracts /\ ~r.success => n + 1 \in Failed(more, n + 2)
  BY <1>1, <1>5 DEF Failed
<1>9. ~(r.op = "CALL" /\ r.key \in Contracts) => Failed(more, n + 2) = Failed(list, n + 1)
  BY <1>1, <1>5, <1>6 DEF Failed
<1>10. Len(more) + 1 = n + 2
  BY <1>1
<1> QED BY <1>2, <1>5, <1>7, <1>8, <1>9, <1>10 DEF n

\* So do those of them that left a trace.
LEMMA TracesGrow ==
  ASSUME NEW list, NEW more, NEW r, Longer(list, more, r)
  PROVE  /\ \A i \in 1 .. Len(list) + 1 : Traces(more, i) = Traces(list, i)
         /\ Traces(list, Len(list) + 1) \subseteq Traces(more, Len(more) + 1)
         /\ r.op = "CALL" /\ r.key \in Contracts /\ ~r.success
              /\ r.root # RootBefore(list, Len(list) + 1) => Traces(more, Len(more) + 1) # {}
<1> DEFINE n == Len(list)
<1>1. /\ n \in Nat /\ Len(more) = n + 1 /\ more[n + 1] = r
      /\ \A j \in 1 .. n : more[j].root = list[j].root
  BY DEF Longer
<1>2. /\ \A i \in 1 .. n + 1 : Failed(more, i) = Failed(list, i)
      /\ \A i \in 1 .. n + 1 : RootBefore(more, i) = RootBefore(list, i)
      /\ Failed(list, n + 1) \subseteq Failed(more, n + 2)
  BY <1>1, MessagesGrow, RootGrows
<1>3. \A i \in 1 .. n + 1 : Failed(list, i) \subseteq 1 .. n
  BY <1>1 DEF Failed, Messages
<1> HIDE DEF n
<1>4. ASSUME NEW i \in 1 .. n + 1 PROVE Traces(more, i) = Traces(list, i)
  <2>1. \A j \in Failed(list, i) : more[j].root = list[j].root /\ RootBefore(more, j) = RootBefore(list, j)
    BY <1>1, <1>2, <1>3
  <2> QED BY <1>2, <2>1 DEF Traces
<1>5. Traces(list, n + 1) \subseteq Traces(more, n + 2)
  <2>1. \A j \in Failed(list, n + 1) :
          more[j].root = list[j].root /\ RootBefore(more, j) = RootBefore(list, j)
    BY <1>1, <1>2, <1>3
  <2> QED BY <1>2, <2>1 DEF Traces
<1>6. ASSUME r.op = "CALL", r.key \in Contracts, ~r.success, r.root # RootBefore(list, n + 1)
      PROVE  n + 1 \in Traces(more, n + 2)
  <2>1. n + 1 \in 1 .. (n + 2 - 1) /\ n + 1 \in 1 .. n + 1
    BY <1>1
  <2>2. n + 1 \in Failed(more, n + 2)
    BY <1>1, <1>6, <2>1 DEF Failed, Messages
  <2>3. RootBefore(more, n + 1) = RootBefore(list, n + 1)
    BY <1>2, <2>1
  <2> QED BY <1>1, <1>6, <2>2, <2>3 DEF Traces
<1>7. Len(more) + 1 = n + 2
  BY <1>1
<1> QED BY <1>4, <1>5, <1>6, <1>7 DEF n

-----------------------------------------------------------------------------
\* The state after the storage of a contract is written.
LEMMA WrittenFacts ==
  ASSUME NEW s \in States, NEW a \in Contracts, NEW storage \in [Slots -> Leaves]
  PROVE  LET u == Put([s EXCEPT !.storage[a] = storage], a) IN
         /\ u \in States /\ u.balance = s.balance /\ u.nonce = s.nonce
         /\ u.stored = s.stored \cup {a} /\ u.exits = s.exits
         /\ u.storage = [s.storage EXCEPT ![a] = storage] /\ u.storage[a] = storage
<1> DEFINE t == [s.storage EXCEPT ![a] = storage]
           v == [s EXCEPT !.storage = t]
<1>1. a \in Addresses
  BY AddressAssumption
<1>2. s.storage \in [Contracts -> [Slots -> Leaves]]
  BY StateParts
<1>3. t \in [Contracts -> [Slots -> Leaves]] /\ t[a] = storage
  BY <1>2
<1>4. [s EXCEPT !.storage[a] = storage] = v
  OBVIOUS
<1> HIDE DEF t
<1>5. /\ v \in States /\ v.balance = s.balance /\ v.nonce = s.nonce
      /\ v.stored = s.stored /\ v.storage = t /\ v.exits = s.exits
  BY <1>3, ReplacedPart
<1> HIDE DEF v
<1>6. /\ Put(v, a) \in States /\ Put(v, a).balance = s.balance /\ Put(v, a).nonce = s.nonce
      /\ Put(v, a).stored = s.stored \cup {a} /\ Put(v, a).exits = s.exits
      /\ Put(v, a).storage = t
  BY <1>1, <1>5, PutFacts
<1> QED BY <1>3, <1>4, <1>6 DEF t

\* A new leaf is a leaf.
LEMMA LeafTyped ==
  ASSUME NEW v \in Nat
  PROVE  NewLeaf(v) \in Leaves /\ Short(v) \in Leaves /\ NoLeaf \in Leaves
BY GasAssumption DEF NewLeaf, NoLeaf, Short, Word, Leaves

-----------------------------------------------------------------------------
\* Refunds are numbers.
LEMMA PartTyped ==
  ASSUME NEW list \in Seq(Records), NEW n \in 1 .. Len(list)
  PROVE  RefundIn(list[n]) \in Int
<1>1. list[n] \in Records
  OBVIOUS
<1>2. list[n].refund \in Int
  BY <1>1 DEF Records
<1> QED BY <1>2 DEF RefundIn

\* A list has sums: their least missing one would follow one that is there.
LEMMA RefundsExist ==
  ASSUME NEW list \in Seq(Records), NEW k \in 0 .. Len(list)
  PROVE  \E F : AreRefunds(F, list, k)
<1> DEFINE Bad == {n \in 0 .. Len(list) : ~ \E F : AreRefunds(F, list, n)}
<1>1. Bad = {}
  <2> SUFFICES ASSUME Bad # {} PROVE FALSE
    OBVIOUS
  <2>1. Len(list) \in Nat /\ Bad \in SUBSET Nat
    OBVIOUS
  <2>2. PICK n \in Bad : \A m \in Bad : n <= m
    BY <2>1, Least
  <2>3. n \in Nat /\ n <= Len(list) /\ ~ \E F : AreRefunds(F, list, n)
    BY <2>2
  <2>4. CASE n = 0
    <3>1. AreRefunds([m \in 0 .. 0 |-> 0], list, 0)
      BY DEF AreRefunds
    <3> QED BY <2>3, <2>4, <3>1
  <2>5. CASE n # 0
    <3>1. n - 1 \in 0 .. Len(list) /\ ~ (n <= n - 1) /\ n \in 1 .. Len(list)
      BY <2>1, <2>3, <2>5
    <3>2. n - 1 \notin Bad
      BY <2>2, <3>1
    <3>3. PICK F : AreRefunds(F, list, n - 1)
      BY <3>1, <3>2
    <3> DEFINE p == RefundIn(list[n])
               G == [m \in 0 .. n |-> IF m = n THEN F[n - 1] + p ELSE F[m]]
    <3>4. p \in Int /\ F[n - 1] \in Int
      BY <2>3, <3>1, <3>3, PartTyped DEF AreRefunds
    <3> HIDE DEF p
    <3>5. G \in [0 .. n -> Int] /\ G[0] = 0
      BY <2>3, <2>5, <3>3, <3>4 DEF AreRefunds
    <3>6. ASSUME NEW m \in 1 .. n PROVE G[m] = G[m - 1] + RefundIn(list[m])
      <4>1. CASE m = n
        BY <2>3, <2>5, <4>1 DEF p
      <4>2. CASE m # n
        <5>1. m \in 1 .. n - 1 /\ m \in 0 .. n /\ m - 1 \in 0 .. n /\ m - 1 # n
          BY <2>3, <4>2
        <5> QED BY <3>3, <4>2, <5>1 DEF AreRefunds
      <4> QED BY <4>1, <4>2
    <3>7. AreRefunds(G, list, n)
      BY <3>5, <3>6 DEF AreRefunds
    <3> QED BY <2>3, <3>7
  <2> QED BY <2>4, <2>5
<1> QED BY <1>1

\* The recursive function that RefundsUpTo names exists, and holds the sums.
LEMMA RefundsAre ==
  ASSUME NEW list \in Seq(Records)
  PROVE  AreRefunds(RefundsUpTo(list), list, Len(list))
<1> DEFINE Step(f) == [n \in 0 .. Len(list) |-> IF n = 0 THEN 0 ELSE f[n - 1] + RefundIn(list[n])]
           G == RefundsUpTo(list)
<1>1. Len(list) \in Nat
  OBVIOUS
<1>2. G = CHOOSE f : f = Step(f)
  BY DEF RefundsUpTo, RefundIn
<1>3. \E f : f = Step(f)
  <2>1. PICK F : AreRefunds(F, list, Len(list))
    BY <1>1, RefundsExist
  <2>2. \A n \in 0 .. Len(list) : F[n] = Step(F)[n]
    BY <1>1, <2>1 DEF AreRefunds
  <2>3. F = Step(F)
    BY <2>1, <2>2 DEF AreRefunds
  <2> QED BY <2>3
<1> HIDE DEF G
<1>4. G = Step(G)
  BY <1>2, <1>3
<1>5. /\ DOMAIN G = 0 .. Len(list) /\ G = [n \in 0 .. Len(list) |-> G[n]]
      /\ \A n \in 0 .. Len(list) : G[n] = IF n = 0 THEN 0 ELSE G[n - 1] + RefundIn(list[n])
  BY <1>4
<1>6. \A n \in 0 .. Len(list) : G[n] \in Int
  <2> DEFINE Bad == {n \in 0 .. Len(list) : G[n] \notin Int}
  <2> SUFFICES ASSUME Bad # {} PROVE FALSE
    OBVIOUS
  <2>1. Bad \in SUBSET Nat
    BY <1>1
  <2>2. PICK n \in Bad : \A m \in Bad : n <= m
    BY <2>1, Least
  <2>3. G[0] = 0
    BY <1>1, <1>5
  <2>4. n \in Nat /\ n # 0 /\ n \in 1 .. Len(list)
    <3>1. n \in 0 .. Len(list) /\ G[n] \notin Int
      BY <2>2
    <3>2. n # 0
      BY <2>3, <3>1
    <3> QED BY <1>1, <3>1, <3>2
  <2>5. n - 1 \in 0 .. Len(list) /\ ~ (n <= n - 1)
    BY <2>4
  <2>6. G[n - 1] \in Int /\ RefundIn(list[n]) \in Int
    BY <2>2, <2>4, <2>5, PartTyped
  <2>7. G[n] = G[n - 1] + RefundIn(list[n])
    BY <1>5, <2>2, <2>4
  <2>8. G[n] \in Int
    BY ONLY <2>6, <2>7
  <2> QED BY <2>2, <2>8
<1>7. G \in [0 .. Len(list) -> Int] /\ G[0] = 0
  BY <1>1, <1>5, <1>6
<1>8. \A n \in 1 .. Len(list) : n \in 0 .. Len(list) /\ n # 0
  BY <1>1
<1>9. \A n \in 1 .. Len(list) : G[n] = G[n - 1] + RefundIn(list[n])
  BY <1>5, <1>8
<1> QED BY <1>7, <1>9 DEF AreRefunds, G

\* Whatever satisfies the equations of the sums is the sums.
LEMMA RefundIsLast ==
  ASSUME NEW list \in Seq(Records), NEW F, AreRefunds(F, list, Len(list))
  PROVE  RefundOf(list) = F[Len(list)]
<1> DEFINE G == RefundsUpTo(list)
           Bad == {n \in 0 .. Len(list) : G[n] # F[n]}
<1>1. Len(list) \in Nat /\ AreRefunds(G, list, Len(list))
  BY RefundsAre
<1> HIDE DEF G
<1>2. Bad = {}
  <2> SUFFICES ASSUME Bad # {} PROVE FALSE
    OBVIOUS
  <2>1. Bad \in SUBSET Nat
    BY <1>1
  <2>2. PICK n \in Bad : \A m \in Bad : n <= m
    BY <2>1, Least
  <2>3. n \in Nat /\ n # 0 /\ n \in 1 .. Len(list)
    BY <1>1 DEF AreRefunds
  <2>4. n - 1 \in 0 .. Len(list) /\ ~ (n <= n - 1)
    BY <2>3
  <2>5. G[n - 1] = F[n - 1]
    BY <2>2, <2>4
  <2> QED BY <1>1, <2>3, <2>5 DEF AreRefunds
<1> QED BY <1>1, <1>2 DEF G, RefundOf

\* One more record adds its refund.
LEMMA RefundGrows ==
  ASSUME NEW list, NEW more, NEW r, Longer(list, more, r)
  PROVE  RefundOf(list) \in Int /\ RefundOf(more) = RefundOf(list) + RefundIn(r)
<1> DEFINE F == RefundsUpTo(more)
           n == Len(list)
<1>1. /\ list \in Seq(Records) /\ more \in Seq(Records) /\ n \in Nat /\ Len(more) = n + 1
      /\ more[n + 1] = r
  BY DEF Longer
<1>2. AreRefunds(F, more, n + 1)
  BY <1>1, RefundsAre
<1> HIDE DEF F
<1> DEFINE G == [m \in 0 .. n |-> F[m]]
<1>3. \A m \in 0 .. n : F[m] \in Int
  BY <1>1, <1>2 DEF AreRefunds
<1>4. \A m \in 1 .. n : RefundIn(more[m]) = RefundIn(list[m])
  BY DEF Longer, RefundIn
<1>5. \A m \in 1 .. n : m \in 1 .. n + 1 /\ m \in 0 .. n /\ m - 1 \in 0 .. n
  BY <1>1
<1>6. G \in [0 .. n -> Int] /\ \A m \in 0 .. n : G[m] = F[m]
  BY <1>3
<1>7. G[0] = 0
  BY <1>1, <1>2, <1>6 DEF AreRefunds
<1>8. \A m \in 1 .. n : F[m] = F[m - 1] + RefundIn(list[m])
  BY <1>2, <1>4, <1>5 DEF AreRefunds
<1> HIDE DEF G
<1>9. AreRefunds(G, list, n)
  BY <1>5, <1>6, <1>7, <1>8 DEF AreRefunds
<1>10. RefundOf(list) = G[n]
  BY <1>1, <1>9, RefundIsLast
<1>11. n \in 0 .. n /\ n + 1 \in 1 .. n + 1 /\ n + 1 - 1 = n
  BY <1>1
<1>12. F[n + 1] = F[n] + RefundIn(more[n + 1])
  BY <1>2, <1>11 DEF AreRefunds
<1>13. RefundOf(more) = F[n + 1]
  BY <1>1 DEF RefundOf, F
<1> HIDE DEF n
<1> QED BY <1>1, <1>3, <1>6, <1>10, <1>11, <1>12, <1>13

\* A list without refunds adds up to nothing.
LEMMA NoRefunds ==
  ASSUME NEW list \in Seq(Records), \A i \in 1 .. Len(list) : RefundIn(list[i]) = 0
  PROVE  RefundOf(list) = 0
<1> DEFINE F == [m \in 0 .. Len(list) |-> 0]
<1>1. Len(list) \in Nat
  OBVIOUS
<1>2. \A n \in 1 .. Len(list) : n \in 0 .. Len(list) /\ n - 1 \in 0 .. Len(list)
  BY <1>1
<1>3. AreRefunds(F, list, Len(list))
  BY <1>1, <1>2 DEF AreRefunds
<1>4. RefundOf(list) = F[Len(list)]
  BY <1>3, RefundIsLast
<1> QED BY <1>1, <1>4

-----------------------------------------------------------------------------
\* What is good of the records of a list stays so when it grows.
LEMMA GoodGrows ==
  ASSUME NEW list, NEW more, NEW r, Longer(list, more, r), GoodList(list),
         GoodRecord(r, Prior(list), AllSent(list), AllTraces(list))
  PROVE  GoodList(more)
<1> DEFINE n == Len(list)
<1>1. /\ n \in Nat /\ Len(more) = n + 1 /\ more[n + 1] = r
  BY DEF Longer
<1>2. /\ \A i \in 1 .. n + 1 : RootBefore(more, i) = RootBefore(list, i)
      /\ \A i \in 1 .. n + 1 : Messages(more, i) = Messages(list, i) /\ Traces(more, i) = Traces(list, i)
  BY RootGrows, MessagesGrow, TracesGrow
<1> SUFFICES ASSUME NEW i \in 1 .. n + 1
             PROVE  GoodRecord(more[i], RootBefore(list, i), Messages(list, i), Traces(list, i))
  BY <1>1, <1>2 DEF GoodList
<1>3. CASE i = n + 1
  BY <1>1, <1>3 DEF Prior, AllSent, AllTraces
<1>4. CASE i # n + 1
  <2>1. i \in 1 .. Len(list)
    BY <1>1, <1>4
  <2> DEFINE q == list[i]
             p == more[i]
             s == RootBefore(list, i)
             sent == Messages(list, i)
             failed == Traces(list, i)
  <2>2. GoodRecord(q, s, sent, failed)
    BY <2>1 DEF GoodList
  <2>3. /\ p.op = q.op /\ p.key = q.key /\ p.value = q.value /\ p.root = q.root
        /\ p.gas = q.gas /\ p.success = q.success /\ p.data = q.data
        /\ q.op # "CALL" => p.refund = q.refund
    BY <2>1 DEF Longer
  <2> HIDE DEF p, q, s, sent, failed
  <2>4. GoodLook(p, s, failed)
    BY <2>2, <2>3 DEF GoodRecord, GoodLook
  <2>5. GoodStore(p, s)
    BY <2>2, <2>3 DEF GoodRecord, GoodStore
  <2>6. GoodCall(p, s, sent, failed)
    BY <2>2, <2>3 DEF GoodRecord, GoodCall
  <2> QED BY <2>4, <2>5, <2>6 DEF GoodRecord, p, s, sent, failed
<1> QED BY <1>3, <1>4

\* What a record says where few messages left a trace it says where more did.
LEMMA MoreFailed ==
  ASSUME NEW r, NEW s, NEW sent, NEW failed, NEW more, failed \subseteq more,
         GoodRecord(r, s, sent, failed)
  PROVE  GoodRecord(r, s, sent, more)
<1>1. GoodLook(r, s, more)
  BY DEF GoodRecord, GoodLook
<1>2. GoodCall(r, s, sent, more)
  BY DEF GoodRecord, GoodCall
<1> QED BY <1>1, <1>2 DEF GoodRecord

\* A list without records is good.
LEMMA EmptyList ==
  /\ GoodList(<<>>) /\ Prior(<<>>) = Entered /\ RefundOf(<<>>) = 0
  /\ AllSent(<<>>) = {} /\ AllFailed(<<>>) = {} /\ AllTraces(<<>>) = {}
<1>1. <<>> \in Seq(Records) /\ Len(<<>>) = 0 /\ 1 .. 0 = {} /\ DOMAIN <<>> = {}
  OBVIOUS
<1>2. GoodList(<<>>) /\ Changes(<<>>, 1) = {} /\ Messages(<<>>, 1) = {}
  BY <1>1 DEF GoodList, Changes, Messages
<1>3. RefundOf(<<>>) = 0
  BY <1>1, NoRefunds
<1> QED BY <1>1, <1>2, <1>3 DEF Prior, RootBefore, AllSent, AllFailed, AllTraces, Failed, Traces

-----------------------------------------------------------------------------
\* No step changes the transaction.
LEMMA SetupStays ==
  ASSUME TypeInv, [Next]_<<execution, claim, audit>>
  PROVE  setup' = setup
<1>1. CASE UNCHANGED execution
  BY <1>1 DEF execution
<1>2. CASE executeExitCall \/ executeTransfer \/ executeCall \/ EndTx
  BY <1>2 DEF executeExitCall, executeTransfer, executeCall, EndTx
<1>3. CASE EndStep
  BY <1>3 DEF EndStep, EndWith
<1>4. CASE LookStep
  BY <1>4 DEF LookStep
<1>5. ASSUME NEW ins \in setup.code, Sstore(ins), Top.left >= OpGas + StoreGas
      PROVE  setup' = setup
  BY <1>5, SstoreFacts
<1>6. ASSUME NEW ins \in setup.code, Call(ins) PROVE setup' = setup
  BY <1>6, CallSteps DEF RefusedStep, ExitStep, SendStep
<1> QED BY <1>1, <1>2, <1>3, <1>4, <1>5, <1>6, StepCases

\* What the invariants take from it stays.
LEMMA Fixed ==
  ASSUME setup' = setup
  PROVE  /\ tx' = tx /\ before' = before /\ Available' = Available
         /\ Charged' = Charged /\ Entered' = Entered
         /\ LeavesCheckpoint' = LeavesCheckpoint /\ origin' = origin
<1>1. tx' = tx /\ before' = before
  BY DEF tx, before
<1>2. Available' = Available
  BY <1>1 DEF Available
<1>3. Charged' = Charged
  BY <1>1 DEF Charged
<1>4. Entered' = Entered
  BY <1>1, <1>3 DEF Entered
<1>5. LeavesCheckpoint' = LeavesCheckpoint
  BY DEF LeavesCheckpoint
<1>6. origin' = origin
  BY <1>1 DEF origin
<1> QED BY <1>1, <1>2, <1>3, <1>4, <1>5, <1>6

\* So does what they say of a list of records.
LEMMA FixedPrior ==
  ASSUME setup' = setup, NEW list, NEW i
  PROVE  RootBefore(list, i)' = RootBefore(list, i)
BY Fixed DEF RootBefore

\* So do the messages that left a trace.
LEMMA FixedTraces ==
  ASSUME setup' = setup, NEW list
  PROVE  /\ \A i : Traces(list, i)' = Traces(list, i)
         /\ AllTraces(list)' = AllTraces(list)
<1>1. \A j : RootBefore(list, j)' = RootBefore(list, j)
  BY FixedPrior
<1>2. ASSUME NEW i PROVE Traces(list, i)' = Traces(list, i)
  BY <1>1 DEF Traces
<1> QED BY <1>2 DEF AllTraces

\* And of the record that follows it.
LEMMA FixedRecord ==
  ASSUME setup' = setup, NEW r, NEW s, NEW sent, NEW failed
  PROVE  GoodRecord(r, s, sent, failed)' <=> GoodRecord(r, s, sent, failed)
<1>1. tx' = tx /\ LeavesCheckpoint' = LeavesCheckpoint
  BY Fixed
<1>2. GoodLook(r, s, failed)' <=> GoodLook(r, s, failed)
  BY <1>1 DEF GoodLook
<1>3. GoodStore(r, s)' <=> GoodStore(r, s)
  BY <1>1 DEF GoodStore, Stored
<1>4. GoodCall(r, s, sent, failed)' <=> GoodCall(r, s, sent, failed)
  BY <1>1 DEF GoodCall
<1> QED BY <1>2, <1>3, <1>4 DEF GoodRecord

\* And of all of them.
LEMMA FixedList ==
  ASSUME setup' = setup, NEW list
  PROVE  (GoodList(list)' <=> GoodList(list)) /\ Prior(list)' = Prior(list)
<1>1. Prior(list)' = Prior(list)
  BY FixedPrior DEF Prior
<1>2. \A i \in 1 .. Len(list) : RootBefore(list, i)' = RootBefore(list, i)
  BY FixedPrior
<1>3. GoodList(list)' <=> GoodList(list)
  BY <1>2, FixedRecord, FixedTraces DEF GoodList
<1> QED BY <1>1, <1>3

-----------------------------------------------------------------------------
\* The gas of the innermost message lies between nothing and its limit.
LEMMA TopGas ==
  ASSUME TypeInv, GasInv, pc = "message"
  PROVE  Top.left \in Int /\ Top.limit \in Int /\ 0 <= Top.left /\ Top.left <= Top.limit
<1>1. Len(frames) \in Nat \ {0} /\ Top = frames[Len(frames)] /\ Top \in MessageFrames
  BY RunningFacts
<1>2. Len(frames) \in 1 .. Len(frames)
  BY <1>1
<1> QED BY <1>1, <1>2, FrameParts DEF GasInv

\* An instruction takes some of it.
LEMMA ContinueGas ==
  ASSUME TypeInv, GasInv, pc = "message", NEW f \in MessageFrames, Continue(f), setup' = setup,
         f.limit = Top.limit, 0 <= f.left, f.left <= Top.left
  PROVE  GasInv'
<1> DEFINE n == Len(frames)
<1>1. /\ frames \in Seq(MessageFrames) /\ frames # <<>> /\ n \in Nat \ {0} /\ Top = frames[n]
  BY RunningFacts
<1>2. /\ frames' \in Seq(MessageFrames) /\ frames' # <<>> /\ Len(frames') = n /\ frames'[n] = f
      /\ \A k \in 1 .. n - 1 : frames'[k] = frames[k]
  BY <1>1, ContinueFacts
<1>3. Top.left \in Int /\ Top.limit \in Int /\ Top.left <= Top.limit /\ f.left \in Int
  BY TopGas, FrameParts
<1>4. f.left <= f.limit
  BY <1>3
<1>5. \A k \in 1 .. n : k = n \/ k \in 1 .. n - 1
  BY <1>1
<1>6. \A k \in 1 .. n : 0 <= frames'[k].left /\ frames'[k].left <= frames'[k].limit
  BY <1>2, <1>4, <1>5 DEF GasInv
<1>7. \A k \in 1 .. n : frames'[k].limit = frames[k].limit
  BY <1>1, <1>2, <1>5
<1>8. \A k \in 1 .. n - 1 : k + 1 \in 1 .. n
  BY <1>1
<1>9. \A k \in 1 .. n - 1 :
        /\ 0 <= frames'[k].call.gas /\ frames'[k].call.gas <= frames'[k].left
        /\ frames'[k + 1].limit = frames'[k].call.gas
  BY <1>2, <1>7, <1>8 DEF GasInv
<1>10. frames'[1].limit = Available'
  <2>1. 1 \in 1 .. n
    BY <1>1
  <2> QED BY <1>1, <1>7, <2>1, Fixed DEF GasInv
<1> QED BY <1>2, <1>6, <1>9, <1>10 DEF GasInv

\* A message that ends has used no more than its limit.
LEMMA EndGas ==
  ASSUME TypeInv, GasInv, EndStep, setup' = setup
  PROVE  GasInv'
<1>1. PICK status \in {"success", "revert", "exception"} : \E checkpoints :
        pc = "message" /\ Checkpoints(status, checkpoints) /\ EndWith(status, checkpoints)
  BY DEF EndStep
<1>2. PICK checkpoints :
        pc = "message" /\ Checkpoints(status, checkpoints) /\ EndWith(status, checkpoints)
  BY <1>1
<1> DEFINE n == Len(frames)
           success == status = "success"
           f == frames[n - 1]
           used == UsedGas(status)
           refund == Refunds(status)
           g == Called(baseCall(f, state', used, refund, success), state', success)
<1>3. /\ checkpoints \in Seq(States) /\ Len(checkpoints) >= n + 1
  BY <1>2, CheckpointFacts
<1>4. /\ frames \in Seq(MessageFrames) /\ n \in Nat \ {0} /\ Top = frames[n]
      /\ Top \in MessageFrames
      /\ \A k \in 1 .. n - 1 : frames[k].call \in Sending
  BY <1>2, RunningFacts
<1>5. CASE n = 1
  <2>1. frames' = <<>>
    BY <1>2, <1>3, <1>5, EndFacts
  <2>2. Len(frames') = 0
    BY <2>1
  <2> QED BY <2>1, <2>2 DEF GasInv
<1>6. CASE n # 1
  <2>1. /\ state' \in States /\ frames' \in Seq(MessageFrames) /\ Len(frames') = n - 1
        /\ \A k \in 1 .. n - 2 : frames'[k] = frames[k]
        /\ frames'[n - 1] = g
    BY <1>2, <1>3, <1>6, EndFacts
  <2>2. used \in Int /\ refund \in Int /\ 0 <= used /\ used <= Top.limit
    <3>1. Top.limit \in Int /\ Top.left \in Int /\ Top.refund \in Int
      BY <1>4, FrameParts
    <3>2. 0 <= Top.left /\ Top.left <= Top.limit
      BY <1>2, TopGas
    <3> QED BY <3>1, <3>2 DEF UsedGas, Refunds
  <2>3. n - 1 \in 1 .. n - 1 /\ n - 1 \in 1 .. n /\ (n - 1) + 1 = n
    <3> HIDE DEF n
    <3> QED BY <1>4, <1>6
  <2>4. f \in MessageFrames /\ f.call \in Sending
    BY <1>4, <2>3
  <2>5. success \in BOOLEAN
    OBVIOUS
  <2>6. g.limit = f.limit /\ g.left = f.left - used
    <3> HIDE DEF f, success, used, refund
    <3> QED BY <2>1, <2>2, <2>4, <2>5, ReturnedFacts
  <2>7. /\ 0 <= f.left /\ f.left <= f.limit
        /\ 0 <= f.call.gas /\ f.call.gas <= f.left /\ Top.limit = f.call.gas
    BY <1>4, <2>3 DEF GasInv
  <2>8. f.left \in Int /\ f.limit \in Int /\ f.call.gas \in Int
    <3>1. f.left \in Int /\ f.limit \in Int
      BY <2>4, FrameParts
    <3> QED BY <2>4, <3>1 DEF Sending
  <2>9. 0 <= g.left /\ g.left <= g.limit
    <3> HIDE DEF f, g, used
    <3> QED BY <2>2, <2>6, <2>7, <2>8
  <2> HIDE DEF g, used, refund
  <2>10. \A k \in 1 .. n - 1 : k = n - 1 \/ k \in 1 .. n - 2
    BY <1>4
  <2>11. \A k \in 1 .. n - 1 : frames'[k].limit = frames[k].limit
    BY <2>1, <2>6, <2>10
  <2>12. \A k \in 1 .. n - 1 : 0 <= frames'[k].left /\ frames'[k].left <= frames'[k].limit
    <3>1. \A k \in 1 .. n - 2 : k \in 1 .. n
      BY <1>4
    <3> QED BY <2>1, <2>9, <2>10, <3>1 DEF GasInv
  <2>13. \A k \in 1 .. n - 2 :
           /\ 0 <= frames'[k].call.gas /\ frames'[k].call.gas <= frames'[k].left
           /\ frames'[k + 1].limit = frames'[k].call.gas
    <3>1. \A k \in 1 .. n - 2 : k \in 1 .. n - 1 /\ k + 1 \in 1 .. n - 1
      BY <1>4
    <3> QED BY <2>1, <2>11, <3>1 DEF GasInv
  <2>14. frames'[1].limit = Available'
    <3>1. 1 \in 1 .. n - 1
      <4> HIDE DEF n
      <4> QED BY <1>4, <1>6
    <3>2. frames # <<>>
      BY <1>2, RunningFacts
    <3> QED BY <2>11, <3>1, <3>2, Fixed DEF GasInv
  <2>15. Len(frames') - 1 = n - 2
    BY <1>4, <2>1
  <2> HIDE DEF n
  <2> QED BY <2>1, <2>12, <2>13, <2>14, <2>15 DEF GasInv
<1> QED BY <1>5, <1>6

\* A call sends no more gas than its caller has.
LEMMA CallGas ==
  ASSUME TypeInv, GasInv, NEW ins \in setup.code, Call(ins), setup' = setup
  PROVE  GasInv'
<1>1. /\ pc = "message" /\ Top.left >= OpGas /\ ins.op = "CALL"
      /\ RefusedStep(ins) \/ ExitStep(ins) \/ SendStep(ins)
  BY CallSteps
<1> DEFINE f == Caller(ins)
           n == Len(frames)
<1>2. /\ f.call.gas \in Nat /\ f.call.gas <= f.left /\ f.left = Top.left - OpGas
      /\ f.left \in Nat /\ f.limit = Top.limit
  BY <1>1, CallerFacts
<1>3. Top.left \in Int /\ Top.limit \in Int /\ Top.left <= Top.limit /\ OpGas \in Nat
  BY <1>1, TopGas, GasAssumption
<1>4. 0 <= f.left /\ f.left <= Top.left
  <2> HIDE DEF f
  <2> QED BY <1>2, <1>3
<1>5. CASE RefusedStep(ins)
  <2> DEFINE g == Called(f, state, FALSE)
  <2>1. CallOver(g, ins, state, 0, 0, FALSE)
    BY <1>1, RefusedFacts
  <2>2. Continue(g)
    BY <1>5 DEF RefusedStep
  <2> HIDE DEF g
  <2>3. g \in MessageFrames /\ g.limit = Top.limit /\ g.left = f.left - 0
    BY <2>1 DEF CallOver
  <2> HIDE DEF f
  <2>4. g.left = f.left
    BY <1>2, <2>3
  <2> QED BY <1>1, <1>4, <2>2, <2>3, <2>4, ContinueGas
<1>6. CASE ExitStep(ins)
  <2> DEFINE gas == f.call.gas
             e == Exit(state, Top.self, ins.value, gas, FALSE, ins.data)
  <2>1. PICK g \in MessageFrames :
          Continue(g) /\ CallOver(g, ins, e.state, gas, 0, e.status = "success")
    BY <1>1, <1>6, ExitCallFacts
  <2>2. g.limit = Top.limit /\ g.left = f.left - gas
    <3> HIDE DEF e, gas
    <3> QED BY <2>1 DEF CallOver
  <2>3. 0 <= g.left /\ g.left <= Top.left
    <3> DEFINE left == f.left
    <3>1. gas \in Nat /\ gas <= left /\ left \in Nat /\ left <= Top.left
      BY <1>2, <1>4
    <3> HIDE DEF f, gas, left
    <3> QED BY <1>3, <2>2, <3>1 DEF left
  <2> QED BY <1>1, <2>1, <2>2, <2>3, ContinueGas
<1>7. CASE SendStep(ins)
  <2>1. /\ frames' \in Seq(MessageFrames) /\ Len(frames') = n + 1 /\ frames'[n] = f
        /\ \A k \in 1 .. n - 1 : frames'[k] = frames[k]
        /\ frames'[n + 1].limit = f.call.gas /\ frames'[n + 1].left = frames'[n + 1].limit
    BY <1>1, <1>7, SendFacts
  <2>2. /\ frames # <<>> /\ n \in Nat \ {0} /\ Top = frames[n]
    BY <1>1, RunningFacts
  <2>3. f.left <= f.limit
    <3> HIDE DEF f
    <3> QED BY <1>2, <1>3, <1>4
  <2> HIDE DEF f
  <2>4. \A k \in 1 .. n + 1 : k = n + 1 \/ k = n \/ k \in 1 .. n - 1
    BY <2>2
  <2>5. \A k \in 1 .. n : frames'[k].limit = frames[k].limit
    BY <1>2, <2>1, <2>2, <2>4
  <2>6. \A k \in 1 .. n + 1 : 0 <= frames'[k].left /\ frames'[k].left <= frames'[k].limit
    <3>1. 0 <= frames'[n + 1].left /\ frames'[n + 1].left <= frames'[n + 1].limit
      BY <1>2, <2>1
    <3>2. \A k \in 1 .. n - 1 : k \in 1 .. n
      BY <2>2
    <3> QED BY <1>2, <1>4, <2>1, <2>3, <2>4, <3>1, <3>2 DEF GasInv
  <2>7. \A k \in 1 .. n :
          /\ 0 <= frames'[k].call.gas /\ frames'[k].call.gas <= frames'[k].left
          /\ frames'[k + 1].limit = frames'[k].call.gas
    <3> TAKE k \in 1 .. n
    <3>1. CASE k = n
      BY <1>2, <2>1, <3>1
    <3>2. CASE k # n
      <4>1. k \in 1 .. n - 1 /\ k + 1 \in 1 .. n
        BY <2>2, <3>2
      <4> QED BY <2>1, <2>5, <4>1 DEF GasInv
    <3> QED BY <3>1, <3>2
  <2>8. frames'[1].limit = Available'
    <3>1. 1 \in 1 .. n
      BY <2>2
    <3> QED BY <2>2, <2>5, <3>1, Fixed DEF GasInv
  <2>9. Len(frames') - 1 = n
    BY <2>1, <2>2
  <2> HIDE DEF n
  <2> QED BY <2>1, <2>6, <2>7, <2>8, <2>9 DEF GasInv
<1> QED BY <1>1, <1>5, <1>6, <1>7

\* No step loses count of the gas.
LEMMA NextGas ==
  ASSUME TypeInv, GasInv, [Next]_<<execution, claim, audit>>
  PROVE  GasInv'
<1>0. setup' = setup
  BY SetupStays
<1>1. CASE UNCHANGED execution
  BY <1>0, <1>1, Fixed DEF GasInv, execution
<1>2. CASE executeExitCall \/ executeTransfer \/ EndTx
  <2>1. frames' = frames
    BY <1>2 DEF executeExitCall, executeTransfer, EndTx
  <2> QED BY <1>0, <2>1, Fixed DEF GasInv
<1>3. CASE executeCall
  <2> DEFINE f == Frame(tx.to, Available, FALSE, Entered, NoCall)
  <2>1. tx.to \in Contracts /\ frames' = <<f>>
    BY <1>3 DEF executeCall, NoCall
  <2>2. Available \in Nat /\ Available \in Int /\ Entered \in States
    BY SetupFacts, EnteredTyped DEF TypeInv
  <2>3. f.limit = Available /\ f.left = Available
    <3>1. Begun(f, tx.to, Available, Entered)
      BY <2>1, <2>2, BeginTyped
    <3> QED BY <3>1 DEF Begun
  <2> HIDE DEF f
  <2>4. Len(frames') = 1 /\ frames'[1] = f
    BY <2>1
  <2>5. 1 .. Len(frames') = {1} /\ 1 .. Len(frames') - 1 = {}
    BY <2>4
  <2> QED BY <1>0, <2>2, <2>3, <2>4, <2>5, Fixed DEF GasInv
<1>4. CASE LookStep
  <2>1. PICK r : LET g == [Top EXCEPT !.left = @ - OpGas, !.list = Append(@, r)] IN
          Looked(g, r) /\ Continue(g) /\ pc = "message" /\ Top.left >= OpGas
    BY <1>4 DEF LookStep
  <2> DEFINE g == [Top EXCEPT !.left = @ - OpGas, !.list = Append(@, r)]
  <2>2. g \in MessageFrames /\ g.limit = Top.limit /\ g.left = Top.left - OpGas
    BY <2>1 DEF Looked
  <2>3. Continue(g) /\ pc = "message"
    BY <2>1
  <2> HIDE DEF g
  <2>4. Top.left \in Int /\ OpGas \in Nat /\ Top.left >= OpGas
    BY <2>1, TopGas, GasAssumption
  <2>5. 0 <= g.left /\ g.left <= Top.left
    BY <2>2, <2>4
  <2> QED BY <1>0, <2>2, <2>3, <2>5, ContinueGas
<1>5. ASSUME NEW ins \in setup.code, Sstore(ins), Top.left >= OpGas + StoreGas PROVE GasInv'
  <2>1. PICK g \in MessageFrames :
          /\ Continue(g) /\ pc = "message" /\ g.limit = Top.limit
          /\ g.left = Top.left - OpGas - StoreGas
    BY <1>5, SstoreFacts
  <2>2. Top.left \in Int /\ OpGas \in Nat /\ StoreGas \in Nat
    BY <2>1, TopGas, GasAssumption
  <2>3. 0 <= g.left /\ g.left <= Top.left
    BY <1>5, <2>1, <2>2
  <2> QED BY <1>0, <2>1, <2>3, ContinueGas
<1> QED BY <1>0, <1>1, <1>2, <1>3, <1>4, <1>5, StepCases, EndGas, CallGas

-----------------------------------------------------------------------------
\* If all messages of a longer list failed, all of the shorter one did.
LEMMA AgreeGrow ==
  ASSUME NEW list, NEW more, NEW r, Longer(list, more, r), AllSent(more) = AllFailed(more)
  PROVE  /\ AllSent(list) = AllFailed(list)
         /\ ~ (r.op = "CALL" /\ r.key \in Contracts /\ r.success)
<1> DEFINE n == Len(list)
<1>1. /\ n \in Nat /\ Len(more) = n + 1 /\ more[n + 1] = r
      /\ \A j \in 1 .. n : more[j].success = list[j].success
  BY DEF Longer
<1>2. AllSent(list) \subseteq AllSent(more)
  BY MessagesGrow DEF AllSent
<1>3. AllSent(list) \subseteq 1 .. n
  BY <1>1 DEF AllSent, Messages
<1>4. \A j \in AllSent(list) : ~more[j].success
  BY <1>2 DEF AllSent, AllFailed, Failed
<1>5. AllSent(list) = AllFailed(list)
  BY <1>1, <1>3, <1>4 DEF AllSent, AllFailed, Failed
<1>6. ~ (r.op = "CALL" /\ r.key \in Contracts /\ r.success)
  <2> SUFFICES ASSUME r.op = "CALL", r.key \in Contracts, r.success PROVE FALSE
    OBVIOUS
  <2>1. n + 1 \in 1 .. (Len(more) + 1 - 1)
    BY <1>1
  <2>2. n + 1 \in AllSent(more)
    BY <1>1, <2>1 DEF AllSent, Messages
  <2> QED BY <1>1, <2>2 DEF AllFailed, Failed
<1> QED BY <1>5, <1>6

\* What is known of its records stays so.
LEMMA GrowsList ==
  ASSUME ListInv, NEW g, NEW r, Grows(g, r)
  PROVE  ListInv' /\ Remembers
<1> DEFINE l == frames[1].list
           m == g.list
<1>1. /\ pc = "message" /\ pc' = "message" /\ setup' = setup
      /\ Len(frames') = 1 /\ frames'[1] = g /\ g.self = frames[1].self
      /\ Longer(l, m, r) /\ GoodRecord(r, Prior(l), AllSent(l), AllTraces(l))
      /\ state' = IF r.op \in ChangesState THEN r.root ELSE Prior(l)
      /\ AllSent(m) = {} => relay' = state'.exits
      /\ AllTraces(m) = {} => g.cached = state'.balance[tx.to]
      /\ AllSent(m) = AllFailed(m) => g.refund = frames[1].refund + RefundIn(r)
      /\ \A i \in g.shared : i \in 1 .. Len(m) /\ m[i].op = "CALL"
  BY DEF Grows
<1>2. /\ frames[1].self = tx.to /\ GoodList(l)
      /\ AllSent(l) = AllFailed(l) => frames[1].refund = RefundOf(l)
  BY <1>1 DEF ListInv
<1> HIDE DEF l, m
<1>3. GoodList(m)
  BY <1>1, <1>2, GoodGrows
<1>4. Prior(m) = IF r.op \in ChangesState THEN r.root ELSE Prior(l)
  BY <1>1, RootGrows DEF Prior
<1>5. AllSent(m) = AllFailed(m) => g.refund = RefundOf(m)
  BY <1>1, <1>2, AgreeGrow, RefundGrows
<1> DEFINE h == frames'[1].list
<1>6. h = m
  BY <1>1 DEF m
<1>7. /\ (GoodList(frames[1].list))' /\ (Prior(frames[1].list))' = Prior(h)
      /\ (AllTraces(frames[1].list))' = AllTraces(h)
  BY <1>1, <1>3, <1>6, FixedList, FixedTraces
<1>8. Remembers
  <2>1. AllSent(l) \subseteq AllSent(m)
    BY <1>1, MessagesGrow DEF AllSent
  <2> QED BY <1>6, <2>1 DEF Remembers, l
<1> QED BY <1>1, <1>2, <1>4, <1>5, <1>6, <1>7, <1>8, Fixed DEF ListInv, m

\* What is known while the message of the transaction is the innermost.
LEMMA FirstFacts ==
  ASSUME TypeInv, Current, CheckpointInv, ListInv, pc = "message", Len(frames) = 1
  PROVE  /\ Top = frames[1] /\ Top \in MessageFrames /\ Top.list \in Seq(Records)
         /\ Top.self = tx.to /\ tx.to \in Contracts /\ tx.to \in Addresses
         /\ state \in States /\ state = Prior(Top.list)
         /\ AllSent(Top.list) = {} => relay = state.exits
         /\ ~(LeavesCheckpoint /\ AllTraces(Top.list) # {}) => Top.cached = state.balance[tx.to]
         /\ \A i \in Top.shared : i \in 1 .. Len(Top.list) /\ Top.list[i].op = "CALL"
<1>1. Top = frames[1] /\ Top \in MessageFrames /\ state \in States
  BY RunningFacts
<1>2. /\ Top.self = tx.to /\ state = Prior(Top.list)
      /\ AllSent(Top.list) = {} => relay = state.exits
      /\ AllTraces(Top.list) = {} => Top.cached = state.balance[tx.to]
      /\ \A i \in Top.shared : i \in 1 .. Len(Top.list) /\ Top.list[i].op = "CALL"
  BY <1>1 DEF ListInv
<1>3. Top.self \in Contracts /\ Top.list \in Seq(Records)
  BY <1>1, FrameParts
<1>4. ~LeavesCheckpoint => Top.cached = state.balance[Top.self]
  BY DEF CheckpointInv, Current
<1> QED BY <1>1, <1>2, <1>3, <1>4, AddressAssumption

\* A record of what was seen is right of the state at that time.
LEMMA LookGood ==
  ASSUME TypeInv, Current, CheckpointInv, ListInv, pc = "message", Len(frames) = 1,
         NEW r \in Records, Seen(r)
  PROVE  /\ GoodRecord(r, state, AllSent(Top.list), AllTraces(Top.list))
         /\ r.op \notin ChangesState
<1> DEFINE failed == AllTraces(Top.list)
<1>1. /\ Top \in MessageFrames /\ Top.self = tx.to /\ tx.to \in Contracts /\ state \in States
      /\ ~(LeavesCheckpoint /\ failed # {}) => Top.cached = state.balance[tx.to]
  BY FirstFacts
<1> HIDE DEF failed
<1>2. r.op \notin {"SSTORE", "CALL", "DELEGATECALL"}
  BY DEF Seen, Record, Observers, GlobalStateRecords, HeaderRecords
<1>3. GoodStore(r, state) /\ GoodCall(r, state, AllSent(Top.list), failed)
  BY <1>2 DEF GoodStore, GoodCall
<1>4. GoodLook(r, state, failed)
  <2>1. CASE r.op = "LOG"
    BY <2>1 DEF GoodLook
  <2>2. CASE r.op = "STATICCALL" /\ r.success = FALSE
    BY <2>2 DEF GoodLook
  <2>3. ASSUME NEW ins \in setup.code, ins.op \in Observers,
               r = Record(ins.op, ins.key, Observed(Top, ins.op, ins.key))
        PROVE  GoodLook(r, state, failed)
    <3> DEFINE v == Observed(Top, ins.op, ins.key)
    <3>1. r.op = ins.op /\ r.key = ins.key /\ r.value = v
      BY <2>3 DEF Record
    <3>2. r.op = "BALANCE" /\ ~(LeavesCheckpoint /\ failed # {}) => r.value = state.balance[r.key]
      BY <1>1, <3>1 DEF Observed
    <3>3. r.op = "SELFBALANCE" /\ ~(LeavesCheckpoint /\ failed # {})
            => r.value = state.balance[tx.to]
      BY <1>1, <3>1 DEF Observed
    <3>4. r.op = "EXTCODESIZE" => r.value = IF r.key \in Contracts THEN "code" ELSE "empty"
      BY <3>1 DEF Observed
    <3>5. r.op = "EXTCODEHASH" => accountIsEmpty(state, r.key)
            \/ r.value = IF r.key \in Contracts THEN "code" ELSE "empty"
      BY <3>1 DEF Observed
    <3>6. r.op = "EXTCODECOPY" => (r.key \in Contracts => r.value = TRUE)
      BY <3>1 DEF Observed, accountIsEmpty
    <3>7. r.op = "COINBASE" => setup.coinbase = Zero \/ r.value = setup.coinbase
      BY <3>1 DEF Observed, getBlockCoinbase
    <3>8. r.op = "HEADER" => r.value = "header"
      BY <3>1 DEF Observed
    <3>9. r.op = "SLOAD" =>
            r.key \in Slots /\ (r.value = 0 \/ r.value = state.storage[tx.to][r.key].value)
      <4> SUFFICES ASSUME r.op = "SLOAD"
                   PROVE  /\ r.key \in Slots
                          /\ r.value = 0 \/ r.value = state.storage[tx.to][r.key].value
        OBVIOUS
      <4>1. ins.key \in Slots
        <5>1. setup \in Setups
          BY DEF TypeInv
        <5> QED BY <3>1, <5>1, CodeFacts
      <4>2. v = Readable(tx.to)[ins.key].value
        BY <1>1, <3>1 DEF Observed
      <4>3. Readable(tx.to) = state.storage[tx.to] \/ Readable(tx.to)[ins.key] = NoLeaf
        BY <4>1 DEF Readable, NothingStored
      <4> QED BY <3>1, <4>1, <4>2, <4>3 DEF NoLeaf
    <3>10. r.op # "STATICCALL"
      BY <2>3, <3>1 DEF Observers, GlobalStateRecords, HeaderRecords
    <3> HIDE DEF v
    <3> QED BY <3>2, <3>3, <3>4, <3>5, <3>6, <3>7, <3>8, <3>9, <3>10 DEF GoodLook
  <2> QED BY <2>1, <2>2, <2>3 DEF Seen
<1> QED BY <1>2, <1>3, <1>4 DEF GoodRecord, failed, ChangesState

-----------------------------------------------------------------------------
\* A list with a record more is longer.
LEMMA AppendLonger ==
  ASSUME NEW list \in Seq(Records), NEW r \in Records
  PROVE  Longer(list, Append(list, r), r)
BY DEF Longer

\* Also if the records of calls take a new refund.
LEMMA SharedLonger ==
  ASSUME NEW list \in Seq(Records), NEW r \in Records, NEW indices, NEW refund \in Int,
         \A i \in indices : i \in 1 .. Len(list) /\ list[i].op = "CALL"
  PROVE  Longer(list, Append(Shared(list, indices, refund), r), r)
<1> DEFINE l == Shared(list, indices, refund)
<1>1. /\ l \in Seq(Records) /\ Len(l) = Len(list)
      /\ \A i \in 1 .. Len(list) :
           /\ l[i].op = list[i].op /\ l[i].key = list[i].key /\ l[i].value = list[i].value
           /\ l[i].root = list[i].root /\ l[i].gas = list[i].gas
           /\ l[i].success = list[i].success /\ l[i].data = list[i].data
           /\ i \notin indices => l[i] = list[i]
  BY SharedFacts
<1> HIDE DEF l
<1>2. /\ Append(l, r) \in Seq(Records) /\ Len(Append(l, r)) = Len(list) + 1
      /\ Append(l, r)[Len(list) + 1] = r
      /\ \A i \in 1 .. Len(list) : Append(l, r)[i] = l[i]
  BY <1>1
<1>3. \A i \in 1 .. Len(list) : list[i].op # "CALL" => Append(l, r)[i].refund = list[i].refund
  BY <1>1, <1>2
<1> QED BY <1>1, <1>2, <1>3 DEF Longer, l

\* The frame of the message of the transaction after an instruction.
LEMMA ContinueFirst ==
  ASSUME TypeInv, pc = "message", Len(frames) = 1, NEW g \in MessageFrames, Continue(g)
  PROVE  Len(frames') = 1 /\ frames'[1] = g
<1>1. frames \in Seq(MessageFrames) /\ frames # <<>>
  BY RunningFacts
<1> QED BY <1>1, ContinueFacts

\* An instruction that only looks.
LEMMA LookGrows ==
  ASSUME TypeInv, Current, CheckpointInv, ListInv, LookStep, Len(frames) = 1
  PROVE  ListInv' /\ Remembers
<1>1. PICK r : LET g == [Top EXCEPT !.left = @ - OpGas, !.list = Append(@, r)] IN
        /\ Seen(r) /\ Looked(g, r) /\ Continue(g) /\ pc = "message"
        /\ UNCHANGED <<setup, pc, state, saved, relay, known, spent, witness>>
  BY DEF LookStep
<1> DEFINE g == [Top EXCEPT !.left = @ - OpGas, !.list = Append(@, r)]
           l == Top.list
<1>2. /\ g \in MessageFrames /\ r \in Records /\ g.list = Append(l, r)
      /\ g.self = Top.self /\ g.cached = Top.cached /\ g.refund = Top.refund
      /\ g.shared = Top.shared
  BY <1>1 DEF Looked
<1>3. /\ Seen(r) /\ Continue(g) /\ pc = "message" /\ pc' = "message" /\ setup' = setup
      /\ state' = state /\ relay' = relay
  BY <1>1
<1> HIDE DEF g
<1>4. Len(frames') = 1 /\ frames'[1] = g
  BY <1>2, <1>3, ContinueFirst
<1>5. /\ Top = frames[1] /\ l \in Seq(Records) /\ state = Prior(l) /\ Top \in MessageFrames
      /\ AllSent(l) = {} => relay = state.exits
      /\ ~(LeavesCheckpoint /\ AllTraces(l) # {}) => Top.cached = state.balance[tx.to]
      /\ \A i \in Top.shared : i \in 1 .. Len(l) /\ l[i].op = "CALL"
  BY <1>3, FirstFacts
<1>6. GoodRecord(r, state, AllSent(l), AllTraces(l)) /\ r.op \notin ChangesState
  BY <1>2, <1>3, LookGood
<1>7. Longer(l, g.list, r)
  <2> HIDE DEF l
  <2> QED BY <1>2, <1>5, AppendLonger
<1>8. /\ AllSent(g.list) = AllSent(l) /\ AllFailed(g.list) = AllFailed(l)
      /\ AllTraces(l) \subseteq AllTraces(g.list)
  <2>1. r.op # "CALL"
    BY <1>6 DEF ChangesState
  <2> QED BY <1>7, <2>1, MessagesGrow, TracesGrow DEF AllSent, AllFailed, AllTraces
<1>9. r.op # "SSTORE"
  BY <1>6 DEF ChangesState
<1>10. g.refund = frames[1].refund + RefundIn(r)
  <2>1. Top.refund \in Int
    BY <1>5, FrameParts
  <2> QED BY <1>2, <1>5, <1>9, <2>1 DEF RefundIn
<1>11. \A i \in g.shared : i \in 1 .. Len(g.list) /\ g.list[i].op = "CALL"
  <2>1. Len(l) \in Nat /\ 1 .. Len(l) \subseteq 1 .. Len(g.list)
    BY <1>5, <1>7 DEF Longer
  <2> QED BY <1>2, <1>5, <1>7, <2>1 DEF Longer
<1>12. AllTraces(g.list) = {} => g.cached = state'.balance[tx.to]
  BY <1>2, <1>3, <1>5, <1>8
<1>13. Grows(g, r)
  BY <1>2, <1>3, <1>4, <1>5, <1>6, <1>7, <1>8, <1>10, <1>11, <1>12 DEF Grows
<1> QED BY <1>13, GrowsList

\* An instruction that stores.
LEMMA SstoreGrows ==
  ASSUME TypeInv, Current, CheckpointInv, ListInv, NEW ins \in setup.code, Sstore(ins),
         Top.left >= OpGas + StoreGas, Len(frames) = 1
  PROVE  ListInv' /\ Remembers
<1> DEFINE r == StoreRecord(ins, state')
           l == Top.list
<1>1. PICK g \in MessageFrames :
         /\ Continue(g) /\ pc = "message" /\ r \in Records
         /\ state' = Put([state EXCEPT !.storage[Top.self] = NewStorage(ins)], Top.self)
         /\ state'.exits = state.exits /\ state'.balance = state.balance
         /\ g.list = Append(Shared(l, Top.shared, NewRefund(ins)), r)
         /\ g.self = Top.self /\ g.cached = state'.balance[Top.self]
         /\ g.refund = NewRefund(ins) /\ g.shared = Top.shared
         /\ UNCHANGED <<setup, pc, saved, relay, spent, witness>>
  BY SstoreFacts
<1>2. /\ Top = frames[1] /\ l \in Seq(Records) /\ state = Prior(l) /\ Top \in MessageFrames
      /\ Top.self = tx.to
      /\ AllSent(l) = {} => relay = state.exits
      /\ \A i \in Top.shared : i \in 1 .. Len(l) /\ l[i].op = "CALL"
  BY <1>1, FirstFacts
<1>3. Len(frames') = 1 /\ frames'[1] = g
  BY <1>1, ContinueFirst
<1>4. /\ r.op = "SSTORE" /\ r.key = ins.key /\ r.value = ins.value /\ r.root = state'
      /\ r.refund = updateSstoreGas(ins.value)
  BY DEF StoreRecord
<1>5. ins.value \in Nat /\ ins.key \in Slots
  <2>1. setup \in Setups
    BY <1>1, RunningFacts
  <2>2. ins.op = "SSTORE"
    BY DEF Sstore
  <2> QED BY <2>1, <2>2, CodeFacts
<1>6. GoodStore(r, state)
  <2>1. NewStorage(ins) = [state.storage[tx.to] EXCEPT ![ins.key] = NewLeaf(ins.value)]
        \/ NewStorage(ins) = [NothingStored EXCEPT ![ins.key] = NewLeaf(ins.value)]
    BY <1>2 DEF NewStorage, Readable
  <2>2. state' = Stored(state, NewStorage(ins))
    BY <1>1, <1>2 DEF Stored
  <2>3. state'.storage[tx.to][ins.key] = NewLeaf(ins.value)
    <3> DEFINE a == Top.self
               n == NewStorage(ins)
    <3>1. state \in States /\ a \in Contracts /\ a = tx.to
      <4>1. state \in States
        BY DEF TypeInv
      <4> QED BY <1>2, <4>1, FrameParts
    <3>2. n \in [Slots -> Leaves] /\ n[ins.key] = NewLeaf(ins.value)
      <4>1. state.storage[a] \in [Slots -> Leaves] /\ NothingStored \in [Slots -> Leaves]
        BY <3>1, <1>5, LeafTyped, StateParts DEF NothingStored
      <4>2. n = [state.storage[a] EXCEPT ![ins.key] = NewLeaf(ins.value)]
            \/ n = [NothingStored EXCEPT ![ins.key] = NewLeaf(ins.value)]
        BY <2>1, <3>1
      <4>3. NewLeaf(ins.value) \in Leaves
        BY <1>5, LeafTyped
      <4> HIDE DEF n
      <4> QED BY <1>5, <4>1, <4>2, <4>3
    <3>3. state' = Put([state EXCEPT !.storage[a] = n], a)
      BY <1>1
    <3> HIDE DEF a, n
    <3> QED BY <3>1, <3>2, <3>3, WrittenFacts
  <2> HIDE DEF r
  <2> QED BY <1>4, <1>5, <2>1, <2>2, <2>3 DEF GoodStore
<1> HIDE DEF r
<1>7. GoodRecord(r, Prior(l), AllSent(l), AllTraces(l))
  BY <1>2, <1>4, <1>6 DEF GoodRecord, GoodLook, GoodCall
<1>8. Top.refund \in Int /\ updateSstoreGas(ins.value) \in Int
  <2>1. Top.refund \in Int
    BY <1>2, FrameParts
  <2>2. updateSstoreGas(ins.value) \in Int
    BY GasAssumption DEF updateSstoreGas
  <2> QED BY <2>1, <2>2
<1>9. NewRefund(ins) \in Int /\ NewRefund(ins) = frames[1].refund + RefundIn(r)
  BY <1>2, <1>4, <1>8 DEF NewRefund, RefundIn
<1>10. Longer(l, g.list, r)
  <2> DEFINE d == Top.shared
             n == NewRefund(ins)
  <2>1. /\ g.list = Append(Shared(l, d, n), r) /\ l \in Seq(Records) /\ n \in Int
        /\ r \in Records /\ \A i \in d : i \in 1 .. Len(l) /\ l[i].op = "CALL"
    BY <1>1, <1>2, <1>9
  <2> HIDE DEF l, d, n
  <2> QED BY <2>1, SharedLonger
<1>11. AllSent(g.list) = AllSent(l) /\ AllFailed(g.list) = AllFailed(l)
  <2>1. r.op # "CALL"
    BY <1>4
  <2> QED BY <1>10, <2>1, MessagesGrow DEF AllSent, AllFailed
<1>12. \A i \in g.shared : i \in 1 .. Len(g.list) /\ g.list[i].op = "CALL"
  <2>1. Len(l) \in Nat /\ 1 .. Len(l) \subseteq 1 .. Len(g.list)
    BY <1>2, <1>10 DEF Longer
  <2> QED BY <1>1, <1>2, <1>10, <2>1 DEF Longer
<1>13. state' = IF r.op \in ChangesState THEN r.root ELSE Prior(l)
  BY <1>4 DEF ChangesState
<1>14. Grows(g, r)
  BY <1>1, <1>2, <1>3, <1>7, <1>9, <1>10, <1>11, <1>12, <1>13 DEF Grows
<1> QED BY <1>14, GrowsList

-----------------------------------------------------------------------------
\* The exits that the state has then are those that the child relay counts.
LEMMA ExitCounted ==
  ASSUME NEW s \in States, NEW caller \in Addresses, NEW value \in Nat, NEW gas,
         NEW data, NEW e, Exited(e, s, caller, value, gas, data), e.status = "success"
  PROVE  e.state.exits = e.relay
<1> DEFINE x == Append(relay, outgoingTransactionFromCallInputs(caller, value, gas))
           paid == Debit(s, caller, value)
<1>1. e.relay = x /\ e.state = [paid EXCEPT !.exits = x]
  BY DEF Exited, updateExitsRoot
<1>2. paid \in States
  <2>1. value \in Int
    OBVIOUS
  <2> QED BY <2>1, DebitFacts
<1> HIDE DEF x, paid
<1> QED BY <1>1, <1>2 DEF States

\* A call that is over adds a record without a refund of its own.
LEMMA CallGrows ==
  ASSUME ListInv, NEW g, NEW r, NEW l, l = frames[1].list, l \in Seq(Records), r \in Records,
         pc = "message", pc' = "message", setup' = setup,
         Len(frames') = 1, frames'[1] = g, g.self = frames[1].self, g.list = Append(l, r),
         r.op = "CALL", r.root = state', GoodCall(r, Prior(l), AllSent(l), AllTraces(l)),
         AllSent(g.list) = {} => relay' = state'.exits,
         AllTraces(g.list) = {} => g.cached = state'.balance[tx.to],
         AllSent(g.list) = AllFailed(g.list) => g.refund = frames[1].refund + 0,
         g.shared \subseteq frames[1].shared \cup {Len(l) + 1}
  PROVE  ListInv' /\ Remembers
<1>1. Longer(l, g.list, r)
  BY AppendLonger
<1>2. RefundIn(r) = 0
  BY DEF RefundIn
<1>3. GoodRecord(r, Prior(l), AllSent(l), AllTraces(l))
  BY DEF GoodRecord, GoodLook, GoodStore
<1>4. state' = IF r.op \in ChangesState THEN r.root ELSE Prior(l)
  BY DEF ChangesState
<1>5. \A i \in g.shared : i \in 1 .. Len(g.list) /\ g.list[i].op = "CALL"
  <2>1. /\ Len(l) \in Nat /\ Len(g.list) = Len(l) + 1
        /\ \A i \in 1 .. Len(l) : i \in 1 .. Len(g.list) /\ g.list[i] = l[i]
        /\ g.list[Len(l) + 1] = r /\ Len(l) + 1 \in 1 .. Len(g.list)
    OBVIOUS
  <2>2. \A i \in frames[1].shared : i \in 1 .. Len(l) /\ l[i].op = "CALL"
    BY DEF ListInv
  <2> QED BY <2>1, <2>2
<1>6. Grows(g, r)
  BY <1>1, <1>2, <1>3, <1>4, <1>5 DEF Grows
<1> QED BY <1>6, GrowsList

\* A call that the message of the transaction was refused.
LEMMA RefusedGrows ==
  ASSUME TypeInv, Current, CheckpointInv, ListInv, pc = "message", Len(frames) = 1,
         NEW ins \in setup.code, Top.left >= OpGas, ins.op = "CALL", RefusedStep(ins)
  PROVE  ListInv' /\ Remembers
<1> DEFINE g == Called(Caller(ins), state, FALSE)
           l == Top.list
<1>1. CallOver(g, ins, state, 0, 0, FALSE) /\ g.shared = Top.shared \cup {Len(l) + 1}
  BY RefusedFacts
<1>2. Continue(g) /\ pc' = pc /\ setup' = setup /\ state' = state /\ relay' = relay
  BY DEF RefusedStep
<1>3. ins.key = Relay => Top.cached < ins.value
  BY CallerFacts DEF RefusedStep, isPermittedCallTarget
<1> HIDE DEF g
<1>4. PICK r \in Records :
        /\ g \in MessageFrames /\ g.self = Top.self /\ g.refund = Top.refund + 0
        /\ g.cached = Top.cached /\ g.list = Append(l, r)
        /\ r.op = "CALL" /\ r.key = ins.key /\ r.value = ins.value /\ r.root = state
        /\ r.gas = Caller(ins).call.gas /\ r.success = FALSE /\ r.data = ins.data
  BY <1>1 DEF CallOver
<1>5. /\ Top = frames[1] /\ l \in Seq(Records) /\ state = Prior(l) /\ Top.self = tx.to
      /\ AllSent(l) = {} => relay = state.exits
      /\ ~(LeavesCheckpoint /\ AllTraces(l) # {}) => Top.cached = state.balance[tx.to]
  BY FirstFacts
<1>6. Len(frames') = 1 /\ frames'[1] = g
  BY <1>2, <1>4, ContinueFirst
<1>7. /\ r.value \in Nat /\ r.gas \in Int /\ r.data \in Calldata
  <2>1. setup \in Setups
    BY RunningFacts
  <2>2. Caller(ins).call.gas \in Nat
    BY CallerFacts
  <2> QED BY <1>4, <2>1, <2>2, CodeFacts
<1>8. GoodCall(r, state, AllSent(l), AllTraces(l))
  BY <1>3, <1>4, <1>5, <1>7 DEF GoodCall
<1>9. Longer(l, g.list, r)
  <2> HIDE DEF l
  <2> QED BY <1>4, <1>5, AppendLonger
<1>10. AllSent(l) \subseteq AllSent(g.list) /\ AllTraces(l) \subseteq AllTraces(g.list)
  BY <1>9, MessagesGrow, TracesGrow DEF AllSent, AllTraces
<1>11. AllSent(g.list) = {} => relay' = state'.exits
  BY <1>2, <1>5, <1>10
<1>12. AllTraces(g.list) = {} => g.cached = state'.balance[tx.to]
  BY <1>2, <1>4, <1>5, <1>10
<1> HIDE DEF l
<1>13. l = frames[1].list
  BY <1>5 DEF l
<1> QED BY <1>1, <1>2, <1>4, <1>5, <1>6, <1>8, <1>11, <1>12, <1>13, CallGrows

\* An exit of the message of the transaction.
LEMMA ExitGrows ==
  ASSUME TypeInv, Current, CheckpointInv, RelayInv, ListInv, pc = "message", Len(frames) = 1,
         NEW ins \in setup.code, Top.left >= OpGas, ins.op = "CALL", ExitStep(ins)
  PROVE  ListInv' /\ Remembers
<1> DEFINE gas == Caller(ins).call.gas
           e == Exit(state, Top.self, ins.value, gas, FALSE, ins.data)
           success == e.status = "success"
           l == Top.list
           paid == Debit(state, tx.to, ins.value)
<1>1. PICK g \in MessageFrames :
        /\ Continue(g) /\ CallOver(g, ins, e.state, gas, 0, success)
        /\ g.shared = {Len(l) + 1}
  BY ExitCallFacts
<1>2. /\ ins.key = Relay /\ state' = e.state /\ relay' = e.relay
      /\ pc' = pc /\ setup' = setup
  BY ExitCallFacts
<1>3. /\ Top = frames[1] /\ l \in Seq(Records) /\ state = Prior(l) /\ Top.self = tx.to
      /\ state \in States /\ tx.to \in Addresses /\ tx.to \in Contracts
      /\ AllSent(l) = {} => relay = state.exits
      /\ ~(LeavesCheckpoint /\ AllTraces(l) # {}) => Top.cached = state.balance[tx.to]
  BY FirstFacts
<1>4. ins.value \in Nat /\ ins.data \in Calldata /\ relay \in Seq(OutgoingTransactions)
  <2>1. setup \in Setups /\ relay \in Seq(OutgoingTransactions)
    BY RunningFacts
  <2> QED BY <2>1, CodeFacts
<1>5. gas \in Nat /\ gas \in Int
  <2>1. gas \in Nat
    BY CallerFacts
  <2> HIDE DEF gas
  <2> QED BY <2>1
<1>6. /\ success <=> state.balance[tx.to] >= ins.value /\ ins.data = "exit" /\ gas >= ExitFee
      /\ ~success => e.state = state /\ e.relay = relay
      /\ success =>
           /\ e.relay = Append(relay, outgoingTransactionFromCallInputs(tx.to, ins.value, gas))
           /\ e.state = updateExitsRoot(paid, relay, tx.to, ins.value, gas)
  <2>1. Exited(e, state, tx.to, ins.value, gas, ins.data)
    <3> HIDE DEF gas
    <3> QED BY <1>3, <1>4, <1>5, ExitFacts
  <2> HIDE DEF e, gas
  <2> QED BY <2>1 DEF Exited
<1>7. success \in BOOLEAN
  OBVIOUS
<1>8. success => e.state.exits = e.relay
  <2>1. Exited(e, state, tx.to, ins.value, gas, ins.data)
    <3> HIDE DEF gas
    <3> QED BY <1>3, <1>4, <1>5, ExitFacts
  <2> HIDE DEF e, gas
  <2> QED BY <1>3, <1>4, <2>1, ExitCounted
<1> HIDE DEF e, success
<1>9. PICK r \in Records :
        /\ g.self = Top.self /\ g.refund = Top.refund + 0
        /\ g.cached = (IF success THEN e.state.balance[Top.self] ELSE Top.cached)
        /\ g.list = Append(l, r)
        /\ r.op = "CALL" /\ r.key = ins.key /\ r.value = ins.value /\ r.root = e.state
        /\ r.gas = gas /\ r.success = success /\ r.data = ins.data
  BY <1>1 DEF CallOver
<1> HIDE DEF gas, paid
<1>10. Len(frames') = 1 /\ frames'[1] = g
  BY <1>1, ContinueFirst
<1>11. GoodCall(r, state, AllSent(l), AllTraces(l))
  <2>1. /\ r.value \in Nat /\ r.gas \in Int /\ r.data \in Calldata
        /\ r.success => r.key \in Contracts \cup {Relay}
    BY <1>2, <1>4, <1>5, <1>9
  <2>2. r.success =>
          /\ ~(state.balance[tx.to] < r.value) /\ r.data = "exit" /\ r.gas >= ExitFee
          /\ AllSent(l) = {} => r.root = updateExitsRoot(Debit(state, tx.to, r.value), state.exits,
                                                       tx.to, r.value, r.gas)
    <3>1. state.balance[tx.to] \in Int
      BY <1>3, StateParts
    <3> HIDE DEF l
    <3> QED BY <1>3, <1>4, <1>6, <1>9, <3>1 DEF paid, l
  <2>3. ~r.success =>
          state.balance[tx.to] < r.value \/ r.data # "exit" \/ r.gas < ExitFee
    <3>1. state.balance[tx.to] \in Int /\ ExitFee \in Int
      BY <1>3, StateParts, GasAssumption
    <3> QED BY <1>4, <1>5, <1>6, <1>9, <3>1
  <2>4. ~r.success => r.root = state
    BY <1>6, <1>9
  <2>5. r.success => r.root # state
    <3>1. r.success => e.state.exits = Append(relay, outgoingTransactionFromCallInputs(tx.to, ins.value, gas))
      BY <1>6, <1>8, <1>9
    <3>2. r.success => Len(e.state.exits) = Len(relay) + 1
      BY <1>4, <3>1
    <3>3. Len(state.exits) <= Len(relay) /\ Len(state.exits) \in Nat /\ Len(relay) \in Nat
      BY <1>3, <1>4, StateParts DEF RelayInv
    <3> QED BY <1>9, <3>2, <3>3
  <2> QED BY <2>1, <2>2, <2>3, <2>4, <2>5 DEF GoodCall
<1>12. Longer(l, g.list, r)
  <2> HIDE DEF l
  <2> QED BY <1>3, <1>9, AppendLonger
<1>13. AllSent(g.list) = AllSent(l) /\ AllTraces(l) \subseteq AllTraces(g.list)
  <2>1. r.key \notin Contracts
    BY <1>2, <1>9, AddressAssumption
  <2> QED BY <1>12, <2>1, MessagesGrow, TracesGrow DEF AllSent, AllTraces
<1>14. AllSent(g.list) = {} => relay' = state'.exits
  BY <1>2, <1>3, <1>6, <1>8, <1>13
<1>15. AllTraces(g.list) = {} => g.cached = state'.balance[tx.to]
  BY <1>2, <1>3, <1>6, <1>9, <1>13
<1> HIDE DEF l
<1>16. l = frames[1].list
  BY <1>3 DEF l
<1> QED BY <1>1, <1>2, <1>3, <1>9, <1>10, <1>11, <1>14, <1>15, <1>16, CallGrows

\* A message that it sent is over.
LEMMA ReturnGrows ==
  ASSUME TypeInv, CheckpointInv, ListInv, EndStep, setup' = setup, Len(frames) = 2
  PROVE  ListInv' /\ AllSent(frames'[1].list) # {}
<1>1. PICK status \in {"success", "revert", "exception"} : \E checkpoints :
        /\ pc = "message" /\ Checkpoints(status, checkpoints) /\ EndWith(status, checkpoints)
        /\ checkpoints # saved => LeavesCheckpoint
  BY DEF EndStep
<1>2. PICK checkpoints :
        /\ pc = "message" /\ Checkpoints(status, checkpoints) /\ EndWith(status, checkpoints)
        /\ checkpoints # saved => LeavesCheckpoint
  BY <1>1
<1> DEFINE f == frames[1]
           l == f.list
           success == status = "success"
           used == UsedGas(status)
           refund == Refunds(status)
           b == baseCall(f, state', used, refund, success)
           g == Called(b, state', success)
           r == CallRecord(b, state', success)
<1>3. checkpoints \in Seq(States) /\ Len(checkpoints) >= Len(frames) + 1
  BY <1>2, CheckpointFacts
<1>4. /\ state' = IF success THEN state ELSE checkpoints[Len(checkpoints)]
      /\ state' \in States /\ pc' = pc /\ relay' = relay
      /\ Len(frames') = 1 /\ frames'[1] = g
  BY <1>2, <1>3, EndFacts
<1>5. f \in MessageFrames /\ f.call \in Sending /\ l \in Seq(Records)
  <2>1. frames \in Seq(MessageFrames) /\ \A k \in 1 .. Len(frames) - 1 : frames[k].call \in Sending
    BY <1>2, RunningFacts
  <2>2. f \in MessageFrames /\ f.call \in Sending
    BY <2>1
  <2> HIDE DEF f
  <2> QED BY <2>2, FrameParts
<1>6. used \in Int /\ refund \in Int /\ (~success => refund = 0)
  <2>1. Top \in MessageFrames
    BY <1>2, RunningFacts
  <2>2. Top.limit \in Int /\ Top.left \in Int /\ Top.refund \in Int
    BY <2>1, FrameParts
  <2> QED BY <2>2 DEF UsedGas, Refunds
<1>7. success \in BOOLEAN
  OBVIOUS
<1> HIDE DEF success, used, refund
<1>8. /\ g \in MessageFrames /\ g.self = f.self /\ g.refund = f.refund + refund
      /\ g.cached = IF success THEN state'.balance[f.self] ELSE f.cached
      /\ g.shared = {Len(l) + 1}
      /\ r \in Records /\ g.list = Append(l, r)
      /\ r.op = "CALL" /\ r.key = f.call.to /\ r.value = f.call.value /\ r.root = state'
      /\ r.gas = f.call.gas /\ r.success = success /\ r.data = f.call.data
  <2> HIDE DEF f
  <2> QED BY <1>4, <1>5, <1>6, <1>7, ReturnedFacts
<1> HIDE DEF g, r, b
<1>9. f.self = tx.to /\ f.call.to \in Contracts
  BY <1>2 DEF ListInv
<1>10. Relay \notin Contracts
  BY AddressAssumption
<1>11. ~success /\ ~LeavesCheckpoint => state' = Prior(l)
  <2> SUFFICES ASSUME ~success, ~LeavesCheckpoint PROVE state' = Prior(l)
    OBVIOUS
  <2>1. checkpoints = saved /\ Len(saved) = 3 /\ saved[3] = Prior(l)
    BY <1>2 DEF CheckpointInv
  <2> QED BY <1>4, <2>1
<1>12. GoodCall(r, Prior(l), AllSent(l), AllTraces(l))
  <2>1. f.call.value \in Nat /\ f.call.gas \in Int /\ f.call.data \in Calldata
    BY <1>5 DEF Sending
  <2> QED BY <1>8, <1>9, <1>10, <1>11, <2>1 DEF GoodCall
<1>13. Longer(l, g.list, r)
  <2> HIDE DEF l
  <2> QED BY <1>5, <1>8, AppendLonger
<1>14. AllSent(g.list) # {}
  BY <1>8, <1>9, <1>13, MessagesGrow DEF AllSent
<1>15. AllTraces(g.list) = {} => g.cached = state'.balance[tx.to]
  <2>1. AllTraces(l) = {} => f.cached = Prior(l).balance[tx.to]
    BY <1>2 DEF ListInv
  <2>2. /\ AllTraces(l) \subseteq AllTraces(g.list)
        /\ ~success /\ state' # Prior(l) => AllTraces(g.list) # {}
    <3>1. /\ r.op = "CALL" /\ r.key \in Contracts /\ r.root = state'
          /\ ~success => ~r.success
      BY <1>8, <1>9
    <3> HIDE DEF l, f
    <3> QED BY <1>13, <3>1, TracesGrow DEF AllTraces, Prior
  <2>3. CASE success
    BY <1>8, <1>9, <2>3
  <2>4. CASE ~success
    <3>1. g.cached = f.cached
      BY <1>8, <2>4
    <3> HIDE DEF l, f
    <3> QED BY <2>1, <2>2, <2>4, <3>1
  <2> QED BY <2>3, <2>4
<1>16. AllSent(g.list) = AllFailed(g.list) => g.refund = f.refund + 0
  <2>1. AllSent(g.list) = AllFailed(g.list) => ~success
    BY <1>8, <1>9, <1>13, AgreeGrow
  <2> QED BY <1>6, <1>8, <2>1
<1> HIDE DEF l, f
<1>17. l = frames[1].list /\ f = frames[1]
  BY DEF l, f
<1> QED BY <1>2, <1>4, <1>5, <1>8, <1>12, <1>14, <1>15, <1>16, <1>17, CallGrows

-----------------------------------------------------------------------------
\* What happens to the messages that it sent is nothing to it.
LEMMA InnerList ==
  ASSUME ListInv, pc = "message", Len(frames) > 1, pc' = "message", Len(frames') \in Nat, Len(frames') > 1,
         frames'[1] = frames[1], setup' = setup
  PROVE  ListInv'
<1> DEFINE h == frames'[1].list
           l == frames[1].list
<1>1. h = l
  OBVIOUS
<1>2. /\ GoodList(l) /\ (AllSent(l) = AllFailed(l) => frames[1].refund = RefundOf(l))
      /\ AllTraces(l) = {} => frames[1].cached = Prior(l).balance[tx.to]
  BY DEF ListInv
<1> HIDE DEF l
<1>3. /\ (GoodList(frames[1].list))' /\ (Prior(frames[1].list))' = Prior(l)
      /\ (AllTraces(frames[1].list))' = AllTraces(l)
  BY <1>1, <1>2, FixedList, FixedTraces
<1>4. Len(frames') # 1
  <2> DEFINE m == Len(frames')
  <2>1. m \in Nat /\ m > 1
    OBVIOUS
  <2> HIDE DEF m
  <2>2. m # 1
    BY ONLY <2>1
  <2> QED BY <2>2 DEF m
<1> HIDE DEF h
<1> QED BY <1>1, <1>2, <1>3, <1>4, Fixed DEF ListInv, h, l

\* The message of the transaction sends one.
LEMMA SendList ==
  ASSUME TypeInv, ListInv, pc = "message", Len(frames) = 1, setup' = setup,
         NEW ins \in setup.code, Top.left >= OpGas, ins.op = "CALL", SendStep(ins)
  PROVE  ListInv' /\ frames'[1].list = frames[1].list
<1> DEFINE f == Caller(ins)
<1>1. Top = frames[1]
  BY RunningFacts
<1>2. /\ Len(frames') = 2 /\ frames'[1] = f /\ pc' = pc
  BY SendFacts
<1>3. /\ f.self = Top.self /\ f.list = Top.list /\ f.refund = Top.refund /\ f.shared = Top.shared
      /\ f.call.to = ins.key /\ f.cached = Top.cached
  BY CallerFacts
<1>4. ins.key \in Contracts
  BY DEF SendStep
<1> HIDE DEF f
<1> DEFINE h == frames'[1].list
           l == frames[1].list
<1>5. h = l
  BY <1>1, <1>2, <1>3
<1>6. /\ GoodList(l) /\ (AllSent(l) = AllFailed(l) => frames[1].refund = RefundOf(l))
      /\ AllTraces(l) = {} => frames[1].cached = Prior(l).balance[tx.to]
  BY DEF ListInv
<1> HIDE DEF l
<1>7. /\ (GoodList(frames[1].list))' /\ (Prior(frames[1].list))' = Prior(l)
      /\ (AllTraces(frames[1].list))' = AllTraces(l)
  BY <1>5, <1>6, FixedList, FixedTraces
<1> HIDE DEF h
<1> QED BY <1>1, <1>2, <1>3, <1>4, <1>5, <1>6, <1>7, Fixed DEF ListInv, h, l

\* Paying for a transaction in advance changes no exits.
LEMMA EnteredExits ==
  ASSUME setup \in Setups
  PROVE  Charged.exits = before.exits /\ Entered.exits = before.exits
<1>1. /\ Charged \in States /\ before \in States
      /\ tx.from \in Addresses /\ tx.to \in Addresses /\ tx.value \in Int
      /\ tx.gas \in Nat /\ tx.price \in Nat
  BY SetupFacts, EnteredTyped
<1>2. Charged.exits = before.exits
  <2> DEFINE d == Debit(before, tx.from, tx.gas * tx.price)
  <2>1. tx.gas * tx.price \in Int
    BY <1>1
  <2>2. d \in States /\ d.exits = before.exits
    BY <1>1, <2>1, DebitFacts
  <2>3. [d EXCEPT !.nonce[tx.from] = @ + 1].exits = d.exits
    <3> HIDE DEF d
    <3> QED BY <2>2 DEF States
  <2> HIDE DEF d
  <2> QED BY <2>2, <2>3 DEF Charged, d
<1>3. Entered.exits = before.exits
  <2> DEFINE m == IF tx.incoming THEN Charged ELSE Debit(Charged, tx.from, tx.value)
  <2>1. m \in States /\ m.exits = before.exits
    BY <1>1, <1>2, DebitFacts
  <2>2. Entered = addToBalance(m, tx.to, tx.value)
    BY DEF Entered
  <2> HIDE DEF m
  <2>3. addToBalance(m, tx.to, tx.value).exits = m.exits
    BY <1>1, <2>1, CreditFacts DEF addToBalance
  <2> QED BY <2>1, <2>2, <2>3
<1> QED BY <1>2, <1>3

\* It begins without records, in the state that the message was entered with.
LEMMA BeginList ==
  ASSUME TypeInv, BeginInv, executeCall
  PROVE  ListInv' /\ CheckpointInv'
<1> DEFINE f == Frame(tx.to, Available, FALSE, Entered, NoCall)
<1>1. /\ pc = "tx" /\ pc' = "message" /\ saved' = Append(saved, Charged) /\ state' = Entered
      /\ tx.to \in Contracts /\ frames' = <<f>> /\ setup' = setup /\ relay' = relay
  BY DEF executeCall, NoCall
<1>2. /\ Available \in Int /\ Entered \in States /\ Charged \in States /\ before \in States
      /\ tx.from \in Addresses /\ tx.to \in Addresses /\ tx.value \in Int
      /\ tx.gas \in Nat /\ tx.price \in Nat
  BY SetupFacts, EnteredTyped DEF TypeInv
<1>3. Begun(f, tx.to, Available, Entered)
  BY <1>1, <1>2, BeginTyped
<1> HIDE DEF f
<1>4. /\ f.self = tx.to /\ f.list = <<>> /\ f.refund = 0 /\ f.shared = {}
      /\ f.cached = Entered.balance[tx.to]
  BY <1>3 DEF Begun
<1>5. Len(frames') = 1 /\ frames'[1] = f
  BY <1>1
<1>7. Entered.exits = before.exits
  BY EnteredExits DEF TypeInv
<1>8. /\ state = before /\ relay = before.exits /\ saved = <<before>>
  BY <1>1 DEF BeginInv
<1>9. ListInv'
  <2> DEFINE h == frames'[1].list
  <2>1. h = <<>>
    BY <1>4, <1>5
  <2>2. GoodList(h) /\ Prior(h) = Entered /\ RefundOf(h) = 0 /\ Len(h) = 0
    BY <2>1, EmptyList
  <2> HIDE DEF h
  <2>3. (GoodList(frames[1].list))' /\ (Prior(frames[1].list))' = Entered
    BY <1>1, <2>2, FixedList DEF h
  <2> QED BY <1>1, <1>4, <1>5, <1>7, <1>8, <2>2, <2>3, Fixed DEF ListInv, h
<1>10. Len(saved') = 2 /\ saved'[2] = Charged
  BY <1>1, <1>8
<1> QED BY <1>1, <1>5, <1>9, <1>10, Fixed DEF CheckpointInv

-----------------------------------------------------------------------------
\* A step that opens and closes no checkpoint.
LEMMA SameCheckpoints ==
  ASSUME CheckpointInv, pc = "message", setup' = setup, saved' = saved,
         Len(frames') = Len(frames),
         Len(frames) = 1 => Remembers,
         Len(frames) > 1 => frames'[1].list = frames[1].list
  PROVE  CheckpointInv'
<1> DEFINE h == frames'[1].list
<1>1. Len(frames) > 1 => (Prior(frames[1].list))' = Prior(frames[1].list)
  BY FixedList
<1>2. Len(frames') = 1 /\ AllSent(h) = {} => Len(saved') = 2
  BY DEF CheckpointInv, Remembers
<1> HIDE DEF h
<1> QED BY <1>1, <1>2, Fixed DEF CheckpointInv, h

\* A message is sent.
LEMMA SendCheckpoints ==
  ASSUME TypeInv, CheckpointInv, ListInv, pc = "message", setup' = setup,
         NEW ins \in setup.code, Top.left >= OpGas, ins.op = "CALL", SendStep(ins),
         frames'[1].list = frames[1].list
  PROVE  CheckpointInv'
<1> DEFINE n == Len(frames)
           h == frames'[1].list
<1>1. n \in Nat \ {0} /\ Len(saved) \in Nat /\ Len(saved) >= n + 1
  BY RunningFacts
<1>2. /\ Len(saved') = Len(saved) + 1 /\ saved'[Len(saved) + 1] = state
      /\ \A k \in 1 .. Len(saved) : saved'[k] = saved[k]
      /\ Len(frames') = n + 1
  BY SendFacts
<1>3. (Prior(frames[1].list))' = Prior(frames[1].list)
  BY FixedList
<1> HIDE DEF n, h
<1>4. saved'[2] = Charged
  <2>1. 2 \in 1 .. Len(saved)
    BY <1>1
  <2> QED BY <1>2, <2>1 DEF CheckpointInv
<1>5. ~LeavesCheckpoint => Len(saved') = n + 2
  <2>1. ~LeavesCheckpoint => Len(saved) = n + 1
    BY DEF CheckpointInv, n
  <2> QED BY <1>1, <1>2, <2>1
<1>6. ~LeavesCheckpoint => saved'[3] = Prior(frames[1].list)
  <2> SUFFICES ASSUME ~LeavesCheckpoint PROVE saved'[3] = Prior(frames[1].list)
    OBVIOUS
  <2>1. Len(saved) = n + 1
    BY DEF CheckpointInv, n
  <2>2. CASE n = 1
    <3>1. saved'[3] = state
      BY <1>2, <2>1, <2>2
    <3> QED BY <2>2, <3>1 DEF ListInv, n
  <2>3. CASE n # 1
    <3>1. 3 \in 1 .. Len(saved) /\ n > 1
      BY <1>1, <2>1, <2>3
    <3> QED BY <1>2, <3>1 DEF CheckpointInv, n
  <2> QED BY <2>2, <2>3
<1>7. Len(frames') # 1 /\ n + 2 = Len(frames') + 1
  BY <1>1, <1>2
<1> QED BY <1>3, <1>4, <1>5, <1>6, <1>7, Fixed DEF CheckpointInv

\* A message that was sent ends.
LEMMA EndCheckpoints ==
  ASSUME TypeInv, CheckpointInv, EndStep, setup' = setup, Len(frames) # 1,
         Len(frames) = 2 => AllSent(frames'[1].list) # {}
  PROVE  /\ CheckpointInv' /\ Len(frames') \in Nat
         /\ Len(frames) # 2 => frames'[1] = frames[1] /\ Len(frames') > 1
<1>1. PICK status \in {"success", "revert", "exception"} : \E checkpoints :
        /\ pc = "message" /\ Checkpoints(status, checkpoints) /\ EndWith(status, checkpoints)
        /\ checkpoints # saved => LeavesCheckpoint
  BY DEF EndStep
<1>2. PICK checkpoints :
        /\ pc = "message" /\ Checkpoints(status, checkpoints) /\ EndWith(status, checkpoints)
        /\ checkpoints # saved => LeavesCheckpoint
  BY <1>1
<1> DEFINE n == Len(frames)
           h == frames'[1].list
<1>3. /\ checkpoints \in Seq(States) /\ Len(checkpoints) \in Nat /\ Len(checkpoints) >= n + 1
      /\ \A k \in 1 .. Len(saved) : checkpoints[k] = saved[k]
  BY <1>2, CheckpointFacts
<1>4. n \in Nat \ {0} /\ Len(saved) \in Nat /\ Len(saved) >= n + 1
  BY <1>2, RunningFacts
<1>5. /\ Len(saved') = Len(checkpoints) - 1
      /\ \A k \in 1 .. Len(checkpoints) - 1 : saved'[k] = checkpoints[k]
      /\ Len(frames') = n - 1 /\ \A k \in 1 .. n - 2 : frames'[k] = frames[k]
  BY <1>2, <1>3, EndFacts
<1>6. n # 1 /\ (n = 2 => AllSent(h) # {})
  OBVIOUS
<1> HIDE DEF n, h
<1>7. saved'[2] = Charged
  <2>1. 2 \in 1 .. Len(checkpoints) - 1 /\ 2 \in 1 .. Len(saved)
    BY <1>3, <1>4, <1>6
  <2>2. saved[2] = Charged
    BY <1>2 DEF CheckpointInv
  <2> QED BY <1>3, <1>5, <2>1, <2>2
<1>8. n # 2 => frames'[1] = frames[1] /\ Len(frames') > 1
  <2>1. n # 2 => 1 \in 1 .. n - 2
    BY <1>4, <1>6
  <2> QED BY <1>4, <1>5, <1>6, <2>1
<1>9. ~LeavesCheckpoint => Len(saved') = Len(frames') + 1
  <2>1. ~LeavesCheckpoint => Len(checkpoints) = n + 1
    BY <1>2 DEF CheckpointInv, n
  <2> QED BY <1>4, <1>5, <2>1
<1>10. Len(frames') = 1 => n = 2
  <2> DEFINE m == Len(frames')
  <2>1. m = n - 1 /\ n \in Nat
    BY <1>4, <1>5
  <2> HIDE DEF m
  <2>2. m = 1 => n = 2
    BY ONLY <2>1
  <2> QED BY <2>2 DEF m
<1>11. Len(frames') > 1 /\ ~LeavesCheckpoint => saved'[3] = Prior(h)
  <2> SUFFICES ASSUME Len(frames') > 1, ~LeavesCheckpoint PROVE saved'[3] = Prior(h)
    OBVIOUS
  <2>1. Len(checkpoints) = n + 1 /\ checkpoints = saved
    BY <1>2 DEF CheckpointInv, n
  <2>2. 3 \in 1 .. Len(checkpoints) - 1 /\ n # 2 /\ n > 1
    BY <1>4, <1>5, <2>1
  <2>3. saved'[3] = saved[3]
    BY <1>5, <2>1, <2>2
  <2>4. saved[3] = Prior(frames[1].list)
    BY <1>2, <2>1, <2>2 DEF CheckpointInv, n
  <2> QED BY <1>8, <2>2, <2>3, <2>4 DEF h
<1>12. (Prior(frames[1].list))' = Prior(h)
  BY FixedList DEF h
<1>13. Len(frames') \in Nat
  BY <1>4, <1>5, <1>6
<1> QED BY <1>6, <1>7, <1>8, <1>9, <1>10, <1>11, <1>12, <1>13, Fixed DEF CheckpointInv, n, h

-----------------------------------------------------------------------------
\* A message that is not that of the transaction has it below.
LEMMA Below ==
  ASSUME NEW n \in Nat \ {0}, n # 1
  PROVE  1 \in 1 .. n - 1 /\ n > 1
OBVIOUS

\* An instruction of a message that was sent.
LEMMA ContinueInner ==
  ASSUME TypeInv, CheckpointInv, ListInv, pc = "message", Len(frames) # 1, setup' = setup,
         pc' = pc, saved' = saved, NEW g \in MessageFrames, Continue(g)
  PROVE  ListInv' /\ CheckpointInv'
<1>1. frames \in Seq(MessageFrames) /\ frames # <<>> /\ Len(frames) \in Nat \ {0}
  BY RunningFacts
<1>2. Len(frames') = Len(frames) /\ \A k \in 1 .. Len(frames) - 1 : frames'[k] = frames[k]
  BY <1>1, ContinueFacts
<1>3. 1 \in 1 .. Len(frames) - 1 /\ Len(frames) > 1
  BY <1>1, Below
<1>4. Len(frames') \in Nat /\ Len(frames') > 1 /\ frames'[1] = frames[1]
  BY <1>1, <1>2, <1>3
<1>5. ListInv'
  BY <1>3, <1>4, InnerList
<1>6. CheckpointInv'
  BY <1>1, <1>2, <1>4, SameCheckpoints
<1> QED BY <1>5, <1>6

\* One of the message of the transaction.
LEMMA ContinueOuter ==
  ASSUME TypeInv, CheckpointInv, pc = "message", Len(frames) = 1, setup' = setup,
         saved' = saved, NEW g \in MessageFrames, Continue(g), Remembers
  PROVE  CheckpointInv'
<1>1. Len(frames') = Len(frames)
  BY ContinueFirst
<1> QED BY <1>1, SameCheckpoints

\* A call.
LEMMA CallList ==
  ASSUME TypeInv, Current, CheckpointInv, RelayInv, ListInv, NEW ins \in setup.code, Call(ins),
         setup' = setup
  PROVE  ListInv' /\ CheckpointInv'
<1>1. /\ pc = "message" /\ Top.left >= OpGas /\ ins.op = "CALL"
      /\ RefusedStep(ins) \/ ExitStep(ins) \/ SendStep(ins)
  BY CallSteps
<1>2. CASE RefusedStep(ins)
  <2> DEFINE g == Called(Caller(ins), state, FALSE)
  <2>1. CallOver(g, ins, state, 0, 0, FALSE)
    BY <1>1, RefusedFacts
  <2>2. Continue(g) /\ pc' = pc /\ saved' = saved
    BY <1>2 DEF RefusedStep
  <2> HIDE DEF g
  <2>3. g \in MessageFrames
    BY <2>1 DEF CallOver
  <2>4. CASE Len(frames) = 1
    <3>1. ListInv' /\ Remembers
      BY <1>1, <1>2, <2>4, RefusedGrows
    <3> QED BY <1>1, <2>2, <2>3, <2>4, <3>1, ContinueOuter
  <2>5. CASE Len(frames) # 1
    BY <1>1, <2>2, <2>3, <2>5, ContinueInner
  <2> QED BY <2>4, <2>5
<1>3. CASE ExitStep(ins)
  <2>1. PICK g \in MessageFrames : Continue(g)
    BY <1>1, <1>3, ExitCallFacts
  <2>2. pc' = pc /\ saved' = saved
    BY <1>3 DEF ExitStep
  <2>3. CASE Len(frames) = 1
    <3>1. ListInv' /\ Remembers
      BY <1>1, <1>3, <2>3, ExitGrows
    <3> QED BY <1>1, <2>1, <2>2, <2>3, <3>1, ContinueOuter
  <2>4. CASE Len(frames) # 1
    BY <1>1, <2>1, <2>2, <2>4, ContinueInner
  <2> QED BY <2>3, <2>4
<1>4. CASE SendStep(ins)
  <2>1. ListInv' /\ frames'[1].list = frames[1].list
    <3>1. CASE Len(frames) = 1
      BY <1>1, <1>4, <3>1, SendList
    <3>2. CASE Len(frames) # 1
      <4>1. Len(frames) \in Nat \ {0}
        BY <1>1, RunningFacts
      <4>2. /\ Len(frames') = Len(frames) + 1 /\ pc' = pc
            /\ \A k \in 1 .. Len(frames) - 1 : frames'[k] = frames[k]
        BY <1>1, <1>4, SendFacts
      <4>3. 1 \in 1 .. Len(frames) - 1 /\ Len(frames) > 1
        BY <3>2, <4>1, Below
      <4>4. Len(frames') \in Nat /\ Len(frames') > 1 /\ frames'[1] = frames[1]
        BY <4>1, <4>2, <4>3
      <4> QED BY <1>1, <4>2, <4>3, <4>4, InnerList
    <3> QED BY <3>1, <3>2
  <2> QED BY <1>1, <1>4, <2>1, SendCheckpoints
<1> QED BY <1>1, <1>2, <1>3, <1>4

\* The end of a message.
LEMMA EndList ==
  ASSUME TypeInv, CheckpointInv, ListInv, EndStep, setup' = setup
  PROVE  ListInv' /\ CheckpointInv'
<1>0. pc = "message" /\ Len(frames) \in Nat \ {0}
  BY RunningFacts DEF EndStep
<1>1. PICK status \in {"success", "revert", "exception"} : \E checkpoints :
        /\ Checkpoints(status, checkpoints) /\ EndWith(status, checkpoints)
  BY DEF EndStep
<1>2. PICK checkpoints : Checkpoints(status, checkpoints) /\ EndWith(status, checkpoints)
  BY <1>1
<1>3. checkpoints \in Seq(States) /\ Len(checkpoints) >= Len(frames) + 1
  BY <1>0, <1>2, CheckpointFacts
<1>4. CASE Len(frames) = 1
  <2>1. pc' = "paid"
    BY <1>0, <1>2, <1>3, <1>4, EndFacts
  <2> QED BY <2>1 DEF ListInv, CheckpointInv
<1>5. CASE Len(frames) = 2
  <2>1. ListInv' /\ AllSent(frames'[1].list) # {}
    BY <1>5, ReturnGrows
  <2>2. CheckpointInv'
    BY <1>5, <2>1, EndCheckpoints
  <2> QED BY <2>1, <2>2
<1>6. CASE Len(frames) \notin {1, 2}
  <2>1. /\ CheckpointInv' /\ Len(frames') \in Nat
        /\ frames'[1] = frames[1] /\ Len(frames') > 1
    BY <1>6, EndCheckpoints
  <2>2. pc' = pc
    BY <1>0, <1>2, <1>3, <1>6, EndFacts
  <2>3. Len(frames) > 1
    BY <1>0, <1>6, Below
  <2> QED BY <1>0, <2>1, <2>2, <2>3, InnerList
<1> QED BY <1>4, <1>5, <1>6

\* No step makes the records or the checkpoints wrong.
LEMMA NextList ==
  ASSUME TypeInv, Current, BeginInv, CheckpointInv, RelayInv, ListInv,
         [Next]_<<execution, claim, audit>>
  PROVE  ListInv' /\ CheckpointInv'
<1>0. setup' = setup
  BY SetupStays
<1>1. CASE UNCHANGED execution
  <2>1. pc' = pc /\ frames' = frames /\ state' = state /\ relay' = relay /\ saved' = saved
    BY <1>1 DEF execution
  <2>2. CheckpointInv'
    <3>1. (Prior(frames[1].list))' = Prior(frames'[1].list)
      BY <1>0, FixedList
    <3> QED BY <1>0, <2>1, <3>1, Fixed DEF CheckpointInv
  <2>3. ListInv'
    <3>1. /\ (Prior(frames[1].list))' = Prior(frames'[1].list)
          /\ (GoodList(frames[1].list))' <=> GoodList(frames'[1].list)
          /\ (AllTraces(frames[1].list))' = AllTraces(frames'[1].list)
      BY <1>0, FixedList, FixedTraces
    <3> QED BY <1>0, <2>1, <3>1, Fixed DEF ListInv
  <2> QED BY <2>2, <2>3
<1>2. CASE executeExitCall \/ executeTransfer \/ EndTx
  <2>1. pc' # "message"
    BY <1>2 DEF executeExitCall, executeTransfer, EndTx
  <2> QED BY <2>1 DEF ListInv, CheckpointInv
<1>3. CASE executeCall
  BY <1>3, BeginList
<1>4. CASE LookStep
  <2>1. PICK r : LET g == [Top EXCEPT !.left = @ - OpGas, !.list = Append(@, r)] IN
          /\ Looked(g, r) /\ Continue(g) /\ pc = "message" /\ pc' = pc /\ saved' = saved
    BY <1>4 DEF LookStep
  <2> DEFINE g == [Top EXCEPT !.left = @ - OpGas, !.list = Append(@, r)]
  <2>2. g \in MessageFrames /\ Continue(g) /\ pc = "message" /\ pc' = pc /\ saved' = saved
    BY <2>1 DEF Looked
  <2> HIDE DEF g
  <2>3. CASE Len(frames) = 1
    <3>1. ListInv' /\ Remembers
      BY <1>4, <2>3, LookGrows
    <3> QED BY <1>0, <2>2, <2>3, <3>1, ContinueOuter
  <2>4. CASE Len(frames) # 1
    BY <1>0, <2>2, <2>4, ContinueInner
  <2> QED BY <2>3, <2>4
<1>5. ASSUME NEW ins \in setup.code, Sstore(ins), Top.left >= OpGas + StoreGas
      PROVE  ListInv' /\ CheckpointInv'
  <2>1. PICK g \in MessageFrames :
          Continue(g) /\ pc = "message" /\ pc' = pc /\ saved' = saved
    BY <1>5, SstoreFacts
  <2>2. CASE Len(frames) = 1
    <3>1. ListInv' /\ Remembers
      BY <1>5, <2>2, SstoreGrows
    <3> QED BY <1>0, <2>1, <2>2, <3>1, ContinueOuter
  <2>3. CASE Len(frames) # 1
    BY <1>0, <2>1, <2>3, ContinueInner
  <2> QED BY <2>2, <2>3
<1> QED BY <1>0, <1>1, <1>2, <1>3, <1>4, <1>5, StepCases, EndList, CallList

-----------------------------------------------------------------------------
\* The states that a message opens and leaves have no more exits.
LEMMA NextRelay ==
  ASSUME TypeInv, BeginInv, RelayInv, [Next]_<<execution, claim, audit>>
  PROVE  RelayInv'
<1> DEFINE n == Len(relay)
           Few(s) == Len(s.exits) <= Len(relay')
<1>1. /\ setup \in Setups /\ state \in States /\ saved \in Seq(States) /\ n \in Nat
      /\ relay \in Seq(OutgoingTransactions) /\ spent \in [gas : Int, refund : Int]
  BY DEF TypeInv
<1>2. /\ Len(state.exits) <= n /\ Len(saved) \in Nat
      /\ \A i \in 1 .. Len(saved) : Len(saved[i].exits) <= n
  BY <1>1 DEF RelayInv
<1>3. SUFFICES Few(state') /\ \A i \in 1 .. Len(saved') : Few(saved'[i])
  BY DEF RelayInv
<1>4. ASSUME relay' = relay
      PROVE  Few(state) /\ \A i \in 1 .. Len(saved) : Few(saved[i])
  BY <1>2, <1>4
<1>5. ASSUME relay' = relay, saved' = saved, state'.exits = state.exits
      PROVE  Few(state') /\ \A i \in 1 .. Len(saved') : Few(saved'[i])
  BY <1>4, <1>5
<1>6. CASE UNCHANGED execution
  BY <1>5, <1>6 DEF execution
<1>7. ASSUME pc = "tx"
      PROVE  /\ state = before /\ relay = before.exits /\ saved = <<before>>
             /\ Charged.exits = state.exits /\ Entered.exits = state.exits
             /\ Charged \in States
  BY <1>1, <1>7, EnteredExits, EnteredTyped DEF BeginInv
<1>8. CASE executeExitCall
  <2> DEFINE e == Exit(Charged, tx.from, tx.value, Available, FALSE, tx.data)
  <2>1. pc = "tx" /\ state' = e.state /\ relay' = e.relay /\ saved' = saved
    BY <1>8 DEF executeExitCall
  <2>2. /\ tx.from \in Addresses /\ tx.value \in Nat /\ Available \in Int /\ tx.data \in Calldata
    <3>1. Available \in Nat /\ tx.from \in Addresses /\ tx.value \in Nat /\ tx.data \in Calldata
      BY <1>1, SetupFacts DEF Calldata
    <3> QED BY <3>1
  <2>3. Exited(e, Charged, tx.from, tx.value, Available, tx.data)
    BY <1>1, <1>7, <2>1, <2>2, ExitFacts
  <2> HIDE DEF e
  <2>4. CASE e.status # "success"
    BY <1>5, <1>7, <2>1, <2>3, <2>4 DEF Exited
  <2>5. CASE e.status = "success"
    <3>1. e.state.exits = e.relay
      BY <1>7, <2>1, <2>2, <2>3, <2>5, ExitCounted
    <3>2. Len(relay') = n + 1 /\ Len(state'.exits) = n + 1
      BY <1>1, <2>1, <2>3, <2>5, <3>1 DEF Exited
    <3> QED BY <1>1, <1>2, <2>1, <3>2
  <2> QED BY <2>4, <2>5
<1>9. CASE executeTransfer
  BY <1>5, <1>7, <1>9 DEF executeTransfer
<1>10. CASE executeCall
  <2>1. /\ pc = "tx" /\ state' = Entered /\ relay' = relay /\ saved' = Append(saved, Charged)
    BY <1>10 DEF executeCall
  <2>2. Few(state') /\ Few(Charged)
    BY <1>4, <1>7, <2>1
  <2>3. ASSUME NEW i \in 1 .. Len(saved') PROVE Few(saved'[i])
    <3>1. saved'[i] = IF i \in 1 .. Len(saved) THEN saved[i] ELSE Charged
      BY <1>1, <1>7, <2>1
    <3> QED BY <1>4, <2>1, <2>2, <3>1
  <2> QED BY <2>2, <2>3
<1>11. CASE EndTx
  <2>1. pc = "paid" /\ state' = Payed /\ relay' = relay /\ saved' = Front(saved)
    BY <1>11 DEF EndTx
  <2>2. Payed.exits = state.exits
    BY <1>1, PayedTyped
  <2>3. Len(saved) >= Len(frames) + 1 /\ Len(frames) \in Nat
    BY <2>1 DEF TypeInv
  <2>4. /\ Len(saved') = Len(saved) - 1
        /\ \A k \in 1 .. Len(saved) - 1 : saved'[k] = saved[k]
    <3>1. Len(saved) # 0
      BY <1>2, <2>3
    <3> QED BY <1>1, <2>1, <3>1, FrontFacts
  <2>5. \A i \in 1 .. Len(saved') : i \in 1 .. Len(saved) /\ saved'[i] = saved[i]
    BY <1>2, <2>4
  <2> QED BY <1>4, <2>1, <2>2, <2>5
<1>12. CASE EndStep
  <2>1. pc = "message"
    BY <1>12 DEF EndStep
  <2>2. PICK status \in {"success", "revert", "exception"} : \E checkpoints :
          Checkpoints(status, checkpoints) /\ EndWith(status, checkpoints)
    BY <1>12 DEF EndStep
  <2>3. PICK checkpoints : Checkpoints(status, checkpoints) /\ EndWith(status, checkpoints)
    BY <2>2
  <2>4. checkpoints \in Seq(States) /\ Len(checkpoints) \in Nat /\ Len(checkpoints) >= Len(frames) + 1
    BY <2>1, <2>3, CheckpointFacts
  <2>5. /\ relay' = relay
        /\ state' = IF status = "success" THEN state ELSE checkpoints[Len(checkpoints)]
        /\ Len(saved') = Len(checkpoints) - 1
        /\ \A k \in 1 .. Len(checkpoints) - 1 : saved'[k] = checkpoints[k]
    BY <2>1, <2>3, <2>4, EndFacts
  <2>6. \A i \in 1 .. Len(checkpoints) : Few(checkpoints[i])
    <3>1. CASE checkpoints = saved
      BY <1>4, <2>5, <3>1
    <3>2. CASE checkpoints = Append(saved, state)
      <4>1. \A i \in 1 .. Len(checkpoints) :
              checkpoints[i] = IF i \in 1 .. Len(saved) THEN saved[i] ELSE state
        BY <1>1, <3>2
      <4> QED BY <1>4, <2>5, <4>1
    <3> QED BY <2>3, <3>1, <3>2 DEF Checkpoints
  <2>7. Len(frames) \in Nat
    BY <2>1, RunningFacts
  <2>8. /\ Len(checkpoints) \in 1 .. Len(checkpoints)
        /\ \A i \in 1 .. Len(saved') : i \in 1 .. Len(checkpoints) /\ i \in 1 .. Len(checkpoints) - 1
    BY <2>4, <2>5, <2>7
  <2> HIDE DEF Few
  <2>9. Few(state')
    <3>1. CASE status = "success"
      BY <1>4, <2>5, <3>1
    <3>2. CASE status # "success"
      BY <2>5, <2>6, <2>8, <3>2
    <3> QED BY <3>1, <3>2
  <2> QED BY <2>5, <2>6, <2>8, <2>9
<1>13. CASE LookStep
  <2>1. relay' = relay /\ saved' = saved /\ state' = state
    BY <1>13 DEF LookStep
  <2> QED BY <1>5, <2>1
<1>14. ASSUME NEW ins \in setup.code, Sstore(ins), Top.left >= OpGas + StoreGas
       PROVE  Few(state') /\ \A i \in 1 .. Len(saved') : Few(saved'[i])
  <2>1. relay' = relay /\ saved' = saved /\ state'.exits = state.exits
    BY <1>14, SstoreFacts
  <2> QED BY <1>5, <2>1
<1>15. ASSUME NEW ins \in setup.code, Call(ins)
       PROVE  Few(state') /\ \A i \in 1 .. Len(saved') : Few(saved'[i])
  <2>1. /\ pc = "message" /\ Top.left >= OpGas /\ ins.op = "CALL"
        /\ RefusedStep(ins) \/ ExitStep(ins) \/ SendStep(ins)
    BY <1>15, CallSteps
  <2>2. /\ Top.self \in Addresses /\ ins.value \in Nat /\ ins.value \in Int
        /\ ins.key \in Addresses /\ ins.data \in Calldata
    <3>1. Top \in MessageFrames /\ setup \in Setups
      BY <2>1, RunningFacts
    <3>2. Top.self \in Contracts
      BY <3>1, FrameParts
    <3>3. ins.value \in Nat /\ ins.key \in Addresses /\ ins.data \in Calldata
      BY <2>1, <3>1, CodeFacts
    <3> QED BY <3>2, <3>3, AddressAssumption
  <2>3. CASE RefusedStep(ins)
    BY <1>5, <2>3 DEF RefusedStep
  <2>4. CASE ExitStep(ins)
    <3> DEFINE gas == Caller(ins).call.gas
               e == Exit(state, Top.self, ins.value, gas, FALSE, ins.data)
    <3>1. state' = e.state /\ relay' = e.relay /\ saved' = saved
      BY <2>1, <2>4, ExitCallFacts
    <3>2. gas \in Int
      <4>1. gas \in Nat
        BY <2>1, CallerFacts
      <4> HIDE DEF gas
      <4> QED BY <4>1
    <3> HIDE DEF gas
    <3>3. Exited(e, state, Top.self, ins.value, gas, ins.data)
      BY <1>1, <2>2, <3>2, ExitFacts
    <3> HIDE DEF e
    <3>4. CASE e.status # "success"
      BY <1>5, <3>1, <3>3, <3>4 DEF Exited
    <3>5. CASE e.status = "success"
      <4>1. e.state.exits = e.relay
        BY <1>1, <2>2, <3>3, <3>5, ExitCounted
      <4>2. Len(relay') = n + 1 /\ Len(state'.exits) = n + 1
        BY <1>1, <3>1, <3>3, <3>5, <4>1 DEF Exited
      <4> QED BY <1>1, <1>2, <3>1, <4>2
    <3> QED BY <3>4, <3>5
  <2>5. CASE SendStep(ins)
    <3>1. /\ state' = Moved(ins) /\ relay' = relay /\ Len(saved') = Len(saved) + 1
          /\ saved'[Len(saved) + 1] = state
          /\ \A k \in 1 .. Len(saved) : saved'[k] = saved[k]
      BY <2>1, <2>5, SendFacts
    <3>2. Moved(ins).exits = state.exits
      <4> DEFINE d == Debit(state, Top.self, ins.value)
      <4>1. d \in States /\ d.exits = state.exits
        BY <1>1, <2>2, DebitFacts
      <4> HIDE DEF d
      <4>2. addToBalance(d, ins.key, ins.value).exits = d.exits
        BY <2>2, <4>1, CreditFacts DEF addToBalance
      <4> QED BY <4>1, <4>2 DEF Moved, d
    <3>3. \A i \in 1 .. Len(saved') : i \in 1 .. Len(saved) \/ i = Len(saved) + 1
      BY <1>2, <3>1
    <3> QED BY <1>4, <3>1, <3>2, <3>3
  <2> QED BY <2>1, <2>3, <2>4, <2>5
<1> QED BY <1>6, <1>8, <1>9, <1>10, <1>11, <1>12, <1>13, <1>14, <1>15, StepCases

-----------------------------------------------------------------------------
\* No step leaves that order.
LEMMA Phases ==
  ASSUME TypeInv, [Next]_<<execution, claim, audit>>
  PROVE  Phase
<1>1. CASE executeExitCall \/ executeTransfer \/ executeCall \/ EndTx
  BY <1>1 DEF Phase, executeExitCall, executeTransfer, executeCall, EndTx
<1>2. CASE EndStep
  <2>0. pc = "message" /\ Len(frames) \in Nat \ {0}
    BY <1>2, RunningFacts DEF EndStep
  <2>1. PICK status \in {"success", "revert", "exception"} : \E checkpoints :
          /\ Checkpoints(status, checkpoints) /\ EndWith(status, checkpoints)
    BY <1>2 DEF EndStep
  <2>2. PICK checkpoints : Checkpoints(status, checkpoints) /\ EndWith(status, checkpoints)
    BY <2>1
  <2>3. checkpoints \in Seq(States) /\ Len(checkpoints) >= Len(frames) + 1
    BY <2>0, <2>2, CheckpointFacts
  <2>4. (Len(frames) = 1 => pc' = "paid") /\ (Len(frames) # 1 => pc' = pc)
    BY <2>0, <2>2, <2>3, EndFacts
  <2> QED BY <1>2, <2>0, <2>4 DEF Phase
<1>3. CASE LookStep
  BY <1>3 DEF Phase, LookStep
<1>4. ASSUME NEW ins \in setup.code, Sstore(ins), Top.left >= OpGas + StoreGas PROVE Phase
  <2>1. pc = "message" /\ pc' = pc
    BY <1>4, SstoreFacts
  <2> QED BY <2>1 DEF Phase
<1>5. ASSUME NEW ins \in setup.code, Call(ins) PROVE Phase
  <2>1. pc = "message" /\ (RefusedStep(ins) \/ ExitStep(ins) \/ SendStep(ins))
    BY <1>5, CallSteps
  <2>2. pc = "message" /\ pc' = pc
    BY <1>5, <2>1, CallSteps DEF RefusedStep, ExitStep, SendStep
  <2> QED BY <2>2 DEF Phase
<1>6. CASE UNCHANGED execution
  BY <1>6 DEF Phase
<1> QED BY <1>1, <1>2, <1>3, <1>4, <1>5, <1>6, StepCases

\* Before the message nothing happens.
LEMMA NextBegin ==
  ASSUME TypeInv, BeginInv, [Next]_<<execution, claim, audit>>
  PROVE  BeginInv'
<1>0. setup' = setup /\ before' = before
  BY SetupStays, Fixed
<1>1. CASE UNCHANGED execution
  BY <1>0, <1>1 DEF BeginInv, execution
<1>2. CASE executeExitCall \/ executeTransfer \/ executeCall \/ EndTx \/ pc' \in {"message", "paid"}
  <2>1. pc' # "tx"
    BY <1>2 DEF executeExitCall, executeTransfer, executeCall, EndTx
  <2> QED BY <2>1 DEF BeginInv
<1> QED BY <1>1, <1>2, Phases DEF Phase

\* The witness is sent when all is over.
LEMMA NextClaim ==
  ASSUME TypeInv, ClaimInv, [Next]_<<execution, claim, audit>>
  PROVE  ClaimInv'
<1>1. CASE UNCHANGED <<execution, claim, audit>>
  BY <1>1 DEF ClaimInv, execution
<1>2. CASE Execute /\ UNCHANGED <<claim, audit>>
  <2>1. pc # "done"
    BY <1>2 DEF Execute, executeExitCall, executeTransfer, executeCall, OutOfGas, Finish, Observe,
                Log, Sstore, Call, StaticCall, Executes, EndTx
  <2> QED BY <1>2, <2>1 DEF ClaimInv
<1>3. CASE Audit
  <2>1. pc' = pc
    BY <1>3, AuditReads DEF execution
  <2>2. claim' = claim \/ pc = "done"
    BY <1>3 DEF Audit, auditWitness, checkWitnessInputData, checkGasLimit, checkRefund,
       checkTransactionRootFailure, checkInputRoot, checkOutputRoot, checkTransactionRootSuccess,
       exitCallCheck, checkObserved, skipRecord, checkSstore, checkCall, checkStaticCall,
       endOfList, Check, CheckRecord
  <2> QED BY <2>1, <2>2 DEF ClaimInv
<1> QED BY <1>1, <1>2, <1>3 DEF Next

-----------------------------------------------------------------------------
\* What is said of a witness depends on the transaction alone.
LEMMA FixedWitness ==
  ASSUME setup' = setup, NEW h
  PROVE  /\ GivenWitness(h)' <=> GivenWitness(h)
         /\ ExitWitness(h)' <=> ExitWitness(h)
         /\ CallWitness(h)' <=> CallWitness(h)
         /\ \A s : (Settled(s, h)' <=> Settled(s, h)) /\ PayedFrom(s, h)' = PayedFrom(s, h)
<1>1. /\ tx' = tx /\ before' = before /\ Available' = Available
      /\ Charged' = Charged /\ Entered' = Entered /\ LeavesCheckpoint' = LeavesCheckpoint
      /\ origin' = origin
  BY Fixed
<1>2. (GoodList(h.list)' <=> GoodList(h.list)) /\ Prior(h.list)' = Prior(h.list)
  BY FixedList
<1>3. GivenWitness(h)' <=> GivenWitness(h)
  <2>1. MessageWitness(h.stateRootEnter, h.stateRootLeave, h.gasUsed, h.refund, h.list, h.status)'
          = MessageWitness(h.stateRootEnter, h.stateRootLeave, h.gasUsed, h.refund, h.list, h.status)
    BY <1>1 DEF MessageWitness
  <2> QED BY <1>1, <2>1 DEF GivenWitness
<1>4. ExitWitness(h)' <=> ExitWitness(h)
  BY <1>1 DEF ExitWitness, outgoingTransactionFromCallInputs, updateExitsRoot
<1>5. CallWitness(h)' <=> CallWitness(h)
  BY <1>1, <1>2 DEF CallWitness
<1>6. ASSUME NEW s PROVE (Settled(s, h)' <=> Settled(s, h)) /\ PayedFrom(s, h)' = PayedFrom(s, h)
  BY <1>1 DEF Settled, PayedFrom
<1> QED BY <1>3, <1>4, <1>5, <1>6

\* The state in which a witness leaves the transaction.
LEMMA GivesWitness ==
  ASSUME setup' = setup, pc' = "paid", NEW h, witness' = h, GivenWitness(h),
         spent' = [gas |-> h.gasUsed, refund |-> h.refund],
         IF tx.to = Relay THEN ExitWitness(h) ELSE CallWitness(h),
         Settled(state', h)
  PROVE  WitnessInv'
<1>1. /\ (GivenWitness(witness))' /\ Settled(state, witness)'
      /\ (ExitWitness(witness))' <=> ExitWitness(h)
      /\ (CallWitness(witness))' <=> CallWitness(h)
  BY FixedWitness
<1> QED BY <1>1, Fixed DEF WitnessInv

\* A transfer.
LEMMA TransferWitness ==
  ASSUME TypeInv, BeginInv, executeTransfer, setup' = setup
  PROVE  WitnessInv'
<1> DEFINE h == MessageWitness(Entered, Entered, 0, 0, <<>>, "success")
<1>1. /\ pc = "tx" /\ pc' = "paid" /\ witness' = h /\ state' = Entered /\ spent' = spent
      /\ tx.to \notin Contracts \cup {Relay, Precompile}
  BY DEF executeTransfer
<1>2. /\ h.caller = tx.from /\ h.to = tx.to /\ h.context = tx.to /\ h.callvalue = tx.value
      /\ h.gasAvailable = Available /\ h.calldata = tx.data
      /\ h.isStatic = FALSE /\ h.origin = origin /\ h.gasPrice = tx.price
      /\ h.stateRootEnter = Entered /\ h.stateRootLeave = Entered
      /\ h.list = <<>> /\ h.refund = 0 /\ h.gasUsed = 0 /\ h.status = "success"
      /\ h = MessageWitness(h.stateRootEnter, h.stateRootLeave, h.gasUsed, h.refund, h.list, h.status)
  BY DEF MessageWitness
<1>3. Available \in Nat /\ Entered \in States
  BY SetupFacts, EnteredTyped DEF TypeInv
<1> HIDE DEF h
<1>4. GivenWitness(h)
  BY <1>2, <1>3 DEF GivenWitness
<1>5. CallWitness(h)
  BY <1>2, EmptyList DEF CallWitness
<1>6. Settled(state', h)
  BY <1>1, <1>2, <1>3 DEF Settled
<1>7. spent' = [gas |-> h.gasUsed, refund |-> h.refund]
  BY <1>1, <1>2 DEF BeginInv
<1> QED BY <1>1, <1>4, <1>5, <1>6, <1>7, GivesWitness

\* Who signs a transaction can pay for its value after its gas.
LEMMA CanPay ==
  ASSUME setup \in Setups, ~tx.incoming
  PROVE  Charged.balance[tx.from] >= tx.value
<1>1. /\ tx.gas \in Nat /\ tx.price \in Nat /\ tx.value \in Nat /\ before \in States
      /\ tx.from \in Addresses
  BY SetupFacts
<1> DEFINE cost == tx.gas * tx.price
           d == Debit(before, tx.from, cost)
           n == [d.nonce EXCEPT ![tx.from] = @ + 1]
<1>2. cost \in Int
  BY <1>1
<1>3. before.balance[tx.from] >= cost + tx.value
  BY SetupAssumption DEF tx, before, getUpfrontCost
<1>4. before.balance[tx.from] \in Int /\ tx.from \in DOMAIN before.balance
  BY <1>1, StateParts
<1> HIDE DEF cost
<1>5. d.balance = [before.balance EXCEPT ![tx.from] = @ - cost] /\ d \in States
  BY <1>1, <1>2, DebitFacts
<1>6. Charged.balance = d.balance
  <2>1. Charged = [d EXCEPT !.nonce[tx.from] = @ + 1]
    BY DEF Charged, cost
  <2> HIDE DEF d
  <2> QED BY <1>5, <2>1 DEF States
<1> HIDE DEF d
<1> QED BY <1>1, <1>2, <1>3, <1>4, <1>5, <1>6

\* An exit.
LEMMA ExitsWitness ==
  ASSUME TypeInv, BeginInv, executeExitCall, setup' = setup
  PROVE  WitnessInv'
<1> DEFINE e == Exit(Charged, tx.from, tx.value, Available, FALSE, tx.data)
           h == MessageWitness(e.enter, e.state, Available, 0, <<>>, e.status)
<1>1. /\ pc = "tx" /\ pc' = "paid" /\ witness' = h /\ state' = e.state
      /\ spent' = [gas |-> Available, refund |-> 0] /\ tx.to = Relay
  BY DEF executeExitCall
<1>2. /\ h.caller = tx.from /\ h.to = tx.to /\ h.context = tx.to /\ h.callvalue = tx.value
      /\ h.gasAvailable = Available /\ h.calldata = tx.data
      /\ h.isStatic = FALSE /\ h.origin = origin /\ h.gasPrice = tx.price
      /\ h.stateRootEnter = e.enter /\ h.stateRootLeave = e.state
      /\ h.list = <<>> /\ h.refund = 0 /\ h.gasUsed = Available /\ h.status = e.status
      /\ h = MessageWitness(h.stateRootEnter, h.stateRootLeave, h.gasUsed, h.refund, h.list, h.status)
  BY DEF MessageWitness
<1>3. /\ Available \in Nat /\ Charged \in States /\ tx.from \in Addresses /\ tx.value \in Nat
      /\ tx.data \in Calldata /\ relay \in Seq(OutgoingTransactions)
  BY SetupFacts, EnteredTyped DEF TypeInv, Calldata
<1>4. relay = before.exits
  BY <1>1 DEF BeginInv
<1>5. Available \in Int
  BY <1>3
<1>6. Exited(e, Charged, tx.from, tx.value, Available, tx.data) /\ e.state \in States
      /\ e.status \in {"success", "exception"}
  BY <1>3, <1>5, ExitFacts
<1>7. ~tx.incoming => Charged.balance[tx.from] >= tx.value
  BY CanPay DEF TypeInv
<1> HIDE DEF e, h
<1>8. GivenWitness(h)
  BY <1>2, <1>3, <1>6 DEF GivenWitness
<1>9. ExitWitness(h)
  BY <1>2, <1>4, <1>6, <1>7 DEF ExitWitness, Exited
<1>10. Settled(state', h)
  BY <1>1, <1>2, <1>6 DEF Settled, Exited
<1> QED BY <1>1, <1>2, <1>8, <1>9, <1>10, GivesWitness

\* The message of the transaction ends.
LEMMA EndsWitness ==
  ASSUME TypeInv, GasInv, CheckpointInv, ListInv, EndStep, Len(frames) = 1, setup' = setup
  PROVE  WitnessInv'
<1>1. PICK status \in {"success", "revert", "exception"} : \E checkpoints :
        /\ pc = "message" /\ Checkpoints(status, checkpoints) /\ EndWith(status, checkpoints)
        /\ checkpoints # saved => LeavesCheckpoint
  BY DEF EndStep
<1>2. PICK checkpoints :
        /\ pc = "message" /\ Checkpoints(status, checkpoints) /\ EndWith(status, checkpoints)
        /\ checkpoints # saved => LeavesCheckpoint
  BY <1>1
<1> DEFINE used == UsedGas(status)
           refund == Refunds(status)
           l == Top.list
           h == MessageWitness(Entered, state, used, refund, l, status)
<1>3. checkpoints \in Seq(States) /\ Len(checkpoints) >= Len(frames) + 1
  BY <1>2, CheckpointFacts
<1>4. /\ pc' = "paid" /\ witness' = h /\ spent' = [gas |-> used, refund |-> refund]
      /\ state' = (IF status = "success" THEN state ELSE checkpoints[Len(checkpoints)])
      /\ state' \in States
  BY <1>2, <1>3, EndFacts
<1>5. /\ h.caller = tx.from /\ h.to = tx.to /\ h.context = tx.to /\ h.callvalue = tx.value
      /\ h.gasAvailable = Available /\ h.calldata = tx.data
      /\ h.isStatic = FALSE /\ h.origin = origin /\ h.gasPrice = tx.price
      /\ h.stateRootEnter = Entered /\ h.stateRootLeave = state
      /\ h.list = l /\ h.refund = refund /\ h.gasUsed = used /\ h.status = status
      /\ h = MessageWitness(h.stateRootEnter, h.stateRootLeave, h.gasUsed, h.refund, h.list, h.status)
  BY DEF MessageWitness
<1>6. Top = frames[1] /\ Top \in MessageFrames /\ state \in States
  BY <1>2, RunningFacts
<1>7. /\ Top.self = tx.to /\ GoodList(l) /\ state = Prior(l)
      /\ AllSent(l) = AllFailed(l) => Top.refund = RefundOf(l)
  BY <1>2, <1>6 DEF ListInv
<1>8. Top.self \in Contracts /\ l \in Seq(Records) /\ Top.refund \in Int
  BY <1>6, FrameParts
<1>9. /\ refund \in Int /\ (status # "success" => refund = 0)
      /\ status = "success" => refund = Top.refund
  BY <1>8 DEF Refunds
<1>10. Top.limit = Available
  <2>1. frames # <<>>
    BY <1>2, RunningFacts
  <2> QED BY <1>6, <2>1 DEF GasInv
<1>11. 0 <= used /\ used <= Available /\ used \in Int
  <2>1. Top.left \in Int /\ Top.limit \in Int /\ 0 <= Top.left /\ Top.left <= Top.limit
    BY <1>2, TopGas
  <2> QED BY <1>10, <2>1 DEF UsedGas
<1> HIDE DEF used, refund, l, h
<1>12. GivenWitness(h)
  BY <1>5, <1>6, <1>8, <1>9, <1>11 DEF GivenWitness, l
<1>13. CallWitness(h)
  BY <1>5, <1>7, <1>8, <1>9 DEF CallWitness
<1>14. Settled(state', h)
  <2> SUFFICES ASSUME status # "success",
                      ~(LeavesCheckpoint /\ (status = "exception" \/ AllSent(l) # {}))
               PROVE  state' = Charged
    BY <1>4, <1>5 DEF Settled
  <2>1. checkpoints = saved
    BY <1>2 DEF Checkpoints
  <2>2. Len(saved) = 2
    <3>1. CASE LeavesCheckpoint
      <4>1. AllSent(frames[1].list) = {}
        BY <1>6, <3>1 DEF l
      <4> QED BY <1>2, <4>1 DEF CheckpointInv
    <3>2. CASE ~LeavesCheckpoint
      BY <1>2, <3>2 DEF CheckpointInv
    <3> QED BY <3>1, <3>2
  <2>3. saved[2] = Charged
    BY <1>2 DEF CheckpointInv
  <2> QED BY <1>4, <2>1, <2>2, <2>3
<1>15. tx.to # Relay
  BY <1>7, <1>8, AddressAssumption
<1> QED BY <1>4, <1>5, <1>12, <1>13, <1>14, <1>15, GivesWitness

\* The gas is paid for.
LEMMA EndTxWitness ==
  ASSUME TypeInv, WitnessInv, EndTx, setup' = setup
  PROVE  WitnessInv'
<1> DEFINE h == witness
<1>1. pc = "paid" /\ pc' = "done" /\ witness' = h /\ spent' = spent /\ state' = Payed
  BY DEF EndTx
<1>2. /\ GivenWitness(h) /\ Settled(state, h)
      /\ spent = [gas |-> h.gasUsed, refund |-> h.refund]
      /\ IF tx.to = Relay THEN ExitWitness(h) ELSE CallWitness(h)
  BY <1>1 DEF WitnessInv
<1>3. Payed = PayedFrom(state, h)
  BY <1>2 DEF Payed, PayedFrom
<1> HIDE DEF h
<1>4. /\ (GivenWitness(witness))'
      /\ (ExitWitness(witness))' <=> ExitWitness(h)
      /\ (CallWitness(witness))' <=> CallWitness(h)
      /\ \A s : (Settled(s, witness)' <=> Settled(s, h)) /\ PayedFrom(s, witness)' = PayedFrom(s, h)
  BY <1>1, <1>2, FixedWitness
<1> DEFINE s == state
<1>5. Settled(s, h) /\ state' = PayedFrom(s, h)
  BY <1>1, <1>2, <1>3
<1> HIDE DEF s
<1>6. \E t \in States : Settled(t, witness)' /\ state' = PayedFrom(t, witness)'
  <2>1. s \in States
    BY DEF TypeInv, s
  <2> QED BY <1>4, <1>5, <2>1
<1>7. States' = States
  OBVIOUS
<1>8. (\E t \in States : Settled(t, witness) /\ state = PayedFrom(t, witness))'
  BY <1>6
<1> QED BY <1>1, <1>2, <1>4, <1>8, Fixed DEF WitnessInv

\* No step makes the witness wrong.
LEMMA NextWitness ==
  ASSUME TypeInv, GasInv, BeginInv, CheckpointInv, ListInv, WitnessInv,
         [Next]_<<execution, claim, audit>>
  PROVE  WitnessInv'
<1>0. setup' = setup
  BY SetupStays
<1>1. CASE UNCHANGED execution
  <2>1. pc' = pc /\ witness' = witness /\ spent' = spent /\ state' = state
    BY <1>1 DEF execution
  <2>2. /\ (GivenWitness(witness))' <=> GivenWitness(witness')
        /\ (ExitWitness(witness))' <=> ExitWitness(witness')
        /\ (CallWitness(witness))' <=> CallWitness(witness')
        /\ \A s : (Settled(s, witness)' <=> Settled(s, witness'))
                  /\ PayedFrom(s, witness)' = PayedFrom(s, witness')
        /\ Settled(state, witness)' <=> Settled(state', witness')
    BY <1>0, FixedWitness
  <2>3. (\E t \in States : Settled(t, witness) /\ state = PayedFrom(t, witness))'
          <=> \E t \in States : Settled(t, witness) /\ state = PayedFrom(t, witness)
    BY <2>1, <2>2
  <2> QED BY <1>0, <2>1, <2>2, <2>3, Fixed DEF WitnessInv
<1>2. CASE executeTransfer
  BY <1>0, <1>2, TransferWitness
<1>3. CASE executeExitCall
  BY <1>0, <1>3, ExitsWitness
<1>4. CASE EndStep /\ Len(frames) = 1
  BY <1>0, <1>4, EndsWitness
<1>5. CASE EndTx
  BY <1>0, <1>5, EndTxWitness
<1>6. CASE executeCall \/ pc' = "message"
  <2>1. pc' = "message"
    BY <1>6 DEF executeCall
  <2> QED BY <2>1 DEF WitnessInv
<1> QED BY <1>1, <1>2, <1>3, <1>4, <1>5, <1>6, Phases DEF Phase

-----------------------------------------------------------------------------
\* Together they are an invariant.
LEMMA NextHonest ==
  TypeInv /\ Current /\ HonestInv /\ [Next]_<<execution, claim, audit>> => HonestInv'
<1> SUFFICES ASSUME TypeInv, Current, HonestInv, [Next]_<<execution, claim, audit>>
             PROVE  HonestInv'
  OBVIOUS
<1>1. GasInv /\ BeginInv /\ CheckpointInv /\ RelayInv /\ ListInv /\ WitnessInv /\ ClaimInv
  BY DEF HonestInv
<1>2. /\ GasInv' /\ BeginInv' /\ ClaimInv' /\ ListInv' /\ CheckpointInv' /\ RelayInv'
      /\ WitnessInv'
  BY <1>1, NextGas, NextBegin, NextClaim, NextList, NextRelay, NextWitness
<1> QED BY <1>2 DEF HonestInv

\* They hold at the beginning.
LEMMA InitHonest == AuditInit => HonestInv
<1> SUFFICES ASSUME AuditInit PROVE HonestInv
  OBVIOUS
<1>1. /\ pc = "tx" /\ frames = <<>> /\ claim = NoClaim /\ state = before /\ relay = before.exits
      /\ saved = <<before>> /\ spent = [gas |-> 0, refund |-> 0]
  BY DEF AuditInit, Init, before
<1>2. GasInv
  <2>1. Len(frames) = 0 /\ 1 .. 0 = {} /\ 1 .. 0 - 1 = {}
    BY <1>1
  <2> QED BY <1>1, <2>1 DEF GasInv
<1>3. RelayInv
  <2>1. before \in States
    BY SetupFacts DEF AuditInit, Init
  <2>2. Len(before.exits) \in Nat
    BY <2>1, StateParts
  <2> QED BY <1>1, <2>2 DEF RelayInv
<1> QED BY <1>1, <1>2, <1>3 DEF HonestInv, BeginInv, CheckpointInv, ListInv, WitnessInv, ClaimInv

\* They hold always.
LEMMA HonestInvariance == Spec => [](TypeInv /\ Current /\ HonestInv)
<1>1. AuditInit => TypeInv /\ Current /\ HonestInv
  BY InitTyped, InitHonest DEF Current, AuditInit, Init
<1>2. TypeInv /\ Current /\ HonestInv /\ [Next]_<<execution, claim, audit>>
        => (TypeInv /\ Current /\ HonestInv)'
  BY NextTyped, NextCurrent, NextHonest
<1> QED BY <1>1, <1>2, PTL DEF Spec

-----------------------------------------------------------------------------
\* Such a claim is one of these.
LEMMA HonestIs ==
  ASSUME TypeInv, HonestInv, claim # NoClaim, claim = Honest
  PROVE  HonestClaim
<1>1. pc = "done"
  BY DEF HonestInv, ClaimInv
<1>2. w = witness /\ claim.root = state
  BY DEF w, Honest
<1>3. /\ GivenWitness(witness)
      /\ IF tx.to = Relay THEN ExitWitness(witness) ELSE CallWitness(witness)
      /\ \E s \in States : Settled(s, witness) /\ state = PayedFrom(s, witness)
  BY <1>1 DEF HonestInv, WitnessInv
<1>4. witness.gasUsed \in Int
  <2>1. spent = [gas |-> witness.gasUsed, refund |-> witness.refund]
    BY <1>1 DEF HonestInv, WitnessInv
  <2>2. spent.gas \in Int
    BY DEF TypeInv
  <2> QED BY <2>1, <2>2
<1> QED BY <1>2, <1>3, <1>4 DEF HonestClaim, TypeInv

\* The root before a record, for the provers.
LEMMA LastState ==
  ASSUME NEW i, w.stateRootEnter = Entered
  PROVE  getLastState(i) = RootBefore(w.list, i)
BY DEF getLastState, RootBefore, Changes

\* The messages among the records, for the provers.
LEMMA SentMessages ==
  ASSUME NEW i
  PROVE  Sent(i) = Messages(w.list, i) /\ Undone(i) = Failed(w.list, i)
BY DEF Sent, Undone, Messages, Failed

-----------------------------------------------------------------------------
\* A state is what its parts are.
LEMMA SameState ==
  ASSUME NEW s \in States, NEW u \in States,
         s.balance = u.balance, s.nonce = u.nonce, s.stored = u.stored,
         s.storage = u.storage, s.exits = u.exits
  PROVE  s = u
<1>1. /\ s = [balance |-> s.balance, nonce |-> s.nonce, stored |-> s.stored,
              storage |-> s.storage, exits |-> s.exits]
      /\ u = [balance |-> u.balance, nonce |-> u.nonce, stored |-> u.stored,
              storage |-> u.storage, exits |-> u.exits]
  BY DEF States
<1> QED BY <1>1

\* That changes nothing else.
LEMMA RaisedFacts ==
  ASSUME NEW s \in States, NEW a \in Addresses
  PROVE  /\ Raised(s, a) \in States
         /\ Raised(s, a).nonce = [s.nonce EXCEPT ![a] = @ + 1]
         /\ Raised(s, a).balance = s.balance /\ Raised(s, a).stored = s.stored
         /\ Raised(s, a).storage = s.storage /\ Raised(s, a).exits = s.exits
<1> DEFINE n == [s.nonce EXCEPT ![a] = @ + 1]
<1>1. n \in [Addresses -> Int]
  BY StateParts
<1>2. Raised(s, a) = [s EXCEPT !.nonce = n]
  BY DEF Raised
<1> HIDE DEF n
<1>3. Raised(s, a) \in States /\ Raised(s, a).nonce = n
  BY <1>1, <1>2, ReplacedPart
<1>4. /\ Raised(s, a).balance = s.balance /\ Raised(s, a).stored = s.stored
      /\ Raised(s, a).storage = s.storage /\ Raised(s, a).exits = s.exits
  BY <1>1, <1>2, ReplacedPart
<1> QED BY <1>3, <1>4 DEF n

\* Of an account that is charged twice the sum is taken.
LEMMA TwiceLess ==
  ASSUME NEW b \in [Addresses -> Int], NEW a \in Addresses, NEW c \in Int, NEW v \in Int
  PROVE  Less(Less(b, a, c), a, v) = Less(b, a, c + v)
<1> DEFINE x == Less(b, a, c)
           p == Less(x, a, v)
           d == Less(b, a, c + v)
<1>1. x \in [Addresses -> Int] /\ x[a] = b[a] - c /\ \A z \in Addresses \ {a} : x[z] = b[z]
  BY DEF Less
<1>2. b[a] \in Int /\ (b[a] - c) - v = b[a] - (c + v)
  OBVIOUS
<1> HIDE DEF x
<1>3. p \in [Addresses -> Int] /\ d \in [Addresses -> Int]
  BY <1>1 DEF Less
<1>4. ASSUME NEW z \in Addresses PROVE p[z] = d[z]
  <2>1. CASE z = a
    BY <1>1, <1>2, <2>1 DEF Less
  <2>2. CASE z # a
    BY <1>1, <2>2 DEF Less
  <2> QED BY <2>1, <2>2
<1> HIDE DEF p, d
<1>5. p = d
  BY <1>3, <1>4
<1> QED BY <1>5 DEF p, d, x

\* Of one that is charged and paid the difference.
LEMMA LessThenMore ==
  ASSUME NEW b \in [Addresses -> Int], NEW a \in Addresses, NEW c \in Int, NEW v \in Int
  PROVE  More(Less(b, a, c), a, v) = Less(b, a, c - v)
<1> DEFINE x == Less(b, a, c)
           p == More(x, a, v)
           d == Less(b, a, c - v)
<1>1. x \in [Addresses -> Int] /\ x[a] = b[a] - c /\ \A z \in Addresses \ {a} : x[z] = b[z]
  BY DEF Less
<1>2. b[a] \in Int /\ (b[a] - c) + v = b[a] - (c - v)
  OBVIOUS
<1> HIDE DEF x
<1>3. p \in [Addresses -> Int] /\ d \in [Addresses -> Int]
  BY <1>1 DEF Less, More
<1>4. ASSUME NEW z \in Addresses PROVE p[z] = d[z]
  <2>1. CASE z = a
    BY <1>1, <1>2, <2>1 DEF Less, More
  <2>2. CASE z # a
    BY <1>1, <2>2 DEF Less, More
  <2> QED BY <2>1, <2>2
<1> HIDE DEF p, d
<1>5. p = d
  BY <1>3, <1>4
<1> QED BY <1>5 DEF p, d, x

\* Two debits of one account are one of the sum.
LEMMA TwoDebits ==
  ASSUME NEW s \in States, NEW a \in Addresses, NEW c \in Int, NEW v \in Int
  PROVE  Debit(Raised(Debit(s, a, c), a), a, v) = Raised(Debit(s, a, c + v), a)
<1> DEFINE x == Debit(s, a, c)
           y == Raised(x, a)
           z == Debit(y, a, v)
           p == Debit(s, a, c + v)
           q == Raised(p, a)
<1>1. /\ x \in States /\ x.balance = [s.balance EXCEPT ![a] = @ - c] /\ x.nonce = s.nonce
      /\ x.stored = s.stored \cup {a} /\ x.storage = s.storage /\ x.exits = s.exits
  BY DebitFacts
<1>2. c + v \in Int
  OBVIOUS
<1>3. /\ p \in States /\ p.balance = [s.balance EXCEPT ![a] = @ - (c + v)] /\ p.nonce = s.nonce
      /\ p.stored = s.stored \cup {a} /\ p.storage = s.storage /\ p.exits = s.exits
  BY <1>2, DebitFacts
<1> HIDE DEF x, p
<1>4. /\ y \in States /\ y.nonce = [x.nonce EXCEPT ![a] = @ + 1] /\ y.balance = x.balance
      /\ y.stored = x.stored /\ y.storage = x.storage /\ y.exits = x.exits
  BY <1>1, RaisedFacts
<1>5. /\ q \in States /\ q.nonce = [p.nonce EXCEPT ![a] = @ + 1] /\ q.balance = p.balance
      /\ q.stored = p.stored /\ q.storage = p.storage /\ q.exits = p.exits
  BY <1>3, RaisedFacts
<1> HIDE DEF y, q
<1>6. /\ z \in States /\ z.balance = [y.balance EXCEPT ![a] = @ - v] /\ z.nonce = y.nonce
      /\ z.stored = y.stored \cup {a} /\ z.storage = y.storage /\ z.exits = y.exits
  BY <1>4, DebitFacts
<1> HIDE DEF z
<1>7. z.balance = q.balance
  <2>1. s.balance \in [Addresses -> Int]
    BY StateParts
  <2> DEFINE b == s.balance
  <2>2. b \in [Addresses -> Int]
    BY <2>1
  <2>3. z.balance = Less(Less(b, a, c), a, v)
    BY <1>1, <1>4, <1>6 DEF Less, More
  <2>4. q.balance = Less(b, a, c + v)
    BY <1>3, <1>5 DEF Less
  <2> HIDE DEF b
  <2>5. Less(Less(b, a, c), a, v) = Less(b, a, c + v)
    BY <2>2, TwiceLess
  <2> QED BY <2>3, <2>4, <2>5
<1>8. z.nonce = q.nonce /\ z.stored = q.stored /\ z.storage = q.storage /\ z.exits = q.exits
  BY <1>1, <1>3, <1>4, <1>5, <1>6
<1>9. z = q
  BY <1>5, <1>6, <1>7, <1>8, SameState
<1> QED BY <1>9 DEF x, y, z, p, q

\* A debit that is paid back in part is a smaller one.
LEMMA PaidBack ==
  ASSUME NEW s \in States, NEW a \in Addresses, NEW c \in Int, NEW v \in Int
  PROVE  Credit(Raised(Debit(s, a, c), a), a, v) = Raised(Debit(s, a, c - v), a)
<1> DEFINE x == Debit(s, a, c)
           y == Raised(x, a)
           z == Credit(y, a, v)
           p == Debit(s, a, c - v)
           q == Raised(p, a)
<1>1. /\ x \in States /\ x.balance = [s.balance EXCEPT ![a] = @ - c] /\ x.nonce = s.nonce
      /\ x.stored = s.stored \cup {a} /\ x.storage = s.storage /\ x.exits = s.exits
  BY DebitFacts
<1>2. c - v \in Int
  OBVIOUS
<1>3. /\ p \in States /\ p.balance = [s.balance EXCEPT ![a] = @ - (c - v)] /\ p.nonce = s.nonce
      /\ p.stored = s.stored \cup {a} /\ p.storage = s.storage /\ p.exits = s.exits
  BY <1>2, DebitFacts
<1> HIDE DEF x, p
<1>4. /\ y \in States /\ y.nonce = [x.nonce EXCEPT ![a] = @ + 1] /\ y.balance = x.balance
      /\ y.stored = x.stored /\ y.storage = x.storage /\ y.exits = x.exits
  BY <1>1, RaisedFacts
<1>5. /\ q \in States /\ q.nonce = [p.nonce EXCEPT ![a] = @ + 1] /\ q.balance = p.balance
      /\ q.stored = p.stored /\ q.storage = p.storage /\ q.exits = p.exits
  BY <1>3, RaisedFacts
<1> HIDE DEF y, q
<1>6. /\ z \in States /\ z.balance = [y.balance EXCEPT ![a] = @ + v] /\ z.nonce = y.nonce
      /\ z.stored = y.stored \cup {a} /\ z.storage = y.storage /\ z.exits = y.exits
  BY <1>4, CreditFacts
<1> HIDE DEF z
<1>7. z.balance = q.balance
  <2>1. s.balance \in [Addresses -> Int]
    BY StateParts
  <2> DEFINE b == s.balance
  <2>2. b \in [Addresses -> Int]
    BY <2>1
  <2>3. z.balance = More(Less(b, a, c), a, v)
    BY <1>1, <1>4, <1>6 DEF Less, More
  <2>4. q.balance = Less(b, a, c - v)
    BY <1>3, <1>5 DEF Less
  <2> HIDE DEF b
  <2>5. More(Less(b, a, c), a, v) = Less(b, a, c - v)
    BY <2>2, LessThenMore
  <2> QED BY <2>3, <2>4, <2>5
<1>8. z.nonce = q.nonce /\ z.stored = q.stored /\ z.storage = q.storage /\ z.exits = q.exits
  BY <1>1, <1>3, <1>4, <1>5, <1>6
<1>9. z = q
  BY <1>5, <1>6, <1>7, <1>8, SameState
<1> QED BY <1>9 DEF x, y, z, p, q

\* Nothing is credited to an account that has a leaf.
LEMMA NothingCredited ==
  ASSUME NEW s \in States, NEW a \in s.stored
  PROVE  Credit(s, a, 0) = s
<1> DEFINE z == Credit(s, a, 0)
<1>1. a \in Addresses /\ s.balance \in [Addresses -> Int]
  BY StateParts
<1>2. 0 \in Int
  OBVIOUS
<1>3. /\ z \in States /\ z.balance = [s.balance EXCEPT ![a] = @ + 0] /\ z.nonce = s.nonce
      /\ z.stored = s.stored \cup {a} /\ z.storage = s.storage /\ z.exits = s.exits
  BY <1>1, <1>2, CreditFacts
<1> HIDE DEF z
<1>4. z.balance = s.balance
  <2> DEFINE b == s.balance
  <2>1. b \in [Addresses -> Int] /\ z.balance = [b EXCEPT ![a] = @ + 0]
    BY <1>1, <1>3
  <2> HIDE DEF b
  <2>2. z.balance = b
    BY <1>1, <2>1
  <2> QED BY <2>2 DEF b
<1>5. z.stored = s.stored
  BY <1>3
<1>6. z = s
  BY <1>3, <1>4, <1>5, SameState
<1> QED BY <1>6 DEF z

-----------------------------------------------------------------------------
\* What the witness of such a claim says, whatever message it is of.
LEMMA ClaimFacts ==
  ASSUME HonestClaim
  PROVE  /\ w.caller = tx.from /\ w.to = tx.to /\ w.context = tx.to /\ w.callvalue = tx.value
         /\ w.gasAvailable = Available /\ w.calldata = tx.data
         /\ w.list \in Seq(Records) /\ w.refund \in Int
         /\ w.gasUsed \in Int /\ 0 <= w.gasUsed /\ w.gasUsed <= Available
         /\ w.status \in {"success", "revert", "exception"}
         /\ w.status # "success" => w.refund = 0
         /\ w.stateRootLeave \in States
BY DEF HonestClaim, GivenWitness

\* What its account is charged goes to no exit.
LEMMA ChargedParts ==
  ASSUME setup \in Setups
  PROVE  /\ Charged \in States /\ Charged.exits = before.exits
         /\ tx.incoming => Charged = before
         /\ ~tx.incoming =>
              Charged = Raised(Debit(before, tx.from, tx.gas * tx.price), tx.from)
<1>1. /\ tx.incoming \in BOOLEAN /\ tx.from \in Addresses /\ tx.gas \in Nat /\ tx.price \in Nat
      /\ before \in States /\ Charged \in States
  BY SetupFacts, EnteredTyped
<1>2. tx.gas * tx.price \in Int
  BY <1>1
<1>3. CASE tx.incoming
  BY <1>1, <1>3 DEF Charged
<1>4. CASE ~tx.incoming
  <2> DEFINE d == Debit(before, tx.from, tx.gas * tx.price)
  <2>1. d \in States /\ d.exits = before.exits
    BY <1>1, <1>2, DebitFacts
  <2>2. Charged = Raised(d, tx.from)
    BY <1>4 DEF Charged, Raised
  <2> HIDE DEF d
  <2>3. Charged.exits = before.exits
    BY <1>1, <2>1, <2>2, RaisedFacts
  <2> QED BY <1>1, <1>4, <2>2, <2>3 DEF d
<1> QED BY <1>1, <1>3, <1>4

\* The root before the message is as the peg computes it.
LEMMA InputRoot ==
  ASSUME HonestClaim, w.stateRootEnter # EntryRoot
  PROVE  WitnessMisjudged("INPUT_STATE_ROOT")
<1> SUFFICES ASSUME ~WitnessMisjudged("INPUT_STATE_ROOT") PROVE FALSE
  OBVIOUS
<1>1. /\ tx.incoming \in BOOLEAN /\ tx.from \in Addresses /\ tx.to \in Addresses
      /\ tx.gas \in Nat /\ tx.price \in Nat /\ tx.value \in Nat /\ before \in States
  BY SetupFacts DEF HonestClaim
<1>2. IF tx.incoming THEN tx.to # Relay /\ tx.value # 0
      ELSE tx.to = Relay \/ tx.value # 0 \/ tx.to \in before.stored
  BY DEF WitnessMisjudged
<1>3. /\ tx.to # Relay => w.stateRootEnter = Entered
      /\ tx.to = Relay /\ ~tx.incoming => w.stateRootEnter = Debit(Charged, tx.from, tx.value)
  BY DEF HonestClaim, ExitWitness, CallWitness
<1>4. CASE tx.incoming
  <2>1. Charged = before
    BY <1>4, ChargedParts DEF HonestClaim
  <2>2. Entered = Credit(before, tx.to, tx.value)
    BY <1>2, <1>4, <2>1 DEF Entered, addToBalance
  <2> QED BY <1>2, <1>3, <1>4, <2>2 DEF EntryRoot, EntryRootFrom
<1>5. CASE ~tx.incoming
  <2> DEFINE c == tx.gas * tx.price
             v == tx.value
             p == Raised(Debit(before, tx.from, c + v), tx.from)
  <2>1. c \in Int /\ v \in Int /\ c + v \in Int
    BY <1>1
  <2>2. Debit(Charged, tx.from, v) = p
    <3>1. Charged = Raised(Debit(before, tx.from, c), tx.from)
      BY <1>5, ChargedParts DEF HonestClaim
    <3> HIDE DEF c, v
    <3> QED BY <1>1, <2>1, <3>1, TwoDebits
  <2>3. getUpfrontCost(tx) = c + v
    BY <1>5 DEF getUpfrontCost
  <2>4. EntryRoot = IF tx.to = Relay THEN p ELSE Credit(p, tx.to, v)
    BY <1>5, <2>3 DEF EntryRoot, EntryRootFrom, Raised
  <2>5. Entered = addToBalance(p, tx.to, v)
    BY <1>5, <2>2 DEF Entered
  <2>6. v = 0 /\ tx.to \in before.stored => Credit(p, tx.to, 0) = p
    <3> DEFINE d == Debit(before, tx.from, c + v)
    <3> HIDE DEF c, v
    <3>1. d \in States /\ d.stored = before.stored \cup {tx.from}
      BY <1>1, <2>1, DebitFacts
    <3> HIDE DEF d
    <3>2. p = Raised(d, tx.from)
      BY DEF d
    <3>3. p \in States /\ p.stored = d.stored
      BY <1>1, <3>1, <3>2, RaisedFacts
    <3> HIDE DEF p
    <3> QED BY <3>1, <3>3, NothingCredited
  <2> HIDE DEF p
  <2> QED BY <1>2, <1>3, <1>5, <2>2, <2>4, <2>5, <2>6 DEF addToBalance
<1> QED BY <1>1, <1>4, <1>5

\* The root after it is that of the last record.
LEMMA OutputRoot ==
  ASSUME HonestClaim
  PROVE  ~proveWitnessExitRootError
<1> SUFFICES ASSUME w.to # Relay PROVE w.stateRootLeave = getLastState(Len(w.list) + 1)
  BY DEF proveWitnessExitRootError
<1>1. w.stateRootEnter = Entered /\ w.stateRootLeave = Prior(w.list)
  BY ClaimFacts DEF HonestClaim, CallWitness
<1> QED BY <1>1, LastState DEF Prior

\* An exit uses all gas, and nothing is refunded.
LEMMA ExitGas ==
  ASSUME HonestClaim
  PROVE  ~proveExitCallWitnessGasError
BY ClaimFacts DEF HonestClaim, ExitWitness, proveExitCallWitnessGasError

\* An exit that succeeds is added to those there were.
LEMMA ExitRoot ==
  ASSUME HonestClaim, NEW e, e.exits = w.stateRootEnter.exits, w.status = "success"
  PROVE  ~proveExitCallWitnessExitRootError(e)
<1> SUFFICES ASSUME w.to = Relay
             PROVE  w.stateRootLeave = updateExitsRoot(w.stateRootEnter, e.exits, w.caller,
                                                       w.callvalue, w.gasAvailable)
  BY DEF proveExitCallWitnessExitRootError
<1> DEFINE d == Debit(Charged, tx.from, tx.value)
<1>1. /\ w.caller = tx.from /\ w.callvalue = tx.value /\ w.gasAvailable = Available
      /\ tx.to = Relay
  BY ClaimFacts
<1>2. /\ w.stateRootEnter = d
      /\ w.stateRootLeave = updateExitsRoot(d, before.exits, tx.from, tx.value, Available)
  BY <1>1 DEF HonestClaim, ExitWitness
<1>3. d.exits = before.exits
  <2>1. tx.from \in Addresses /\ tx.value \in Int
    <3>1. tx.from \in Addresses /\ tx.value \in Nat
      BY SetupFacts DEF HonestClaim
    <3> QED BY <3>1
  <2>2. Charged \in States /\ Charged.exits = before.exits
    BY ChargedParts DEF HonestClaim
  <2> QED BY <2>1, <2>2, DebitFacts
<1> HIDE DEF d
<1> QED BY <1>1, <1>2, <1>3

-----------------------------------------------------------------------------
\* The price of what is left is the difference of the prices.
LEMMA Prices ==
  ASSUME NEW gas \in Int, NEW paid \in Int, NEW price \in Int
  PROVE  /\ gas * price \in Int /\ paid * price \in Int /\ (gas - paid) * price \in Int
         /\ (gas - paid) * price = gas * price - paid * price
         /\ gas * price - (gas - paid) * price = paid * price
OBVIOUS

\* The gas that is paid for.
LEMMA PaidGas ==
  ASSUME NEW used \in Int, NEW refund \in Int
  PROVE  /\ Refunded(used, refund) = used - Lesser(refund, used \div 2)
         /\ Refunded(used, refund) \in Int
         /\ refund = 0 /\ used >= 0 => Refunded(used, refund) = used
<1>1. used \div 2 \in Int /\ (used >= 0 => used \div 2 >= 0)
  OBVIOUS
<1> QED BY <1>1 DEF Refunded, Lesser

\* What has been paid for the message of such a claim.
LEMMA ClaimRoot ==
  ASSUME HonestClaim
  PROVE  \E s \in States :
           /\ Settled(s, w)
           /\ claim.root = PayedFrom(s, w)
           /\ tx.incoming => claim.root = s
           /\ ~tx.incoming =>
                LET paid == Refunded(w.gasUsed + getBaseFee(tx), w.refund) IN
                claim.root = Credit(Credit(s, tx.from, (tx.gas - paid) * tx.price),
                                    setup.coinbase, paid * tx.price)
<1>1. PICK s \in States : Settled(s, w) /\ claim.root = PayedFrom(s, w)
  BY DEF HonestClaim
<1>2. w.gasUsed + getBaseFee(tx) \in Int /\ w.refund \in Int
  <2>1. w.gasUsed \in Int /\ w.refund \in Int /\ getBaseFee(tx) \in Nat
    BY ClaimFacts, SetupFacts DEF HonestClaim
  <2> QED BY <2>1
<1> DEFINE used == w.gasUsed + getBaseFee(tx)
           paid == used - Lesser(w.refund, used \div 2)
<1>3. Refunded(used, w.refund) = paid
  BY <1>2, PaidGas
<1>4. PayedFrom(s, w) = IF tx.incoming THEN s
                        ELSE Credit(Credit(s, tx.from, (tx.gas - paid) * tx.price),
                                    setup.coinbase, paid * tx.price)
  BY DEF PayedFrom
<1> HIDE DEF paid
<1> QED BY <1>1, <1>3, <1>4

\* A message that succeeded leaves its root, and what is left of its gas is paid back.
LEMMA SuccessPaid ==
  ASSUME HonestClaim, ~tx.incoming, w.status = "success"
  PROVE  claim.root = SuccessRoot(w, w.stateRootLeave)
<1> DEFINE paid == Refunded(w.gasUsed + getBaseFee(tx), w.refund)
<1>1. claim.root = Credit(Credit(w.stateRootLeave, tx.from, (tx.gas - paid) * tx.price),
                          setup.coinbase, paid * tx.price)
  BY ClaimRoot DEF Settled
<1>2. paid \in Int /\ tx.gas \in Int /\ tx.price \in Int
  <2>1. w.gasUsed \in Int /\ w.refund \in Int /\ getBaseFee(tx) \in Nat
        /\ tx.gas \in Nat /\ tx.price \in Nat
    BY ClaimFacts, SetupFacts DEF HonestClaim
  <2> DEFINE used == w.gasUsed + getBaseFee(tx)
  <2>2. used \in Int
    BY <2>1
  <2> HIDE DEF used
  <2>3. Refunded(used, w.refund) \in Int
    BY <2>1, <2>2, PaidGas
  <2> QED BY <2>1, <2>3 DEF used
<1>3. SuccessRoot(w, w.stateRootLeave)
        = Credit(Credit(w.stateRootLeave, tx.from, tx.gas * tx.price - paid * tx.price),
                 setup.coinbase, paid * tx.price)
  BY ClaimFacts DEF SuccessRoot
<1> HIDE DEF paid
<1>4. (tx.gas - paid) * tx.price = tx.gas * tx.price - paid * tx.price
  BY <1>2, Prices
<1> QED BY <1>1, <1>3, <1>4

\* One that failed leaves what was there, less the gas.
LEMMA FailurePaid ==
  ASSUME HonestClaim, ~tx.incoming, w.status # "success", ~CheckpointLeaked
  PROVE  claim.root = FailureRoot
<1> DEFINE paid == w.gasUsed + getBaseFee(tx)
           cost == paid * tx.price
           c == tx.gas * tx.price
           v == (tx.gas - paid) * tx.price
<1>1. /\ w.gasUsed \in Int /\ 0 <= w.gasUsed /\ w.refund = 0 /\ getBaseFee(tx) \in Nat
      /\ tx.gas \in Nat /\ tx.price \in Nat /\ tx.from \in Addresses /\ before \in States
      /\ w.caller = tx.from
  BY ClaimFacts, SetupFacts DEF HonestClaim
<1>2. paid \in Int /\ paid >= 0
  BY <1>1
<1>3. Refunded(paid, w.refund) = paid /\ Refunded(w.gasUsed, w.refund) = w.gasUsed
  <2>1. w.refund \in Int /\ w.refund = 0 /\ w.gasUsed \in Int /\ w.gasUsed >= 0
    BY <1>1
  <2> HIDE DEF paid
  <2>2. Refunded(paid, w.refund) = paid
    BY <1>2, <2>1, PaidGas
  <2>3. Refunded(w.gasUsed, w.refund) = w.gasUsed
    BY <2>1, PaidGas
  <2> QED BY <2>2, <2>3
<1>4. claim.root = Credit(Credit(Charged, tx.from, v), setup.coinbase, cost)
  <2>1. PICK s \in States :
           /\ Settled(s, w)
           /\ claim.root = Credit(Credit(s, tx.from, v), setup.coinbase, cost)
    BY <1>3, ClaimRoot
  <2>2. ~(LeavesCheckpoint /\ (w.status = "exception" \/ AllSent(w.list) # {}))
    BY SentMessages DEF CheckpointLeaked, AllSent
  <2>3. s = Charged
    BY <2>1, <2>2 DEF Settled
  <2> QED BY <2>1, <2>3
<1>5. FailureRoot = Credit(Raised(Debit(before, tx.from, cost), tx.from), setup.coinbase, cost)
  BY <1>1, <1>3 DEF FailureRoot, FailureRootFrom, Raised
<1>6. Charged = Raised(Debit(before, tx.from, c), tx.from)
  BY ChargedParts DEF HonestClaim
<1>7. c \in Int /\ v \in Int /\ c - v = cost
  <2>1. tx.gas \in Int /\ tx.price \in Int
    BY <1>1
  <2> HIDE DEF paid
  <2> QED BY <1>2, <2>1, Prices
<1> HIDE DEF paid, cost, c, v
<1>8. Credit(Charged, tx.from, v) = Raised(Debit(before, tx.from, cost), tx.from)
  BY <1>1, <1>6, <1>7, PaidBack
<1> QED BY <1>4, <1>5, <1>8

\* The refund of a witness is that of its records, where no message disagrees.
LEMMA RefundsAgree ==
  ASSUME HonestClaim, ~RefundsDiffer
  PROVE  w.refund = SstoreRefunds
<1>1. SstoreRefunds = RefundOf(w.list)
  BY DEF SstoreRefunds, RefundOf
<1>2. CASE tx.to = Relay
  BY <1>1, <1>2, EmptyList DEF HonestClaim, ExitWitness
<1>3. CASE tx.to # Relay /\ w.status = "success"
  <2>1. \A i \in DOMAIN w.list :
          ~(w.list[i].op = "CALL" /\ w.list[i].key \in Contracts /\ w.list[i].success)
    BY <1>3 DEF RefundsDiffer
  <2>2. DOMAIN w.list = 1 .. (Len(w.list) + 1 - 1)
    <3>1. DOMAIN w.list = 1 .. Len(w.list) /\ Len(w.list) \in Nat
      BY ClaimFacts
    <3>2. Len(w.list) + 1 - 1 = Len(w.list)
      BY <3>1
    <3> QED BY <3>1, <3>2
  <2>3. AllSent(w.list) = AllFailed(w.list)
    BY <2>1, <2>2 DEF AllSent, AllFailed, Failed, Messages
  <2> QED BY <1>1, <1>3, <2>3 DEF HonestClaim, CallWitness
<1>4. CASE tx.to # Relay /\ w.status # "success"
  <2>1. w.list \in Seq(Records) /\ w.refund = 0 /\ GoodList(w.list)
    BY <1>4, ClaimFacts DEF HonestClaim, CallWitness
  <2>2. ASSUME NEW i \in 1 .. Len(w.list) PROVE RefundIn(w.list[i]) = 0
    <3> DEFINE r == w.list[i]
    <3>1. GoodStore(r, RootBefore(w.list, i))
      BY <2>1 DEF GoodList, GoodRecord
    <3>2. ~(r.op = "SSTORE" /\ r.value = 0)
      <4>1. DOMAIN w.list = 1 .. Len(w.list)
        BY <2>1
      <4> QED BY <1>4, <4>1 DEF RefundsDiffer
    <3> HIDE DEF r
    <3>3. r.op = "SSTORE" => r.refund = 0
      BY <3>1, <3>2 DEF GoodStore, updateSstoreGas
    <3> QED BY <3>3 DEF RefundIn, r
  <2> QED BY <1>1, <2>1, <2>2, NoRefunds
<1> QED BY <1>2, <1>3, <1>4

\* An exit fails where it cannot be decoded, or be paid for.
LEMMA ExitDecoded ==
  ASSUME HonestClaim, ~WitnessMisjudged("EXIT_WITNESS_ENCODING")
  PROVE  ~proveExitWitnessEncodingError
<1> DEFINE b == Charged.balance[tx.from]
<1>1. /\ w.to = Relay /\ tx.to = Relay /\ w.gasAvailable = Available /\ w.calldata = tx.data
      /\ w.status = "success" \/ ~(tx.data = "lax" \/ before.balance[tx.from] < tx.value)
  BY ClaimFacts DEF WitnessMisjudged
<1>2. w.status = "success" <=> b >= tx.value /\ tx.data = "exit" /\ Available >= ExitFee
  BY <1>1 DEF HonestClaim, ExitWitness
<1>3. b \in Int /\ tx.value \in Int /\ tx.incoming \in BOOLEAN
  <2>1. tx.from \in Addresses /\ tx.value \in Nat /\ Charged \in States /\ tx.incoming \in BOOLEAN
    BY SetupFacts, ChargedParts DEF HonestClaim
  <2> QED BY <2>1, StateParts
<1>4. tx.incoming => b = before.balance[tx.from]
  BY ChargedParts DEF HonestClaim
<1>5. ~tx.incoming => b >= tx.value
  BY CanPay DEF HonestClaim
<1> HIDE DEF b
<1>6. w.status = "success" \/ b >= tx.value
  BY <1>1, <1>3, <1>4, <1>5
<1>7. fromExitCalldata(tx.data, Available) <=> w.status = "success"
  BY <1>1, <1>2, <1>6 DEF fromExitCalldata
<1> QED BY <1>1, <1>7 DEF proveExitWitnessEncodingError, fromExitCalldata

\* The fields of an exact proof.
LEMMA ExactFacts ==
  ASSUME NEW type, NEW i
  PROVE  LET e == Exact(type, i) IN
         /\ e.type = type /\ e.index = i
         /\ type = "EXIT_CALL_WITNESS_EXIT_ROOT" => e.exits = w.stateRootEnter.exits
BY DEF Exact

\* No proof convicts the witness itself but those that are known to.
LEMMA WitnessStands ==
  ASSUME HonestClaim, NEW type \in ProvedOfWitness
  PROVE  WitnessMisjudged(type)
<1> SUFFICES ASSUME ~WitnessMisjudged(type) PROVE FALSE
  OBVIOUS
<1> DEFINE e == Exact(type, 1)
<1>1. type \in WitnessErrors /\ Proves(e)
  BY DEF ProvedOfWitness
<1>2. e.type = type /\ (type = "EXIT_CALL_WITNESS_EXIT_ROOT" => e.exits = w.stateRootEnter.exits)
  BY ExactFacts
<1> HIDE DEF e
<1>3. ProvesWitness(e)
  BY <1>1, <1>2 DEF Proves
<1>4. CASE type = "INPUT_STATE_ROOT"
  BY <1>2, <1>3, <1>4, InputRoot DEF ProvesWitness, StateRootErrors
<1>5. CASE type \in {"WITNESS_CONTEXT", "WITNESS_ENCODING"}
  BY <1>5 DEF WitnessMisjudged
<1>6. CASE type = "OUTPUT_STATE_ROOT"
  BY <1>2, <1>3, <1>6, OutputRoot DEF ProvesWitness, StateRootErrors
<1>7. CASE type = "EXIT_CALL_WITNESS_GAS"
  BY <1>2, <1>3, <1>7, ExitGas DEF ProvesWitness, StateRootErrors
<1>8. CASE type = "EXIT_CALL_WITNESS_EXIT_ROOT"
  <2>1. w.status = "success"
    BY <1>8 DEF WitnessMisjudged
  <2>2. proveExitCallWitnessExitRootError(e)
    BY <1>2, <1>3, <1>8 DEF ProvesWitness, StateRootErrors
  <2> QED BY <1>2, <1>8, <2>1, <2>2, ExitRoot
<1>9. CASE type = "SIGNED_TX_STATE_ROOT_SUCCESS"
  <2>1. proveStateRootError(e)
    BY <1>2, <1>3, <1>9 DEF ProvesWitness, StateRootErrors
  <2> QED BY <1>2, <1>9, <2>1, SuccessPaid DEF proveStateRootError
<1>10. CASE type = "SIGNED_TX_STATE_ROOT_FAILURE"
  <2>1. proveStateRootError(e)
    BY <1>2, <1>3, <1>10 DEF ProvesWitness, StateRootErrors
  <2>2. ~CheckpointLeaked
    BY <1>10 DEF WitnessMisjudged
  <2> QED BY <1>2, <1>10, <2>1, <2>2, FailurePaid DEF proveStateRootError
<1>11. CASE type = "INCOMING_TX_STATE_ROOT_SUCCESS"
  <2>1. proveStateRootError(e)
    BY <1>2, <1>3, <1>11 DEF ProvesWitness, StateRootErrors
  <2>2. tx.incoming /\ w.status = "success" /\ claim.root # w.stateRootLeave
    BY <1>2, <1>11, <2>1 DEF proveStateRootError
  <2> QED BY <2>2, ClaimRoot DEF Settled
<1>12. CASE type = "WITNESS_GAS_EXCEEDED"
  <2>1. w.gasUsed > w.gasAvailable
    BY <1>2, <1>3, <1>12 DEF ProvesWitness, StateRootErrors, proveWitnessGasExceededError
  <2>2. w.gasUsed \in Int /\ Available \in Nat /\ w.gasUsed <= Available /\ w.gasAvailable = Available
    BY ClaimFacts, SetupFacts DEF HonestClaim
  <2> QED BY <2>1, <2>2
<1>13. CASE type = "WITNESS_REFUND"
  <2>1. w.refund # SstoreRefunds
    BY <1>2, <1>3, <1>13 DEF ProvesWitness, StateRootErrors
  <2>2. ~RefundsDiffer
    BY <1>13 DEF WitnessMisjudged
  <2> QED BY <2>1, <2>2, RefundsAgree
<1>14. CASE type = "EXIT_WITNESS_ENCODING"
  <2>1. proveExitWitnessEncodingError
    BY <1>2, <1>3, <1>14 DEF ProvesWitness, StateRootErrors
  <2> QED BY <1>14, <2>1, ExitDecoded
<1> QED BY <1>1, <1>4, <1>5, <1>6, <1>7, <1>8, <1>9, <1>10, <1>11, <1>12, <1>13, <1>14
      DEF WitnessErrors, StateRootErrors

-----------------------------------------------------------------------------
\* An error of one of these types is about a record of that opcode, or about a call.
LEMMA RecordTypes ==
  /\ DOMAIN RecordOps = OwnOps \cup ExitOps
  /\ \A type \in OwnOps : RecordOps[type] = type
  /\ \A type \in ExitOps : RecordOps[type] = "CALL"
<1>1. /\ DOMAIN MessageOps = {"CALL", "STATICCALL"} \cup ExitOps
      /\ \A type \in {"CALL", "STATICCALL"} : MessageOps[type] = type
      /\ \A type \in ExitOps : MessageOps[type] = "CALL"
  BY DEF MessageOps, ExitOps
<1>2. DOMAIN RecordOps = OwnOps \cup ExitOps
  BY <1>1 DEF RecordOps, StateOps, StorageOps, OwnOps
<1>3. \A type \in DOMAIN RecordOps :
        RecordOps[type] = IF type \in DOMAIN MessageOps THEN MessageOps[type] ELSE type
  BY DEF RecordOps
<1>4. "CALL" \in OwnOps /\ "STATICCALL" \in OwnOps /\ OwnOps \cap ExitOps = {}
  BY DEF OwnOps, ExitOps
<1> QED BY <1>1, <1>2, <1>3, <1>4

\* So are all records of an honest claim.
LEMMA RecordKnown ==
  ASSUME HonestClaim, NEW i \in DOMAIN w.list
  PROVE  KnownRecord(i, w.list[i], getLastState(i))
<1>1. w.list \in Seq(Records) /\ w.context = tx.to
  BY ClaimFacts
<1>2. i \in 1 .. Len(w.list) /\ w.list # <<>>
  BY <1>1
<1>3. tx.to # Relay
  BY <1>2 DEF HonestClaim, ExitWitness
<1>4. w.stateRootEnter = Entered /\ tx.to \in Contracts /\ GoodList(w.list)
  BY <1>2, <1>3 DEF HonestClaim, CallWitness
<1>5. GoodRecord(w.list[i], RootBefore(w.list, i), Messages(w.list, i), Failed(w.list, i))
  <2>1. GoodRecord(w.list[i], RootBefore(w.list, i), Messages(w.list, i), Traces(w.list, i))
    BY <1>2, <1>4 DEF GoodList
  <2>2. Traces(w.list, i) \subseteq Failed(w.list, i)
    BY DEF Traces
  <2> QED BY <2>1, <2>2, MoreFailed
<1>6. getLastState(i) = RootBefore(w.list, i)
  BY <1>4, LastState
<1>7. Sent(i) = Messages(w.list, i) /\ Undone(i) = Failed(w.list, i)
  BY SentMessages
<1> QED BY <1>1, <1>4, <1>5, <1>6, <1>7 DEF KnownRecord

\* What a record observed of the accounts, their code and the block is what the peg finds.
LEMMA ObservedStands ==
  ASSUME NEW i, NEW r, NEW s, KnownRecord(i, r, s), NEW e, NEW type,
         type \in OwnOps \ {"SLOAD", "SSTORE", "CALL", "STATICCALL"},
         e.type = type, r.op = type, ~RecordMisjudged(type, i)
  PROVE  /\ type \in {"BALANCE", "SELFBALANCE"} => ~validateBalance(e, r, s)
         /\ type \in {"EXTCODEHASH", "EXTCODESIZE", "EXTCODECOPY"} => ~validateExtCode(e, r, s)
         /\ type \in {"COINBASE", "HEADER"} => ~validateBlockValue(e, r)
<1>1. GoodLook(r, s, Undone(i)) /\ w.context = tx.to /\ r = w.list[i] /\ s = getLastState(i)
  BY DEF KnownRecord, GoodRecord
<1>2. CASE type = "BALANCE"
  <2>1. ~(LeavesCheckpoint /\ Undone(i) # {})
    BY <1>2 DEF RecordMisjudged
  <2>2. r.value = s.balance[r.key]
    BY <1>1, <1>2, <2>1 DEF GoodLook
  <2> QED BY <1>2, <2>2 DEF validateBalance
<1>3. CASE type = "SELFBALANCE"
  <2>1. ~(LeavesCheckpoint /\ Undone(i) # {})
    BY <1>3 DEF RecordMisjudged
  <2>2. r.value = s.balance[w.context]
    BY <1>1, <1>3, <2>1 DEF GoodLook
  <2> QED BY <1>3, <2>2 DEF validateBalance
<1>4. CASE type = "EXTCODEHASH"
  <2>1. ~accountIsEmpty(s, r.key)
    BY <1>1, <1>4 DEF RecordMisjudged
  <2>2. r.value = IF r.key \in Contracts THEN "code" ELSE "empty"
    BY <1>1, <1>4, <2>1 DEF GoodLook
  <2> QED BY <1>4, <2>2 DEF validateExtCode
<1>5. CASE type = "EXTCODESIZE"
  <2>1. r.key \notin Contracts \ setup.archived
    BY <1>1, <1>5 DEF RecordMisjudged
  <2>2. r.value = IF r.key \in Contracts THEN "code" ELSE "empty"
    BY <1>1, <1>5 DEF GoodLook
  <2> QED BY <1>5, <2>1, <2>2 DEF validateExtCode
<1>6. CASE type = "EXTCODECOPY"
  BY <1>1, <1>6 DEF GoodLook, validateExtCode
<1>7. CASE type = "COINBASE"
  <2>1. setup.coinbase # Zero
    BY <1>7 DEF RecordMisjudged
  <2> QED BY <1>1, <1>7, <2>1 DEF GoodLook, validateBlockValue
<1>8. CASE type = "HEADER"
  BY <1>1, <1>8 DEF GoodLook, validateBlockValue
<1> QED BY <1>2, <1>3, <1>4, <1>5, <1>6, <1>7, <1>8 DEF OwnOps

\* What was read from storage is what its leaf says, if that is a word.
LEMMA SloadStands ==
  ASSUME NEW i, NEW r, NEW s, KnownRecord(i, r, s), NEW e, r.op = "SLOAD",
         ~RecordMisjudged("SLOAD", i)
  PROVE  ~validateSload(e, r, s)
<1> DEFINE leaf == s.storage[tx.to][r.key]
<1>1. /\ GoodLook(r, s, Undone(i)) /\ w.context = tx.to /\ r = w.list[i] /\ s = getLastState(i)
      /\ tx.to \in Contracts
  BY DEF KnownRecord, GoodRecord
<1>2. r.key \in Slots /\ (r.value = 0 \/ r.value = leaf.value)
  BY <1>1 DEF GoodLook
<1>3. leaf.form # "short" /\ ~(r.value = 0 /\ leaf # NoLeaf)
  BY <1>1 DEF RecordMisjudged
<1>4. StorageOf(s, w.context) = s.storage[tx.to]
  BY <1>1 DEF StorageOf
<1>5. CASE s.storage[tx.to] = NothingStored
  <2>1. leaf = NoLeaf
    BY <1>2, <1>5 DEF NothingStored
  <2>2. r.value = 0
    BY <1>2, <2>1 DEF NoLeaf
  <2> QED BY <1>4, <1>5, <2>2 DEF validateSload
<1>6. CASE s.storage[tx.to] # NothingStored
  <2>1. r.value = leaf.value
    BY <1>2, <1>3 DEF NoLeaf
  <2>2. Mload(leaf) = leaf.value
    BY <1>3 DEF Mload
  <2> QED BY <1>4, <1>6, <2>1, <2>2 DEF validateSload
<1> QED BY <1>5, <1>6

\* What was written is what the peg writes, in storage that had nothing.
LEMMA SstoreStands ==
  ASSUME NEW i, NEW r, NEW s, KnownRecord(i, r, s), NEW e, r.op = "SSTORE",
         ~RecordMisjudged("SSTORE", i)
  PROVE  ~validateSstore(e, r, s)
<1>1. /\ GoodStore(r, s) /\ w.context = tx.to /\ r = w.list[i] /\ s = getLastState(i)
      /\ tx.to \in Contracts
  BY DEF KnownRecord, GoodRecord
<1>2. r.value \notin 1 .. (Wide - 1) /\ StorageOf(s, w.context) = NothingStored
  BY <1>1 DEF RecordMisjudged
<1>3. s.storage[tx.to] = NothingStored
  BY <1>1, <1>2 DEF StorageOf
<1>4. r.key \in Slots /\ r.value \in Nat /\ r.refund = updateSstoreGas(r.value)
  BY <1>1 DEF GoodStore
<1>5. NewLeaf(r.value) = WordLeaf(r.value)
  <2>1. Wide \in Nat
    BY GasAssumption
  <2> DEFINE v == r.value
  <2>2. v \in Nat /\ v \notin 1 .. (Wide - 1)
    BY <1>2, <1>4
  <2> HIDE DEF v
  <2>3. v = 0 \/ v >= Wide
    BY <2>1, <2>2
  <2>4. NewLeaf(v) = WordLeaf(v)
    BY <2>3 DEF NewLeaf, WordLeaf, Short
  <2> QED BY <2>4 DEF v
<1>6. r.root = Put([s EXCEPT !.storage[w.context][r.key] = WordLeaf(r.value)], w.context)
  <2>1. r.root = Stored(s, [s.storage[tx.to] EXCEPT ![r.key] = NewLeaf(r.value)])
    BY <1>1, <1>3 DEF GoodStore
  <2>2. Stored(s, [s.storage[tx.to] EXCEPT ![r.key] = WordLeaf(r.value)])
          = Put([s EXCEPT !.storage[tx.to][r.key] = WordLeaf(r.value)], tx.to)
    BY DEF Stored
  <2> QED BY <1>1, <1>5, <2>1, <2>2
<1>7. e.storage = NothingStored => ExpectedRefund(r.value, Mload(e.storage[r.key])) = r.refund
  <2> SUFFICES ASSUME e.storage = NothingStored
               PROVE  ExpectedRefund(r.value, Mload(e.storage[r.key])) = r.refund
    OBVIOUS
  <2>1. e.storage[r.key] = NoLeaf
    BY <1>4 DEF NothingStored
  <2>2. Mload(NoLeaf) = 0
    BY DEF Mload, NoLeaf
  <2> QED BY <1>4, <2>1, <2>2 DEF ExpectedRefund, updateSstoreGas
<1> QED BY <1>2, <1>6, <1>7 DEF validateSstore

\* A message to a contract that failed has left nothing.
LEMMA CallStands ==
  ASSUME NEW i, NEW r, NEW s, KnownRecord(i, r, s), NEW e, r.op = "CALL",
         ~RecordMisjudged("CALL", i)
  PROVE  ~validateCall(e, r, s)
<1>1. GoodCall(r, s, Sent(i), Undone(i)) /\ r = w.list[i]
  BY DEF KnownRecord, GoodRecord
<1>2. ~r.success /\ r.key \in Contracts /\ ~LeavesCheckpoint
  BY <1>1 DEF RecordMisjudged
<1>3. NothingHappened(r, s)
  BY <1>1, <1>2 DEF GoodCall, NothingHappened
<1> QED BY <1>2, <1>3 DEF validateCall

\* An exit succeeded where it could be decoded and be paid for, and then only moved the value.
LEMMA ExitCallStands ==
  ASSUME NEW i, NEW r, NEW s, KnownRecord(i, r, s), NEW e, r.op = "CALL",
         e.account = s, e.owner = tx.to, e.exits = s.exits, ~RecordMisjudged("EXIT_CALL", i)
  PROVE  ~validateExitCall(e, r, s)
<1>1. GoodCall(r, s, Sent(i), Undone(i)) /\ r = w.list[i] /\ w.context = tx.to
  BY DEF KnownRecord, GoodRecord
<1> SUFFICES ASSUME r.key = Relay, fromExitCalldata(r.data, r.gas)
             PROVE  ~(IF s.balance[tx.to] < r.value THEN ~NothingHappened(r, s)
                      ELSE ~(r.success
                             /\ r.root = updateExitsRoot(Debit(s, tx.to, r.value), s.exits, tx.to,
                                                         r.value, r.gas)))
  BY <1>1 DEF validateExitCall
<1>2. CASE r.success
  <2>1. Sent(i) = {}
    BY <1>1, <1>2 DEF RecordMisjudged
  <2> QED BY <1>1, <1>2, <2>1 DEF GoodCall
<1>3. CASE ~r.success
  <2>1. r.data # "lax" /\ ~(LeavesCheckpoint /\ Undone(i) # {})
    BY <1>1, <1>3 DEF RecordMisjudged
  <2>2. r.data = "exit" /\ r.gas >= ExitFee /\ r.gas \in Int /\ ExitFee \in Nat
    BY <1>1, <2>1, GasAssumption DEF fromExitCalldata, GoodCall
  <2>3. ~(r.gas < ExitFee)
    BY <2>2
  <2>4. s.balance[tx.to] < r.value
    BY <1>1, <1>3, <2>1, <2>2, <2>3 DEF GoodCall
  <2>5. Relay \notin Contracts
    BY AddressAssumption
  <2>6. NothingHappened(r, s)
    BY <1>1, <1>3, <2>5 DEF GoodCall, NothingHappened
  <2> QED BY <2>4, <2>6
<1> QED BY <1>2, <1>3

\* Data that is no exit moved nothing.
LEMMA EncodingStands ==
  ASSUME NEW i, NEW r, NEW s, KnownRecord(i, r, s), r.op = "CALL",
         ~RecordMisjudged("EXIT_CALL_ENCODING", i)
  PROVE  ~proveExitCallEncodingError(r, s)
<1>1. GoodCall(r, s, Sent(i), Undone(i)) /\ r = w.list[i]
  BY DEF KnownRecord, GoodRecord
<1>2. ~(r.key \in Contracts /\ (r.success \/ LeavesCheckpoint))
  BY <1>1 DEF RecordMisjudged
<1>3. CASE ~r.success
  BY <1>1, <1>2, <1>3 DEF GoodCall, NothingHappened, proveExitCallEncodingError
<1>4. CASE r.success
  <2>1. r.key = Relay
    BY <1>1, <1>2, <1>4 DEF GoodCall
  <2>2. r.data = "exit" /\ r.gas >= ExitFee
    BY <1>1, <1>4, <2>1 DEF GoodCall
  <2> QED BY <2>2 DEF fromExitCalldata, proveExitCallEncodingError
<1> QED BY <1>3, <1>4

\* The fields of an exact proof about a record.
LEMMA ExactRecord ==
  ASSUME NEW type \in OwnOps \cup ExitOps, NEW i
  PROVE  LET e == Exact(type, i) IN
         /\ e.type = type /\ e.index = i /\ e.account = getLastState(i)
         /\ e.exits = getLastState(i).exits
         /\ type # "CALL" => e.owner = w.context
BY DEF Exact, OwnOps, ExitOps

\* No proof convicts a record but those that are known to.
LEMMA RecordStands ==
  ASSUME HonestClaim, NEW i \in DOMAIN w.list, NEW type \in ProvedOfRecord(i)
  PROVE  RecordMisjudged(type, i)
<1> SUFFICES ASSUME ~RecordMisjudged(type, i) PROVE FALSE
  OBVIOUS
<1> DEFINE r == w.list[i]
           s == getLastState(i)
<1>1. KnownRecord(i, r, s)
  BY RecordKnown
<1>2. CASE type = "ACCESS_RECORD_ENCODING"
  <2> DEFINE e == [type |-> type, index |-> i]
  <2>1. type \notin DOMAIN RecordOps /\ type \notin WitnessErrors
    BY <1>2, RecordTypes DEF OwnOps, ExitOps, WitnessErrors, StateRootErrors
  <2>2. Proves(e)
    BY <1>2, <2>1 DEF ProvedOfRecord, TypesOf
  <2>3. proveAccessRecordEncodingError(i)
    BY <1>2, <2>1, <2>2 DEF Proves
  <2> QED BY <1>2, <2>3 DEF proveAccessRecordEncodingError, RecordMisjudged
<1>3. CASE type # "ACCESS_RECORD_ENCODING"
  <2> DEFINE e == Exact(type, i)
  <2>1. type \in DOMAIN RecordOps /\ RecordOps[type] = r.op /\ Proves(e)
    BY <1>3 DEF ProvedOfRecord, TypesOf
  <2>2. type \in OwnOps \cup ExitOps
    BY <2>1, RecordTypes
  <2>3. IF type \in OwnOps THEN r.op = type ELSE r.op = "CALL"
    BY <2>1, <2>2, RecordTypes
  <2>4. /\ e.type = type /\ e.index = i /\ e.account = s /\ e.exits = s.exits
        /\ type # "CALL" => e.owner = w.context
    BY <2>2, ExactRecord
  <2>5. type \notin WitnessErrors
    BY <2>2 DEF OwnOps, ExitOps, WitnessErrors, StateRootErrors
  <2> HIDE DEF e
  <2>6. ProvesRecord(e)
    BY <1>3, <2>1, <2>4, <2>5 DEF Proves
  <2> HIDE DEF r, s
  <2>7. CASE type \in OwnOps \ {"SLOAD", "SSTORE", "CALL", "STATICCALL"}
    <3>1. r.op = type
      BY <2>3, <2>7
    <3>2. \/ type \in {"BALANCE", "SELFBALANCE"} /\ validateBalance(e, r, s)
          \/ type \in {"EXTCODEHASH", "EXTCODESIZE", "EXTCODECOPY"} /\ validateExtCode(e, r, s)
          \/ type \in {"COINBASE", "HEADER"} /\ validateBlockValue(e, r)
      BY <2>4, <2>6, <2>7 DEF ProvesRecord, OwnOps, r, s
    <3> QED BY <1>1, <2>4, <2>7, <3>1, <3>2, ObservedStands
  <2>8. CASE type = "SLOAD"
    <3>1. validateSload(e, r, s) /\ r.op = "SLOAD"
      BY <2>3, <2>4, <2>6, <2>8 DEF ProvesRecord, OwnOps, r, s
    <3> QED BY <1>1, <2>8, <3>1, SloadStands
  <2>9. CASE type = "SSTORE"
    <3>1. validateSstore(e, r, s) /\ r.op = "SSTORE"
      BY <2>3, <2>4, <2>6, <2>9 DEF ProvesRecord, OwnOps, r, s
    <3> QED BY <1>1, <2>9, <3>1, SstoreStands
  <2>10. CASE type = "CALL"
    <3>1. validateCall(e, r, s) /\ r.op = "CALL"
      BY <2>3, <2>4, <2>6, <2>10 DEF ProvesRecord, OwnOps, r, s
    <3> QED BY <1>1, <2>10, <3>1, CallStands
  <2>11. CASE type = "EXIT_CALL"
    <3>1. validateExitCall(e, r, s) /\ r.op = "CALL"
      BY <2>3, <2>4, <2>6, <2>11 DEF ProvesRecord, OwnOps, r, s
    <3>2. e.owner = tx.to
      BY <1>1, <2>4, <2>11 DEF KnownRecord
    <3> QED BY <1>1, <2>4, <2>11, <3>1, <3>2, ExitCallStands
  <2>12. CASE type = "EXIT_CALL_ENCODING"
    <3>1. proveExitCallEncodingError(r, s) /\ r.op = "CALL"
      BY <2>3, <2>4, <2>6, <2>12 DEF ProvesRecord, OwnOps, r, s
    <3> QED BY <1>1, <2>12, <3>1, EncodingStands
  <2>13. CASE type = "STATICCALL"
    <3>1. r.success /\ r.op = "STATICCALL"
      BY <2>3, <2>4, <2>6, <2>13 DEF ProvesRecord, OwnOps, r, s
    <3> QED BY <1>1, <3>1 DEF KnownRecord, GoodRecord, GoodLook
  <2> QED BY <2>2, <2>7, <2>8, <2>9, <2>10, <2>11, <2>12, <2>13 DEF ExitOps
<1> QED BY <1>2, <1>3

-----------------------------------------------------------------------------
\* Nobody can prove an error in the witness that the VM itself gave, over the root that the VM
\* itself reached, other than those that follow from a known disagreement of VM and provers.
THEOREM HonestIsNotConvicted == Spec => []HonestStands
<1>1. TypeInv /\ HonestInv => HonestStands
  <2> SUFFICES ASSUME TypeInv, HonestInv, claim # NoClaim, claim = Honest PROVE Stands
    BY DEF HonestStands
  <2>1. HonestClaim
    BY HonestIs
  <2>2. \A type \in ProvedOfWitness : WitnessMisjudged(type)
    BY <2>1, WitnessStands
  <2>3. \A i \in DOMAIN w.list : \A type \in ProvedOfRecord(i) : RecordMisjudged(type, i)
    BY <2>1, RecordStands
  <2> QED BY <2>2, <2>3 DEF Stands
<1> QED BY <1>1, HonestInvariance, PTL
-----------------------------------------------------------------------------
\* For the witness that was sent it is the root that the provers take.
LEMMA LastRootIs ==
  ASSUME NEW i
  PROVE  getLastState(i) = LastRoot(w, i)
BY DEF getLastState, LastRoot

\* Of the witness that the VM gave, it is the one before the record.
LEMMA GivenRoot ==
  ASSUME NEW h, h.stateRootEnter = Entered, NEW i
  PROVE  LastRoot(h, i) = RootBefore(h.list, i)
BY DEF LastRoot, RootBefore, Changes

\* Witnesses whose records begin alike say the same there.
LEMMA SamePrefix ==
  ASSUME NEW v, NEW h, v.stateRootEnter = h.stateRootEnter, NEW n \in Nat,
         DOMAIN v.list = 1 .. Len(v.list), DOMAIN h.list = 1 .. Len(h.list),
         Len(v.list) \in Nat, Len(h.list) \in Nat, n <= Len(v.list), n <= Len(h.list),
         \A j \in 1 .. n : v.list[j] = h.list[j]
  PROVE  /\ \A i \in 1 .. n + 1 : LastRoot(v, i) = LastRoot(h, i)
         /\ \A i \in 1 .. n : ClaimedRecord(v, i) <=> ClaimedRecord(h, i)
<1> DEFINE C(u, i) == {j \in DOMAIN u.list : j < i /\ u.list[j].op \in ChangesState}
<1>1. ASSUME NEW i \in 1 .. n + 1 PROVE LastRoot(v, i) = LastRoot(h, i)
  <2>1. C(v, i) = C(h, i) /\ C(h, i) \in SUBSET (1 .. n)
    <3>1. \A j \in 1 .. Len(v.list) : j < i => j \in 1 .. n
      OBVIOUS
    <3>2. \A j \in 1 .. Len(h.list) : j < i => j \in 1 .. n
      OBVIOUS
    <3>3. 1 .. n \subseteq 1 .. Len(v.list) /\ 1 .. n \subseteq 1 .. Len(h.list)
      OBVIOUS
    <3> QED BY <3>1, <3>2, <3>3
  <2>2. C(h, i) # {} => Max(C(h, i)) \in 1 .. n
    BY <2>1, Greatest
  <2>3. /\ LastRoot(v, i) = IF C(v, i) = {} THEN v.stateRootEnter ELSE v.list[Max(C(v, i))].root
        /\ LastRoot(h, i) = IF C(h, i) = {} THEN h.stateRootEnter ELSE h.list[Max(C(h, i))].root
    BY DEF LastRoot
  <2> HIDE DEF C
  <2> QED BY <2>1, <2>2, <2>3
<1>2. ASSUME NEW i \in 1 .. n PROVE ClaimedRecord(v, i) <=> ClaimedRecord(h, i)
  <2>1. v.list[i] = h.list[i] /\ LastRoot(v, i) = LastRoot(h, i)
    BY <1>1
  <2>2. \A j \in 1 .. i - 1 : v.list[j] = h.list[j] /\ LastRoot(v, j) = LastRoot(h, j)
    BY <1>1
  <2>3. ClaimedCall(v, i, v.list[i], LastRoot(v, i)) <=> ClaimedCall(h, i, h.list[i], LastRoot(h, i))
    BY <2>1, <2>2 DEF ClaimedCall
  <2> QED BY <2>1, <2>3 DEF ClaimedRecord
<1> QED BY <1>1, <1>2

\* What is known of it when there are records.
LEMMA GivenList ==
  ASSUME NEW h, Given(h)
  PROVE  /\ h.list \in Seq(Records) /\ Len(h.list) \in Nat /\ DOMAIN h.list = 1 .. Len(h.list)
         /\ h.gasAvailable = Available /\ h.isStatic = FALSE /\ h.stateRootLeave \in States
         /\ \A i \in 1 .. Len(h.list) :
              /\ h.list[i] \in Records /\ tx.to \in Contracts /\ h.stateRootEnter = Entered
              /\ GoodRecord(h.list[i], LastRoot(h, i), Messages(h.list, i), Traces(h.list, i))
<1>1. /\ h.list \in Seq(Records) /\ h.gasAvailable = Available /\ h.isStatic = FALSE
      /\ h.stateRootLeave \in States
  BY DEF Given, GivenWitness
<1>2. Len(h.list) \in Nat /\ DOMAIN h.list = 1 .. Len(h.list)
  BY <1>1
<1>3. ASSUME NEW i \in 1 .. Len(h.list)
      PROVE  /\ h.list[i] \in Records /\ tx.to \in Contracts /\ h.stateRootEnter = Entered
             /\ GoodRecord(h.list[i], LastRoot(h, i), Messages(h.list, i), Traces(h.list, i))
  <2>1. h.list[i] \in Records /\ h.list # <<>>
    BY <1>1, <1>2
  <2>2. tx.to # Relay
    BY <2>1 DEF Given, ExitWitness
  <2>3. CallWitness(h)
    BY <2>2 DEF Given
  <2>4. tx.to \in Contracts /\ h.stateRootEnter = Entered /\ GoodList(h.list)
    BY <2>1, <2>3 DEF CallWitness
  <2> QED BY <2>1, <2>4, GivenRoot DEF GoodList
<1> QED BY <1>1, <1>2, <1>3

\* The calls that left a trace, if there are any.
LEMMA TraceExists ==
  ASSUME NEW h, h.stateRootEnter = Entered, NEW i, Traces(h.list, i) # {}
  PROVE  \E j \in 1 .. i - 1 : /\ h.list[j].op = "CALL" /\ h.list[j].key \in Contracts
                               /\ ~h.list[j].success /\ h.list[j].root # LastRoot(h, j)
BY GivenRoot DEF Traces, Failed, Messages

\* Its records claim what they may.
LEMMA GivenClaims ==
  ASSUME NEW h, Given(h)
  PROVE  \A i \in 1 .. Len(h.list) : ClaimedRecord(h, i)
<1> SUFFICES ASSUME NEW i \in 1 .. Len(h.list) PROVE ClaimedRecord(h, i)
  OBVIOUS
<1> DEFINE r == h.list[i]
           s == LastRoot(h, i)
           m == Messages(h.list, i)
           f == Traces(h.list, i)
<1>1. r \in Records /\ tx.to \in Contracts /\ GoodRecord(r, s, m, f)
  BY GivenList
<1> HIDE DEF r, s, m, f
<1>2. r.op = "EXTCODECOPY" /\ r.key \in Contracts => r.value \in BOOLEAN
  BY <1>1 DEF GoodRecord, GoodLook
<1>3. r.op = "SSTORE" => ClaimedStore(r)
  <2> SUFFICES ASSUME r.op = "SSTORE" PROVE ClaimedStore(r)
    OBVIOUS
  <2>1. /\ r.key \in Slots /\ r.value \in Nat /\ r.root.storage[tx.to][r.key] = NewLeaf(r.value)
    BY <1>1 DEF GoodRecord, GoodStore
  <2> QED BY <1>1, <2>1 DEF ClaimedStore
<1>4. r.op = "CALL" => ClaimedCall(h, i, r, s)
  <2> SUFFICES ASSUME r.op = "CALL" PROVE ClaimedCall(h, i, r, s)
    OBVIOUS
  <2>1. /\ r.value \in Nat /\ r.gas \in Int /\ ~(r.key = Relay /\ r.success /\ r.root = s)
    BY <1>1 DEF GoodRecord, GoodCall
  <2>2. r.success \in BOOLEAN
    BY <1>1 DEF Records
  <2> QED BY <1>1, <2>1, <2>2 DEF ClaimedCall
<1> QED BY <1>2, <1>3, <1>4 DEF ClaimedRecord, r, s

\* A changed record claims what it may.
LEMMA ChangedClaims ==
  ASSUME NEW h, Given(h), NEW i \in 1 .. Len(h.list), NEW v,
         NEW r \in ChangedRecords(h.list[i]), v.list[i] = r,
         LastRoot(v, i) = LastRoot(h, i),
         \A j \in 1 .. i - 1 : v.list[j] = h.list[j] /\ LastRoot(v, j) = LastRoot(h, j)
  PROVE  ClaimedRecord(v, i) /\ r.op # "DELEGATECALL"
<1> DEFINE o == h.list[i]
           s == LastRoot(h, i)
           m == Messages(h.list, i)
           f == Traces(h.list, i)
<1>1. o \in Records /\ tx.to \in Contracts /\ GoodRecord(o, s, m, f) /\ h.stateRootEnter = Entered
  BY GivenList
<1>2. \/ \E x : r = [o EXCEPT !.value = x] /\ (o.op = "EXTCODECOPY" => x = ~o.value)
                /\ (o.op \in {"SSTORE", "CALL"} => x = o.value + 1)
      \/ o.op \in ChangesState /\ r = [o EXCEPT !.root = Wrong]
      \/ o.op \in ChangesState /\ r = [o EXCEPT !.success = ~o.success]
      \/ o.op \in ChangesState /\ r = [o EXCEPT !.refund = @ + 1]
      \/ o.op = "STATICCALL" /\ r = [o EXCEPT !.success = ~o.success]
  BY DEF ChangedRecords
<1>3. ClaimedRecord(h, i)
  BY GivenClaims
<1>4. \A j \in 1 .. i - 1 : v.list[j] = h.list[j] /\ LastRoot(v, j) = LastRoot(h, j)
  OBVIOUS
<1>5. s = LastRoot(v, i) /\ r = v.list[i]
  OBVIOUS
<1> HIDE DEF o, s, m, f
<1>6. /\ r.op = o.op /\ r.key = o.key /\ r.gas = o.gas /\ r.data = o.data
      /\ o.op = "EXTCODECOPY" => r.value = ~o.value
      /\ o.op = "SSTORE" => r.value \in {o.value, o.value + 1} /\ r.root \in {o.root, Wrong}
      /\ o.op = "CALL" =>
           \/ r.value = o.value + 1 /\ r.root = o.root /\ r.success = o.success
           \/ r.value = o.value /\ r.root = Wrong /\ r.success = o.success
           \/ r.value = o.value /\ r.root = o.root /\ r.success \in {o.success, ~o.success}
  <2>1. CASE \E x : r = [o EXCEPT !.value = x] /\ (o.op = "EXTCODECOPY" => x = ~o.value)
                    /\ (o.op \in {"SSTORE", "CALL"} => x = o.value + 1)
    BY <1>1, <2>1 DEF Records
  <2>2. CASE o.op \in ChangesState /\ r = [o EXCEPT !.root = Wrong]
    BY <1>1, <2>2 DEF Records, ChangesState
  <2>3. CASE o.op \in ChangesState /\ r = [o EXCEPT !.success = ~o.success]
    BY <1>1, <2>3 DEF Records, ChangesState
  <2>4. CASE o.op \in ChangesState /\ r = [o EXCEPT !.refund = @ + 1]
    BY <1>1, <2>4 DEF Records, ChangesState
  <2>5. CASE o.op = "STATICCALL" /\ r = [o EXCEPT !.success = ~o.success]
    BY <1>1, <2>5 DEF Records
  <2> QED BY <1>2, <2>1, <2>2, <2>3, <2>4, <2>5 DEF o
<1>7. o.op # "DELEGATECALL" /\ o.success \in BOOLEAN /\ o.root \in States \cup {NoRoot}
  BY <1>1 DEF Records, Observers, GlobalStateRecords, HeaderRecords
<1>8. r.op = "EXTCODECOPY" => r.value \in BOOLEAN
  BY <1>6
<1>9. r.op = "SSTORE" => ClaimedStore(r)
  <2> SUFFICES ASSUME r.op = "SSTORE" PROVE ClaimedStore(r)
    OBVIOUS
  <2>1. /\ o.key \in Slots /\ o.value \in Nat /\ o.root.storage[tx.to][o.key] = NewLeaf(o.value)
    BY <1>1, <1>6 DEF GoodRecord, GoodStore
  <2>2. r.value \in Nat /\ o.value \in {r.value, r.value - 1}
    <3>1. r.value = o.value \/ r.value = o.value + 1
      BY <1>6
    <3> QED BY <2>1, <3>1
  <2>3. r.root = Wrong \/ r.root.storage[tx.to][r.key] = NewLeaf(o.value)
    BY <1>6, <2>1
  <2> QED BY <1>1, <1>6, <2>1, <2>2, <2>3 DEF ClaimedStore
<1>10. r.op = "CALL" => ClaimedCall(v, i, r, s)
  <2> SUFFICES ASSUME r.op = "CALL" PROVE ClaimedCall(v, i, r, s)
    OBVIOUS
  <2>1. GoodCall(o, s, m, f) /\ o.op = "CALL"
    BY <1>1, <1>6 DEF GoodRecord
  <2>2. /\ o.value \in Nat /\ o.gas \in Int /\ ~(o.key = Relay /\ o.success /\ o.root = s)
    BY <2>1 DEF GoodCall
  <2>3. r.value \in Nat /\ r.gas \in Int /\ r.success \in BOOLEAN
    <3>1. r.value = o.value \/ r.value = o.value + 1
      BY <1>6, <2>1
    <3>2. r.value \in Nat /\ r.gas \in Int
      BY <1>6, <2>2, <3>1
    <3>3. r.success = o.success \/ r.success = ~o.success
      BY <1>6, <2>1
    <3>4. r.success \in BOOLEAN
      BY <1>7, <3>3
    <3> QED BY <3>2, <3>4
  <2>4. ASSUME r.key = Relay, r.success, r.root = s, s \in States, ~(s.balance[tx.to] < r.value),
               decodes(r.data, r.gas)
        PROVE  \E j \in 1 .. i - 1 : /\ v.list[j].op = "CALL" /\ v.list[j].key \in Contracts
                                     /\ ~v.list[j].success /\ v.list[j].root # LastRoot(v, j)
    <3>1. r.value = o.value /\ ~o.success /\ o.key = Relay
      BY <1>6, <2>1, <2>2, <2>4, RootAssumption
    <3>2. r.data = "exit" /\ r.gas >= ExitFee /\ r.gas \in Int /\ ExitFee \in Nat
      BY <2>3, <2>4, GasAssumption DEF decodes
    <3>3. ~(o.gas < ExitFee) /\ o.data = "exit" /\ ~(s.balance[tx.to] < o.value)
      BY <1>6, <2>4, <3>1, <3>2
    <3>4. f # {}
      BY <2>1, <3>1, <3>3 DEF GoodCall
    <3>5. PICK j \in 1 .. i - 1 : /\ h.list[j].op = "CALL" /\ h.list[j].key \in Contracts
                                  /\ ~h.list[j].success /\ h.list[j].root # LastRoot(h, j)
      BY <1>1, <3>4, TraceExists DEF f
    <3>6. v.list[j] = h.list[j] /\ LastRoot(v, j) = LastRoot(h, j)
      BY <1>4
    <3> QED BY <3>5, <3>6
  <2> QED BY <1>1, <2>3, <2>4 DEF ClaimedCall
<1> QED BY <1>5, <1>6, <1>7, <1>8, <1>9, <1>10 DEF ClaimedRecord

-----------------------------------------------------------------------------
\* What is sent of a witness whose records are not changed.
LEMMA SameListClaims ==
  ASSUME NEW h, Given(h), NEW v, v.list = h.list,
         v.gasAvailable = h.gasAvailable \/ v.isStatic = h.isStatic,
         v.stateRootEnter \in {h.stateRootEnter, Wrong}
  PROVE  ClaimedOf(v)
<1>1. /\ h.list \in Seq(Records) /\ Len(h.list) \in Nat /\ DOMAIN h.list = 1 .. Len(h.list)
      /\ h.gasAvailable = Available /\ h.isStatic = FALSE
      /\ \A i \in 1 .. Len(h.list) : h.list[i] \in Records
  BY GivenList
<1>2. \A i \in 1 .. Len(h.list) : h.list[i].op # "DELEGATECALL"
  BY <1>1 DEF Records, Observers, GlobalStateRecords, HeaderRecords
<1>3. ASSUME v.stateRootEnter # Wrong, NEW i \in 1 .. Len(h.list) PROVE ClaimedRecord(v, i)
  <2> DEFINE n == Len(h.list)
  <2>1. /\ v.stateRootEnter = h.stateRootEnter /\ n \in Nat /\ n <= n
        /\ DOMAIN h.list = 1 .. n /\ DOMAIN v.list = 1 .. n /\ Len(v.list) = n
        /\ \A j \in 1 .. n : v.list[j] = h.list[j]
    BY <1>1, <1>3
  <2>2. ClaimedRecord(v, i) <=> ClaimedRecord(h, i)
    BY <1>1, <2>1, SamePrefix
  <2> QED BY <2>2, GivenClaims
<1> QED BY <1>1, <1>2, <1>3 DEF ClaimedOf

\* Of one whose last record is changed.
LEMMA LastChangedClaims ==
  ASSUME NEW h, Given(h), h.list # <<>>, NEW r \in ChangedRecords(h.list[Len(h.list)]), NEW v,
         v.list = [h.list EXCEPT ![Len(h.list)] = r], v.gasAvailable = h.gasAvailable,
         v.stateRootEnter = h.stateRootEnter
  PROVE  ClaimedOf(v)
<1> DEFINE n == Len(h.list)
<1>1. /\ h.list \in Seq(Records) /\ n \in Nat /\ DOMAIN h.list = 1 .. n
      /\ h.gasAvailable = Available
      /\ \A i \in 1 .. n : h.list[i] \in Records
  BY GivenList
<1>2. n > 0 /\ n \in 1 .. n /\ n - 1 \in Nat
  BY <1>1
<1>3. /\ DOMAIN v.list = 1 .. n /\ v.list[n] = r
      /\ \A j \in 1 .. n - 1 : v.list[j] = h.list[j]
  BY <1>1, <1>2
<1>4. Len(v.list) = n
  BY <1>1
<1> HIDE DEF n
<1>5. /\ \A i \in 1 .. n : LastRoot(v, i) = LastRoot(h, i)
      /\ \A i \in 1 .. n - 1 : ClaimedRecord(v, i) <=> ClaimedRecord(h, i)
  <2> DEFINE m == n - 1
  <2>1. m \in Nat /\ m <= n /\ m + 1 = n
    BY <1>1, <1>2
  <2> HIDE DEF m
  <2>2. /\ \A i \in 1 .. m + 1 : LastRoot(v, i) = LastRoot(h, i)
        /\ \A i \in 1 .. m : ClaimedRecord(v, i) <=> ClaimedRecord(h, i)
    <3>1. /\ Len(h.list) = n /\ Len(v.list) = n /\ DOMAIN h.list = 1 .. n /\ DOMAIN v.list = 1 .. n
          /\ \A j \in 1 .. m : v.list[j] = h.list[j]
      BY <1>1, <1>3, <1>4 DEF n, m
    <3> QED BY <1>1, <2>1, <3>1, SamePrefix
  <2> QED BY <2>1, <2>2 DEF m
<1>6. ClaimedRecord(v, n) /\ r.op # "DELEGATECALL"
  <2>1. n = Len(h.list) /\ \A j \in 1 .. n - 1 : j \in 1 .. n
    BY <1>1 DEF n
  <2>2. \A j \in 1 .. n - 1 : v.list[j] = h.list[j] /\ LastRoot(v, j) = LastRoot(h, j)
    BY <1>3, <1>5, <2>1
  <2>3. /\ n \in 1 .. Len(h.list) /\ r \in ChangedRecords(h.list[n]) /\ v.list[n] = r
        /\ LastRoot(v, n) = LastRoot(h, n)
    BY <1>2, <1>3, <1>5, <2>1
  <2> QED BY <2>2, <2>3, ChangedClaims
<1>7. \A i \in 1 .. n : ClaimedRecord(v, i) /\ v.list[i].op # "DELEGATECALL"
  <2> SUFFICES ASSUME NEW i \in 1 .. n
               PROVE  ClaimedRecord(v, i) /\ v.list[i].op # "DELEGATECALL"
    OBVIOUS
  <2>1. CASE i = n
    BY <1>3, <1>6, <2>1
  <2>2. CASE i # n
    <3>1. i \in 1 .. n - 1
      BY <1>1, <2>2
    <3>2. ClaimedRecord(h, i)
      BY GivenClaims DEF n
    <3>3. v.list[i].op # "DELEGATECALL"
      BY <1>1, <1>3, <3>1 DEF Records, Observers, GlobalStateRecords, HeaderRecords
    <3> QED BY <1>5, <3>1, <3>2, <3>3
  <2> QED BY <2>1, <2>2
<1> QED BY <1>1, <1>3, <1>4, <1>7 DEF ClaimedOf

\* Of one that lacks the last record.
LEMMA FrontClaims ==
  ASSUME NEW h, Given(h), h.list # <<>>, NEW v, v.list = Front(h.list),
         v.gasAvailable = h.gasAvailable, v.stateRootEnter = h.stateRootEnter
  PROVE  ClaimedOf(v)
<1> DEFINE n == Len(h.list)
           m == n - 1
<1>1. /\ h.list \in Seq(Records) /\ n \in Nat /\ DOMAIN h.list = 1 .. n
      /\ h.gasAvailable = Available
      /\ \A i \in 1 .. n : h.list[i] \in Records
  BY GivenList
<1>2. m \in Nat /\ m <= n
  BY <1>1
<1>3. /\ Front(h.list) \in Seq(Records) /\ Len(Front(h.list)) = m
      /\ \A j \in 1 .. m : Front(h.list)[j] = h.list[j]
  BY <1>1, FrontFacts
<1>4. DOMAIN v.list = 1 .. m /\ Len(v.list) = m /\ \A j \in 1 .. m : v.list[j] = h.list[j]
  BY <1>3
<1> HIDE DEF m
<1>5. \A i \in 1 .. m : ClaimedRecord(v, i) <=> ClaimedRecord(h, i)
  BY <1>1, <1>2, <1>4, SamePrefix
<1>6. \A i \in 1 .. m : i \in 1 .. n
  BY <1>1, <1>2
<1>7. \A i \in 1 .. m : ClaimedRecord(v, i) /\ v.list[i].op # "DELEGATECALL"
  <2>1. \A i \in 1 .. n : h.list[i].op # "DELEGATECALL"
    BY <1>1 DEF Records, Observers, GlobalStateRecords, HeaderRecords
  <2> QED BY <1>4, <1>5, <1>6, <2>1, GivenClaims
<1> QED BY <1>1, <1>2, <1>4, <1>7 DEF ClaimedOf

\* Of one with a record more.
LEMMA ForgedClaims ==
  ASSUME NEW h, Given(h), NEW r \in Forged, NEW v, v.list = Append(h.list, r),
         v.gasAvailable = h.gasAvailable, v.stateRootEnter = h.stateRootEnter,
         v.stateRootLeave = h.stateRootLeave
  PROVE  ClaimedOf(v)
<1> DEFINE n == Len(h.list)
<1>1. /\ h.list \in Seq(Records) /\ n \in Nat /\ DOMAIN h.list = 1 .. n
      /\ h.gasAvailable = Available /\ h.stateRootLeave \in States
      /\ \A i \in 1 .. n : h.list[i] \in Records
  BY GivenList
<1>2. /\ DOMAIN v.list = 1 .. n + 1 /\ Len(v.list) = n + 1 /\ v.list[n + 1] = r
      /\ \A j \in 1 .. n : v.list[j] = h.list[j]
  BY <1>1
<1> HIDE DEF n
<1>3. \A i \in 1 .. n : ClaimedRecord(v, i) <=> ClaimedRecord(h, i)
  <2>1. Len(h.list) = n /\ n <= n + 1 /\ n <= n /\ n + 1 \in Nat
    BY <1>1 DEF n
  <2> QED BY <1>1, <1>2, <2>1, SamePrefix
<1>4. r.root = NoRoot /\ r.op \in {"LOG", "BLOCKHASH", "DELEGATECALL", "STATICCALL"}
  BY DEF Forged, Record
<1>5. ClaimedRecord(v, n + 1)
  BY <1>2, <1>4 DEF ClaimedRecord
<1>6. \A i \in 1 .. n : ClaimedRecord(v, i) /\ v.list[i].op # "DELEGATECALL"
  <2>1. \A i \in 1 .. n : h.list[i].op # "DELEGATECALL"
    BY <1>1 DEF Records, Observers, GlobalStateRecords, HeaderRecords
  <2> QED BY <1>2, <1>3, <2>1, GivenClaims DEF n
<1>7. \A i \in 1 .. n + 1 : i \in 1 .. n \/ i = n + 1
  BY <1>1
<1> QED BY <1>1, <1>2, <1>4, <1>5, <1>6, <1>7 DEF ClaimedOf

\* So every witness that may be sent claims what it may.
LEMMA SentClaims ==
  ASSUME TypeInv, WitnessInv, pc = "done", NEW v \in {witness} \cup ChangedWitnesses
  PROVE  ClaimedOf(v)
<1> DEFINE h == witness
<1>1. Given(h)
  BY DEF Given, WitnessInv, TypeInv
<1>2. /\ h = MessageWitness(h.stateRootEnter, h.stateRootLeave, h.gasUsed, h.refund, h.list, h.status)
      /\ h.list \in Seq(Records)
  BY <1>1 DEF Given, GivenWitness
<1>3. CASE v = h
  BY <1>1, <1>3, SameListClaims
<1>4. CASE v \in ChangedWitnesses
  <2>1. \/ \E x : \/ v = [h EXCEPT !.stateRootEnter = Wrong] \/ v = [h EXCEPT !.stateRootLeave = x]
                  \/ v = [h EXCEPT !.isStatic = x] \/ v = [h EXCEPT !.origin = x]
                  \/ v = [h EXCEPT !.caller = x] \/ v = [h EXCEPT !.to = x]
                  \/ v = [h EXCEPT !.callvalue = x] \/ v = [h EXCEPT !.gasPrice = x]
                  \/ v = [h EXCEPT !.gasAvailable = x] \/ v = [h EXCEPT !.gasUsed = x]
                  \/ v = [h EXCEPT !.refund = x] \/ v = [h EXCEPT !.calldata = x]
                  \/ v = [h EXCEPT !.context = x] \/ v = [h EXCEPT !.status = x]
        \/ \E r \in Forged : v = [h EXCEPT !.list = Append(@, r)]
        \/ h.list # <<>> /\ v = [h EXCEPT !.list = Front(@)]
        \/ h.list # <<>> /\ \E r \in ChangedRecords(Last(h.list)) :
                               v = [h EXCEPT !.list[Len(h.list)] = r]
    BY <1>4 DEF ChangedWitnesses
  <2> DEFINE a == h.stateRootEnter
             b == h.stateRootLeave
             c == h.gasUsed
             d == h.refund
             l == h.list
             e == h.status
  <2>2. h = MessageWitness(a, b, c, d, l, e)
    BY <1>2
  <2> HIDE DEF h, a, b, c, d, l, e
  <2>3. CASE \E x : \/ v = [h EXCEPT !.stateRootEnter = Wrong] \/ v = [h EXCEPT !.stateRootLeave = x]
                    \/ v = [h EXCEPT !.isStatic = x] \/ v = [h EXCEPT !.origin = x]
                    \/ v = [h EXCEPT !.caller = x] \/ v = [h EXCEPT !.to = x]
                    \/ v = [h EXCEPT !.callvalue = x] \/ v = [h EXCEPT !.gasPrice = x]
                    \/ v = [h EXCEPT !.gasAvailable = x] \/ v = [h EXCEPT !.gasUsed = x]
                    \/ v = [h EXCEPT !.refund = x] \/ v = [h EXCEPT !.calldata = x]
                    \/ v = [h EXCEPT !.context = x] \/ v = [h EXCEPT !.status = x]
    <3>1. /\ v.list = h.list /\ (v.gasAvailable = h.gasAvailable \/ v.isStatic = h.isStatic)
          /\ v.stateRootEnter \in {h.stateRootEnter, Wrong}
      BY <2>2, <2>3 DEF MessageWitness
    <3> QED BY <1>1, <3>1, SameListClaims
  <2>4. CASE \E r \in Forged : v = [h EXCEPT !.list = Append(@, r)]
    <3>1. PICK r \in Forged : v = [h EXCEPT !.list = Append(@, r)]
      BY <2>4
    <3>2. /\ v.list = Append(h.list, r) /\ v.gasAvailable = h.gasAvailable
          /\ v.stateRootEnter = h.stateRootEnter /\ v.stateRootLeave = h.stateRootLeave
      BY <2>2, <3>1 DEF MessageWitness
    <3> QED BY <1>1, <3>2, ForgedClaims
  <2>5. CASE h.list # <<>> /\ v = [h EXCEPT !.list = Front(@)]
    <3>1. /\ v.list = Front(h.list) /\ v.gasAvailable = h.gasAvailable
          /\ v.stateRootEnter = h.stateRootEnter
      BY <2>2, <2>5 DEF MessageWitness
    <3> QED BY <1>1, <2>5, <3>1, FrontClaims
  <2>6. CASE h.list # <<>> /\ \E r \in ChangedRecords(Last(h.list)) :
                                 v = [h EXCEPT !.list[Len(h.list)] = r]
    <3>1. PICK r \in ChangedRecords(Last(h.list)) : v = [h EXCEPT !.list[Len(h.list)] = r]
      BY <2>6
    <3>2. /\ v.list = [h.list EXCEPT ![Len(h.list)] = r] /\ v.gasAvailable = h.gasAvailable
          /\ v.stateRootEnter = h.stateRootEnter
      BY <2>2, <3>1 DEF MessageWitness
    <3>3. Last(h.list) = h.list[Len(h.list)]
      BY DEF Last
    <3> QED BY <1>1, <2>6, <3>2, <3>3, LastChangedClaims
  <2> QED BY <2>1, <2>3, <2>4, <2>5, <2>6
<1> QED BY <1>3, <1>4

-----------------------------------------------------------------------------
\* What is said of a claim depends on the transaction and the claim alone.
LEMMA FixedClaims ==
  ASSUME setup' = setup, NEW v
  PROVE  ClaimedOf(v)' <=> ClaimedOf(v)
<1>1. tx' = tx /\ Available' = Available
  BY Fixed
<1>2. ASSUME NEW r PROVE ClaimedStore(r)' <=> ClaimedStore(r)
  BY <1>1 DEF ClaimedStore
<1>3. ASSUME NEW i, NEW r, NEW s PROVE ClaimedCall(v, i, r, s)' <=> ClaimedCall(v, i, r, s)
  BY <1>1 DEF ClaimedCall
<1>4. ASSUME NEW i PROVE ClaimedRecord(v, i)' <=> ClaimedRecord(v, i)
  BY <1>2, <1>3 DEF ClaimedRecord
<1> QED BY <1>1, <1>4 DEF ClaimedOf

\* So does what an audit compares with.
LEMMA FixedTree ==
  ASSUME setup' = setup, saved' = saved, claim' = claim
  PROVE  /\ w' = w /\ tx' = tx /\ before' = before /\ Available' = Available
         /\ \A i : getLastState(i)' = getLastState(i)
         /\ Reverted' = Reverted /\ Entry' = Entry
         /\ \A s : EntryRootFrom(s)' = EntryRootFrom(s) /\ FailureRootFrom(s)' = FailureRootFrom(s)
         /\ \A v, s : SuccessRoot(v, s)' = SuccessRoot(v, s)
         /\ SstoreRefunds' = SstoreRefunds
         /\ (Exiting' <=> Exiting)
<1>1. w' = w /\ tx' = tx /\ before' = before /\ Available' = Available
  BY Fixed DEF w
<1>2. \A i : getLastState(i)' = getLastState(i)
  BY <1>1 DEF getLastState
<1>3. \A s : EntryRootFrom(s)' = EntryRootFrom(s)
  BY <1>1 DEF EntryRootFrom
<1>4. \A s : FailureRootFrom(s)' = FailureRootFrom(s)
  BY <1>1 DEF FailureRootFrom
<1>8. Reverted' = Reverted
  BY <1>1 DEF Reverted
<1>9. Entry' = Entry
  BY <1>1, <1>8 DEF Entry, EntryRootFrom
<1>5. \A v, s : SuccessRoot(v, s)' = SuccessRoot(v, s)
  BY <1>1 DEF SuccessRoot
<1>6. SstoreRefunds' = SstoreRefunds
  BY <1>1 DEF SstoreRefunds
<1>7. (Exiting' <=> Exiting)
  BY <1>1 DEF Exiting
<1> QED BY <1>1, <1>2, <1>3, <1>4, <1>5, <1>6, <1>7, <1>8, <1>9

\* And what an audit has found.
LEMMA FixedAudit ==
  ASSUME setup' = setup, saved' = saved, claim' = claim
  PROVE  \A p, a, i : AuditAt(p, a, i)' <=> AuditAt(p, a, i)
<1>1. /\ w' = w /\ tx' = tx /\ before' = before /\ Available' = Available
      /\ \A i : getLastState(i)' = getLastState(i)
      /\ Reverted' = Reverted /\ Entry' = Entry /\ (Exiting' <=> Exiting)
  BY FixedTree
<1>2. ASSUME NEW x PROVE Rank(x)' = Rank(x)
  BY <1>1 DEF Rank
<1>3. ASSUME NEW p PROVE PlanFits(p)' <=> PlanFits(p)
  <2>1. Ordered(p)' <=> Ordered(p)
    BY <1>2 DEF Ordered
  <2> QED BY <1>1, <2>1 DEF PlanFits
<1>4. ASSUME NEW p PROVE Checked(p)' <=> Checked(p)
  BY <1>1 DEF Checked
<1>5. ASSUME NEW a, NEW i PROVE Tracks(a, i)' <=> Tracks(a, i)
  <2>1. DebitKept(i)' <=> DebitKept(i)
    BY <1>1 DEF DebitKept
  <2>2. InStep(a, i)' <=> InStep(a, i)
    BY <1>1 DEF InStep
  <2> QED BY <1>1, <2>1, <2>2 DEF Tracks
<1>6. ASSUME NEW p, NEW a, NEW i PROVE AuditAt(p, a, i)' <=> AuditAt(p, a, i)
  <2>1. /\ PlanFits(p)' <=> PlanFits(p)
        /\ Checked(p)' <=> Checked(p)
        /\ Tracks(a, i)' <=> Tracks(a, i)
    BY <1>3, <1>4, <1>5
  <2> QED BY <1>1, <2>1 DEF AuditAt
<1> QED BY <1>6

\* And why a check has failed, if the auditor does nothing more.
LEMMA FixedFinds ==
  ASSUME setup' = setup, saved' = saved, claim' = claim, witness' = witness, audited' = audited,
         index' = index
  PROVE  \A check, e : Finds(check, e)' <=> Finds(check, e)
<1>1. /\ w' = w /\ tx' = tx /\ before' = before /\ Available' = Available
      /\ \A i : getLastState(i)' = getLastState(i)
      /\ \A s : EntryRootFrom(s)' = EntryRootFrom(s) /\ FailureRootFrom(s)' = FailureRootFrom(s)
      /\ \A v, s : SuccessRoot(v, s)' = SuccessRoot(v, s)
      /\ SstoreRefunds' = SstoreRefunds
  BY FixedTree
<1>2. \A type, a, b : Error(type, a, b)' = Error(type, a, b)
  BY <1>1 DEF Error
<1>3. \A type : WitnessError(type)' = WitnessError(type)
  BY <1>2 DEF WitnessError
<1>4. record' = record /\ \A a : Balance(a)' = Balance(a)
  BY <1>1 DEF record, Balance
<1>5. ASSUME NEW e PROVE FindsInExit(e)' <=> FindsInExit(e)
  BY <1>1, <1>3 DEF FindsInExit, updateExitsRoot, outgoingTransactionFromCallInputs
<1>6. ASSUME NEW e PROVE FindsInCall(e)' <=> FindsInCall(e)
  BY <1>1, <1>2, <1>4 DEF FindsInCall
<1>7. ASSUME NEW e PROVE FindsInStore(e)' <=> FindsInStore(e)
  BY <1>1, <1>2, <1>4 DEF FindsInStore
<1>8. Deviates' <=> Deviates
  BY <1>1, <1>4 DEF Deviates, checkBalance, checkExtCode, checkHeader, checkSload
<1>9. ASSUME NEW e PROVE FindsInList(e)' <=> FindsInList(e)
  BY <1>1, <1>2, <1>4, <1>6, <1>7, <1>8 DEF FindsInList
<1>10. ASSUME NEW check, NEW e PROVE Finds(check, e)' <=> Finds(check, e)
  <2>1. ContextDiffers' <=> ContextDiffers
    BY <1>1 DEF ContextDiffers
  <2>2. LeaveDiffers' <=> LeaveDiffers
    BY <1>1 DEF LeaveDiffers
  <2>3. EndDiffers(e)' <=> EndDiffers(e)
    <3>1. CASE tx.incoming
      <4>1. WitnessError("INCOMING_TX_STATE_ROOT_SUCCESS")'
              = WitnessError("INCOMING_TX_STATE_ROOT_SUCCESS")
        BY <1>3
      <4> QED BY <1>1, <3>1, <4>1 DEF EndDiffers
    <3>2. CASE ~tx.incoming
      <4>1. /\ WitnessError("SIGNED_TX_STATE_ROOT_SUCCESS")'
                 = WitnessError("SIGNED_TX_STATE_ROOT_SUCCESS")
            /\ SuccessRoot(w, audited)' = SuccessRoot(w, audited)
        BY <1>1, <1>3
      <4> QED BY <1>1, <3>2, <4>1 DEF EndDiffers
    <3> QED BY <3>1, <3>2
  <2>4. /\ WitnessError("WITNESS_CONTEXT")' = WitnessError("WITNESS_CONTEXT")
        /\ WitnessError("WITNESS_GAS_EXCEEDED")' = WitnessError("WITNESS_GAS_EXCEEDED")
        /\ WitnessError("WITNESS_REFUND")' = WitnessError("WITNESS_REFUND")
        /\ WitnessError("SIGNED_TX_STATE_ROOT_FAILURE")'
             = WitnessError("SIGNED_TX_STATE_ROOT_FAILURE")
        /\ WitnessError("INPUT_STATE_ROOT")' = WitnessError("INPUT_STATE_ROOT")
    BY <1>3
  <2>5. (FindsInExit(e)' <=> FindsInExit(e)) /\ (FindsInList(e)' <=> FindsInList(e))
    BY <1>5, <1>9
  <2>6. /\ w' = w /\ tx' = tx
        /\ EntryRootFrom(audited)' = EntryRootFrom(audited)
        /\ FailureRootFrom(audited)' = FailureRootFrom(audited)
        /\ SstoreRefunds' = SstoreRefunds /\ claim' = claim
    BY <1>1
  <2> QED BY <2>1, <2>2, <2>3, <2>4, <2>5, <2>6 DEF Finds
<1> QED BY <1>10

-----------------------------------------------------------------------------
\* Ranks are numbers.
LEMMA RankTyped == \A check : Rank(check) \in Nat
<1> SUFFICES ASSUME NEW check PROVE Rank(check) \in Nat
  OBVIOUS
<1>1. CASE check \in CheckNames \ {"success root"}
  BY <1>1 DEF Rank, CheckNames
<1>2. CASE check \notin CheckNames \ {"success root"}
  BY <1>2 DEF Rank, CheckNames
<1> QED BY <1>1, <1>2

\* Two parts make one.
LEMMA Joined ==
  ASSUME NEW m \in Int, NEW n \in Int, NEW i \in Int, NEW j \in Int, NEW p, NEW q,
         Between(p, m, n), Between(q, i, j), n < i, m <= i, n <= j
  PROVE  /\ Between(p \o q, m, j)
         /\ \A check : Left(check, p \o q) <=> Left(check, p) \/ Left(check, q)
<1> DEFINE r == p \o q
           a == Len(p)
           b == Len(q)
<1>1. p \in Seq(CheckNames) /\ q \in Seq(CheckNames) /\ a \in Nat /\ b \in Nat
  BY DEF Between
<1>2. /\ r \in Seq(CheckNames) /\ Len(r) = a + b
      /\ \A k \in 1 .. a : r[k] = p[k]
      /\ \A k \in a + 1 .. a + b : r[k] = q[k - a]
  BY <1>1
<1>3. \A k \in 1 .. a + b : k \in 1 .. a \/ (k \in a + 1 .. a + b /\ k - a \in 1 .. b)
  BY <1>1
<1>4. /\ \A k \in 1 .. a : k \in 1 .. a + b
      /\ \A k \in 1 .. b : k + a \in a + 1 .. a + b /\ k + a \in 1 .. a + b /\ (k + a) - a = k
  BY <1>1
<1>5. /\ \A k \in 1 .. a : Rank(p[k]) \in Nat /\ m <= Rank(p[k]) /\ Rank(p[k]) <= n
      /\ \A k \in 1 .. b : Rank(q[k]) \in Nat /\ i <= Rank(q[k]) /\ Rank(q[k]) <= j
      /\ \A x, y \in 1 .. a : x < y => Rank(p[x]) < Rank(p[y])
      /\ \A x, y \in 1 .. b : x < y => Rank(q[x]) < Rank(q[y])
  BY RankTyped DEF Between, Ordered
<1> HIDE DEF r, a, b
<1>6. ASSUME NEW x \in 1 .. a + b, NEW y \in 1 .. a + b, x < y
      PROVE  Rank(r[x]) < Rank(r[y])
  <2>1. CASE x \in 1 .. a /\ y \in 1 .. a
    <3>1. r[x] = p[x] /\ r[y] = p[y]
      BY <1>2, <2>1
    <3> QED BY <1>5, <1>6, <2>1, <3>1
  <2>2. CASE x \in 1 .. a /\ y \in a + 1 .. a + b
    <3>1. r[x] = p[x] /\ r[y] = q[y - a] /\ y - a \in 1 .. b
      BY <1>1, <1>2, <2>2
    <3>2. Rank(p[x]) \in Nat /\ Rank(p[x]) <= n /\ Rank(q[y - a]) \in Nat /\ i <= Rank(q[y - a])
      BY <1>5, <2>2, <3>1
    <3> QED BY <3>1, <3>2
  <2>3. CASE x \in a + 1 .. a + b /\ y \in a + 1 .. a + b
    <3>1. r[x] = q[x - a] /\ r[y] = q[y - a] /\ x - a \in 1 .. b /\ y - a \in 1 .. b /\ x - a < y - a
      BY <1>1, <1>2, <1>6, <2>3
    <3> QED BY <1>5, <3>1
  <2>4. ~(x \in a + 1 .. a + b /\ y \in 1 .. a)
    BY <1>1, <1>6
  <2> QED BY <1>3, <2>1, <2>2, <2>3, <2>4
<1>7. ASSUME NEW k \in 1 .. a + b PROVE m <= Rank(r[k]) /\ Rank(r[k]) <= j
  <2>1. CASE k \in 1 .. a
    <3>1. r[k] = p[k] /\ Rank(p[k]) \in Nat /\ m <= Rank(p[k]) /\ Rank(p[k]) <= n
      BY <1>2, <1>5, <2>1
    <3> QED BY <3>1
  <2>2. CASE k \in a + 1 .. a + b /\ k - a \in 1 .. b
    <3>1. /\ r[k] = q[k - a] /\ Rank(q[k - a]) \in Nat
          /\ i <= Rank(q[k - a]) /\ Rank(q[k - a]) <= j
      BY <1>2, <1>5, <2>2
    <3> QED BY <3>1
  <2> QED BY <1>3, <2>1, <2>2
<1>8. Between(r, m, j)
  BY <1>2, <1>6, <1>7 DEF Between, Ordered
<1>9. ASSUME NEW check PROVE Left(check, r) <=> Left(check, p) \/ Left(check, q)
  <2>1. ASSUME Left(check, r) PROVE Left(check, p) \/ Left(check, q)
    <3>1. PICK k \in 1 .. a + b : r[k] = check
      BY <1>2, <2>1 DEF Left
    <3> QED BY <1>2, <1>3, <3>1 DEF Left, a, b
  <2>2. ASSUME Left(check, p) PROVE Left(check, r)
    <3>1. PICK k \in 1 .. a : p[k] = check
      BY <2>2 DEF Left, a
    <3> QED BY <1>2, <1>4, <3>1 DEF Left
  <2>3. ASSUME Left(check, q) PROVE Left(check, r)
    <3>1. PICK k \in 1 .. b : q[k] = check
      BY <2>3 DEF Left, b
    <3>2. r[k + a] = check /\ k + a \in 1 .. a + b
      BY <1>2, <1>4, <3>1
    <3> QED BY <1>2, <3>2 DEF Left
  <2> QED BY <2>1, <2>2, <2>3
<1> QED BY <1>8, <1>9 DEF r

\* The checks of two parts.
LEMMA JoinedHold ==
  ASSUME NEW m \in Int, NEW n \in Int, NEW i \in Int, NEW j \in Int, NEW p, NEW q, NEW c, NEW d,
         Part(p, c, m, n), Part(q, d, i, j), n < i, m <= i, n <= j
  PROVE  Part(p \o q, c \cup d, m, j)
<1>1. Between(p, m, n) /\ Between(q, i, j)
  BY DEF Part
<1>2. Between(p \o q, m, j)
  BY <1>1, Joined
<1>3. \A check : Left(check, p \o q) <=> Left(check, p) \/ Left(check, q)
  BY <1>1, Joined
<1>4. Holds(p \o q, c \cup d)
  BY <1>3 DEF Holds, Part
<1> QED BY <1>2, <1>4 DEF Part

\* The parts of both plans.
LEMMA PlanParts ==
  /\ \A m, n : Between(<<>>, m, n)
  /\ Holds(<<>>, {})
  /\ \A check \in CheckNames : Between(<<check>>, Rank(check), Rank(check))
  /\ \A check \in CheckNames : Holds(<<check>>, {check})
  /\ Between(<<"access list", "output root">>, 7, 8)
  /\ Holds(<<"access list", "output root">>, {"access list", "output root"})
  /\ ~tx.incoming => Between(<<"input data", "gas limit", "refund">>, 1, 3)
  /\ Holds(<<"input data", "gas limit", "refund">>, {"input data", "gas limit", "refund"})
  /\ tx.incoming => Between(<<"input data", "gas limit", "input root", "access list",
                              "output root", "refund">>, 1, 9)
  /\ Holds(<<"input data", "gas limit", "input root", "access list", "output root", "refund">>,
           {"input data", "gas limit", "input root", "access list", "output root", "refund"})
<1>1. (\A m, n : Between(<<>>, m, n)) /\ Holds(<<>>, {})
  BY DEF Between, Left, Ordered, Holds
<1>2. ASSUME NEW check \in CheckNames
      PROVE  Between(<<check>>, Rank(check), Rank(check)) /\ Holds(<<check>>, {check})
  <2>1. Rank(check) \in Nat
    BY RankTyped
  <2> QED BY <2>1 DEF Between, Left, Ordered, Holds
<1>3. /\ Rank("input data") = 1 /\ Rank("gas limit") = 2 /\ Rank("input root") = 5
      /\ Rank("access list") = 7 /\ Rank("output root") = 8
      /\ Rank("refund") = IF tx.incoming THEN 9 ELSE 3
  BY DEF Rank
<1>4. /\ Between(<<"access list", "output root">>, 7, 8)
      /\ Holds(<<"access list", "output root">>, {"access list", "output root"})
  <2> DEFINE p == <<"access list", "output root">>
  <2>1. p \in Seq(CheckNames) /\ Len(p) = 2 /\ p[1] = "access list" /\ p[2] = "output root"
    BY DEF CheckNames
  <2>2. Rank(p[1]) = 7 /\ Rank(p[2]) = 8
    BY <1>3, <2>1
  <2>3. 1 .. 2 = {1, 2}
    OBVIOUS
  <2> HIDE DEF p
  <2>6. ASSUME NEW k \in 1 .. 2 PROVE 7 <= Rank(p[k]) /\ Rank(p[k]) <= 8
    <3>1. k = 1 \/ k = 2
      OBVIOUS
    <3> QED BY <2>2, <3>1
  <2>7. ASSUME NEW j \in 1 .. 2, NEW k \in 1 .. 2, j < k PROVE Rank(p[j]) < Rank(p[k])
    <3>1. j = 1 /\ k = 2
      BY <2>7
    <3> QED BY <2>2, <3>1
  <2>4. Between(p, 7, 8)
    BY <2>1, <2>6, <2>7 DEF Between, Ordered
  <2>5. Holds(p, {"access list", "output root"})
    BY <2>1, <2>3 DEF Left, Holds
  <2> QED BY <2>4, <2>5 DEF p
<1>5. /\ ~tx.incoming => Between(<<"input data", "gas limit", "refund">>, 1, 3)
      /\ Holds(<<"input data", "gas limit", "refund">>, {"input data", "gas limit", "refund"})
  <2> DEFINE p == <<"input data", "gas limit", "refund">>
  <2>1. /\ p \in Seq(CheckNames) /\ Len(p) = 3
        /\ p[1] = "input data" /\ p[2] = "gas limit" /\ p[3] = "refund"
    BY DEF CheckNames
  <2>2. ~tx.incoming => Rank(p[1]) = 1 /\ Rank(p[2]) = 2 /\ Rank(p[3]) = 3
    BY <1>3, <2>1
  <2>3. 1 .. 3 = {1, 2, 3}
    OBVIOUS
  <2> HIDE DEF p
  <2>6. ASSUME ~tx.incoming, NEW k \in 1 .. 3 PROVE Rank(p[k]) = k
    <3>1. k = 1 \/ k = 2 \/ k = 3
      OBVIOUS
    <3> QED BY <2>2, <2>6, <3>1
  <2>4. ASSUME ~tx.incoming PROVE Between(p, 1, 3)
    <3>1. ASSUME NEW k \in 1 .. 3 PROVE 1 <= Rank(p[k]) /\ Rank(p[k]) <= 3
      BY <2>4, <2>6
    <3>2. ASSUME NEW j \in 1 .. 3, NEW k \in 1 .. 3, j < k PROVE Rank(p[j]) < Rank(p[k])
      BY <2>4, <2>6, <3>2
    <3> QED BY <2>1, <3>1, <3>2 DEF Between, Ordered
  <2>5. Holds(p, {"input data", "gas limit", "refund"})
    BY <2>1, <2>3 DEF Left, Holds
  <2> QED BY <2>4, <2>5 DEF p
<1>6. /\ tx.incoming => Between(<<"input data", "gas limit", "input root", "access list",
                                  "output root", "refund">>, 1, 9)
      /\ Holds(<<"input data", "gas limit", "input root", "access list", "output root", "refund">>,
               {"input data", "gas limit", "input root", "access list", "output root", "refund"})
  <2> DEFINE p == <<"input data", "gas limit", "input root", "access list", "output root",
                    "refund">>
  <2>1. /\ p \in Seq(CheckNames) /\ Len(p) = 6 /\ p[1] = "input data" /\ p[2] = "gas limit"
        /\ p[3] = "input root" /\ p[4] = "access list" /\ p[5] = "output root"
        /\ p[6] = "refund"
    BY DEF CheckNames
  <2>2. tx.incoming => /\ Rank(p[1]) = 1 /\ Rank(p[2]) = 2 /\ Rank(p[3]) = 5
                       /\ Rank(p[4]) = 7 /\ Rank(p[5]) = 8 /\ Rank(p[6]) = 9
    BY <1>3, <2>1
  <2>3. 1 .. 6 = {1, 2, 3, 4, 5, 6}
    OBVIOUS
  <2> HIDE DEF p
  <2>6. ASSUME tx.incoming, NEW k \in 1 .. 6
        PROVE  Rank(p[k]) = IF k <= 2 THEN k ELSE IF k = 3 THEN 5 ELSE k + 3
    <3>1. k = 1 \/ k = 2 \/ k = 3 \/ k = 4 \/ k = 5 \/ k = 6
      OBVIOUS
    <3> QED BY <2>2, <2>6, <3>1
  <2>4. ASSUME tx.incoming PROVE Between(p, 1, 9)
    <3>1. ASSUME NEW k \in 1 .. 6 PROVE 1 <= Rank(p[k]) /\ Rank(p[k]) <= 9
      BY <2>4, <2>6
    <3>2. ASSUME NEW j \in 1 .. 6, NEW k \in 1 .. 6, j < k PROVE Rank(p[j]) < Rank(p[k])
      <4>1. /\ Rank(p[j]) = (IF j <= 2 THEN j ELSE IF j = 3 THEN 5 ELSE j + 3)
            /\ Rank(p[k]) = (IF k <= 2 THEN k ELSE IF k = 3 THEN 5 ELSE k + 3)
        BY <2>4, <2>6
      <4> QED BY <3>2, <4>1
    <3> QED BY <2>1, <3>1, <3>2 DEF Between, Ordered
  <2>5. Holds(p, {"input data", "gas limit", "input root", "access list", "output root",
                  "refund"})
    BY <2>1, <2>3 DEF Left, Holds
  <2> QED BY <2>4, <2>5 DEF p
<1> QED BY <1>1, <1>2, <1>4, <1>5, <1>6

\* The plan of an audit fits the witness that it is made for.
LEMMA PlanMade ==
  ASSUME tx.incoming \in BOOLEAN
  PROVE  LET p == IF tx.incoming THEN IncomingPlan(w) ELSE SignedPlan(w) IN
         /\ PlanFits(p) /\ Left("input data", p) /\ Left("input root", p)
         /\ ~Exiting => Left("access list", p) /\ Left("output root", p)
<1> DEFINE fits(p) ==
      /\ PlanFits(p) /\ Left("input data", p) /\ Left("input root", p)
      /\ ~Exiting => Left("access list", p) /\ Left("output root", p)
<1>1. /\ Rank("input root") = 5 /\ Rank("failure root") = 4 /\ Rank("exit call") = 6
      /\ Rank("success root") = 10
      /\ {"input root", "failure root", "exit call", "success root"} \subseteq CheckNames
  BY DEF Rank, CheckNames
<1> DEFINE last == IF w.status = "success" THEN <<"success root">> ELSE <<>>
           lasts == IF w.status = "success" THEN {"success root"} ELSE {}
<1>2. Between(last, 10, 10)
  <2>1. Between(<<"success root">>, 10, 10) /\ Between(<<>>, 10, 10)
    BY <1>1, PlanParts
  <2> QED BY <2>1
<1>3. Holds(last, lasts)
  <2>1. Holds(<<"success root">>, {"success root"}) /\ Holds(<<>>, {})
    BY <1>1, PlanParts
  <2> QED BY <2>1
<1>7. 1 \in Int /\ 9 \in Int /\ 10 \in Int /\ 9 < 10 /\ 1 <= 10 /\ 9 <= 10
  OBVIOUS
<1>8. 1 \in Int /\ 3 \in Int /\ 4 \in Int /\ 3 < 4 /\ 1 <= 4 /\ 3 <= 4
  OBVIOUS
<1>10. 1 \in Int /\ 4 \in Int /\ 5 \in Int /\ 4 < 5 /\ 1 <= 5 /\ 4 <= 5
  OBVIOUS
<1>11. 1 \in Int /\ 5 \in Int /\ 6 \in Int /\ 8 \in Int /\ 5 < 6 /\ 1 <= 6 /\ 5 <= 8
  OBVIOUS
<1>12. 1 \in Int /\ 8 \in Int /\ 10 \in Int /\ 8 < 10 /\ 1 <= 10 /\ 8 <= 10
  OBVIOUS
<1>13. /\ \A x : x = "failure root" =>
            x # "input data" /\ x # "gas limit" /\ x # "refund" /\ x # "input root"
            /\ x # "exit call" /\ x # "success root" /\ x # "access list" /\ x # "output root"
       /\ \A x : x = "exit call" =>
            x # "input data" /\ x # "gas limit" /\ x # "refund" /\ x # "input root"
            /\ x # "failure root" /\ x # "success root" /\ x # "access list" /\ x # "output root"
       /\ \A x : x = "success root" =>
            x # "input data" /\ x # "gas limit" /\ x # "refund" /\ x # "input root"
            /\ x # "failure root" /\ x # "exit call" /\ x # "access list" /\ x # "output root"
       /\ \A x : x = "access list" =>
            x # "input data" /\ x # "gas limit" /\ x # "refund" /\ x # "input root"
            /\ x # "failure root" /\ x # "exit call" /\ x # "success root" /\ x # "output root"
       /\ \A x : x = "output root" =>
            x # "input data" /\ x # "gas limit" /\ x # "refund" /\ x # "input root"
            /\ x # "failure root" /\ x # "exit call" /\ x # "success root" /\ x # "access list"
  OBVIOUS
<1>9. Part(last, lasts, 10, 10)
  BY <1>2, <1>3 DEF Part
<1> HIDE DEF last, lasts, fits
<1>4. ASSUME tx.incoming PROVE fits(IncomingPlan(w))
  <2> DEFINE a == <<"input data", "gas limit", "input root", "access list", "output root",
                    "refund">>
             as == {"input data", "gas limit", "input root", "access list", "output root",
                    "refund"}
             p == a \o last
  <2>1. Between(a, 1, 9) /\ Holds(a, as)
    BY <1>4, PlanParts
  <2>2. p = IncomingPlan(w)
    BY DEF IncomingPlan, last
  <2>6. Part(a, as, 1, 9)
    BY <2>1 DEF Part
  <2>9. /\ \A x : x \in as <=> \/ x = "input data" \/ x = "gas limit" \/ x = "refund"
                              \/ x = "input root" \/ x = "access list" \/ x = "output root"
        /\ \A x : x \in lasts <=> w.status = "success" /\ x = "success root"
    BY DEF lasts
  <2> HIDE DEF a, as
  <2>3. Part(a \o last, as \cup lasts, 1, 10)
    BY <1>7, <1>9, <2>6, JoinedHold, Zenon
  <2> HIDE DEF p
  <2>4. p \in Seq(CheckNames) /\ Ordered(p) /\ \A check : Left(check, p) <=> check \in as \cup lasts
    BY <2>3 DEF Between, Holds, Part, p
  <2>10. ASSUME NEW x
         PROVE  Left(x, p) <=> \/ x = "input data" \/ x = "gas limit" \/ x = "refund"
                               \/ x = "input root" \/ x = "access list" \/ x = "output root"
                               \/ w.status = "success" /\ x = "success root"
    <3>1. Left(x, p) <=> x \in as \/ x \in lasts
      BY <2>4
    <3> QED BY <2>9, <3>1
  <2>7. /\ Left("input data", p) /\ Left("input root", p) /\ Left("access list", p)
        /\ Left("output root", p) /\ ~Left("failure root", p) /\ ~Left("exit call", p)
    BY <1>13, <2>10
  <2>8. Left("success root", p) => w.status = "success"
    BY <1>13, <2>10
  <2>5. fits(p)
    BY <1>4, <2>4, <2>7, <2>8 DEF PlanFits, Exiting, fits
  <2> QED BY <2>2, <2>5
<1>5. ASSUME ~tx.incoming PROVE fits(SignedPlan(w))
  <2> DEFINE a == <<"input data", "gas limit", "refund">>
             b == IF w.status = "success" THEN <<>> ELSE <<"failure root">>
             c == <<"input root">>
             d == IF w.to = Relay THEN <<"exit call">> ELSE <<"access list", "output root">>
             as == {"input data", "gas limit", "refund"}
             bs == IF w.status = "success" THEN {} ELSE {"failure root"}
             cs == {"input root"}
             ds == IF w.to = Relay THEN {"exit call"} ELSE {"access list", "output root"}
             p == a \o b \o c \o d \o last
  <2>1. Between(a, 1, 3) /\ Holds(a, as)
    BY <1>5, PlanParts
  <2>2. Between(b, 4, 4)
    <3>1. Between(<<"failure root">>, 4, 4) /\ Between(<<>>, 4, 4)
      BY <1>1, PlanParts
    <3> QED BY <3>1
  <2>3. Holds(b, bs)
    <3>1. Holds(<<"failure root">>, {"failure root"}) /\ Holds(<<>>, {})
      BY <1>1, PlanParts
    <3> QED BY <3>1
  <2>4. Between(c, 5, 5) /\ Holds(c, cs)
    BY <1>1, PlanParts
  <2>5. Between(d, 6, 8)
    <3>1. Between(<<"exit call">>, 6, 6) /\ Between(<<"access list", "output root">>, 7, 8)
      BY <1>1, PlanParts
    <3>2. ASSUME NEW q, Between(q, 6, 6) \/ Between(q, 7, 8) PROVE Between(q, 6, 8)
      BY <3>2, RankTyped DEF Between
    <3>3. Between(<<"exit call">>, 6, 8) /\ Between(<<"access list", "output root">>, 6, 8)
      BY <3>1, <3>2
    <3> QED BY <3>3
  <2>6. Holds(d, ds)
    <3>1. /\ Holds(<<"exit call">>, {"exit call"})
          /\ Holds(<<"access list", "output root">>, {"access list", "output root"})
      BY <1>1, PlanParts
    <3> QED BY <3>1
  <2>7. p = SignedPlan(w)
    BY DEF SignedPlan, last
  <2>14. Part(a, as, 1, 3) /\ Part(b, bs, 4, 4)
    BY <2>1, <2>2, <2>3 DEF Part
  <2>15. Part(c, cs, 5, 5)
    BY <2>4 DEF Part
  <2>16. Part(d, ds, 6, 8)
    BY <2>5, <2>6 DEF Part
  <2>23. /\ \A x : x \in as <=> x = "input data" \/ x = "gas limit" \/ x = "refund"
         /\ \A x : x \in bs <=> w.status # "success" /\ x = "failure root"
         /\ \A x : x \in cs <=> x = "input root"
         /\ \A x : x \in ds <=> IF w.to = Relay THEN x = "exit call"
                                ELSE x = "access list" \/ x = "output root"
         /\ \A x : x \in lasts <=> w.status = "success" /\ x = "success root"
    BY DEF lasts
  <2> HIDE DEF a, b, c, d, as, bs, cs, ds
  <2>8. Part(a \o b, as \cup bs, 1, 4)
    BY <1>8, <2>14, JoinedHold, Zenon
  <2> DEFINE ab == a \o b
             abs == as \cup bs
             abc == ab \o c
             abcs == abs \cup cs
             abcd == abc \o d
             abcds == abcs \cup ds
  <2>25. Part(ab, abs, 1, 4)
    BY <2>8
  <2> HIDE DEF ab, abs
  <2>9. Part(abc, abcs, 1, 5)
    BY <1>10, <2>15, <2>25, JoinedHold, Zenon
  <2> HIDE DEF abc, abcs
  <2>10. Part(abcd, abcds, 1, 8)
    BY <1>11, <2>16, <2>9, JoinedHold, Zenon
  <2> HIDE DEF abcd, abcds
  <2>11. Part(abcd \o last, abcds \cup lasts, 1, 10)
    BY <1>12, <1>9, <2>10, JoinedHold, Zenon
  <2> HIDE DEF p
  <2>12. /\ p \in Seq(CheckNames) /\ Ordered(p)
         /\ \A check : Left(check, p) <=> check \in as \cup bs \cup cs \cup ds \cup lasts
    BY <2>11 DEF Between, Holds, Part, p, ab, abs, abc, abcs, abcd, abcds
  <2>26. ASSUME NEW x
         PROVE  Left(x, p) <=> \/ x = "input data" \/ x = "gas limit" \/ x = "refund"
                               \/ w.status # "success" /\ x = "failure root"
                               \/ x = "input root"
                               \/ w.to = Relay /\ x = "exit call"
                               \/ w.to # Relay /\ (x = "access list" \/ x = "output root")
                               \/ w.status = "success" /\ x = "success root"
    <3>1. Left(x, p) <=> x \in as \/ x \in bs \/ x \in cs \/ x \in ds \/ x \in lasts
      BY <2>12
    <3>2. CASE w.to = Relay
      BY <2>23, <3>1, <3>2
    <3>3. CASE w.to # Relay
      BY <2>23, <3>1, <3>3
    <3> QED BY <3>2, <3>3
  <2>17. Left("input data", p) /\ Left("input root", p)
    BY <1>13, <2>26
  <2>18. Left("failure root", p) => w.status # "success"
    BY <1>13, <2>26
  <2>19. Left("success root", p) => w.status = "success"
    BY <1>13, <2>26
  <2>20. Left("exit call", p) <=> w.to = Relay
    BY <1>13, <2>26
  <2>21. Left("access list", p) <=> w.to # Relay
    BY <1>13, <2>26
  <2>22. Left("output root", p) <=> w.to # Relay
    BY <1>13, <2>26
  <2>13. fits(p)
    BY <1>5, <2>12, <2>17, <2>18, <2>19, <2>20, <2>21, <2>22 DEF PlanFits, Exiting, fits
  <2> QED BY <2>7, <2>13
<1>6. fits(IF tx.incoming THEN IncomingPlan(w) ELSE SignedPlan(w))
  BY <1>4, <1>5
<1> QED BY <1>6 DEF fits
-----------------------------------------------------------------------------
\* Where the checks stand.
LEMMA Ranks ==
  /\ Rank("input data") = 1 /\ Rank("gas limit") = 2 /\ Rank("failure root") = 4
  /\ Rank("input root") = 5 /\ Rank("exit call") = 6 /\ Rank("access list") = 7
  /\ Rank("output root") = 8 /\ Rank("success root") = 10
BY DEF Rank

\* What is left after the first check.
LEMMA TailPlan ==
  ASSUME NEW p, PlanFits(p), p # <<>>
  PROVE  /\ p \in Seq(CheckNames) /\ Head(p) \in CheckNames /\ PlanFits(Tail(p))
         /\ \A x : Left(x, p) <=> x = Head(p) \/ Left(x, Tail(p))
         /\ \A x : Left(x, Tail(p)) => Rank(Head(p)) < Rank(x)
<1> DEFINE n == Len(p)
           h == Head(p)
           t == Tail(p)
<1>0. p \in Seq(CheckNames) /\ Ordered(p)
  BY DEF PlanFits
<1>1. p \in Seq(CheckNames) /\ n \in Nat /\ n >= 1 /\ Ordered(p)
  BY <1>0
<1>2. /\ h = p[1] /\ h \in CheckNames /\ t \in Seq(CheckNames) /\ Len(t) = n - 1
      /\ \A k \in 1 .. n - 1 : t[k] = p[k + 1]
  BY <1>1
<1>3. /\ \A k \in 1 .. n - 1 : k + 1 \in 1 .. n /\ 1 < k + 1
      /\ \A k \in 1 .. n : k = 1 \/ (k - 1 \in 1 .. n - 1 /\ (k - 1) + 1 = k)
      /\ 1 \in 1 .. n
  BY <1>1
<1> HIDE DEF n, h, t
<1>4. ASSUME NEW x PROVE Left(x, p) <=> x = h \/ Left(x, t)
  <2>1. ASSUME Left(x, p) PROVE x = h \/ Left(x, t)
    <3>1. PICK k \in 1 .. n : p[k] = x
      BY <2>1 DEF Left, n
    <3>2. CASE k = 1
      BY <1>2, <3>1, <3>2
    <3>3. CASE k - 1 \in 1 .. n - 1 /\ (k - 1) + 1 = k
      <4>1. t[k - 1] = x
        BY <1>2, <3>1, <3>3
      <4> QED BY <1>2, <3>3, <4>1 DEF Left
    <3> QED BY <1>3, <3>2, <3>3
  <2>2. ASSUME Left(x, t) PROVE Left(x, p)
    <3>1. PICK k \in 1 .. n - 1 : t[k] = x
      BY <1>2, <2>2 DEF Left
    <3> QED BY <1>2, <1>3, <3>1 DEF Left, n
  <2>3. x = h => Left(x, p)
    BY <1>2, <1>3 DEF Left, n
  <2> QED BY <2>1, <2>2, <2>3
<1>5. ASSUME NEW x, Left(x, t) PROVE Rank(h) < Rank(x)
  <2>1. PICK k \in 1 .. n - 1 : t[k] = x
    BY <1>2, <1>5 DEF Left
  <2>2. x = p[k + 1] /\ k + 1 \in 1 .. n /\ 1 < k + 1
    BY <1>2, <1>3, <2>1
  <2> QED BY <1>1, <1>2, <1>3, <2>2 DEF Ordered, n
<1>6. Ordered(t)
  <2> SUFFICES ASSUME NEW j \in 1 .. n - 1, NEW k \in 1 .. n - 1, j < k
               PROVE  Rank(t[j]) < Rank(t[k])
    BY <1>2 DEF Ordered
  <2>1. t[j] = p[j + 1] /\ t[k] = p[k + 1] /\ j + 1 \in 1 .. n /\ k + 1 \in 1 .. n /\ j + 1 < k + 1
    BY <1>2, <1>3
  <2> QED BY <1>1, <2>1 DEF Ordered, n
<1>7. ASSUME Left("input root", t), Exiting PROVE Left("exit call", t)
  <2>1. Left("exit call", p)
    BY <1>4, <1>7 DEF PlanFits
  <2>2. Rank(h) < 5
    BY <1>5, <1>7, Ranks
  <2>3. ASSUME h = "exit call" PROVE FALSE
    <3>1. Rank(h) = 6
      BY <2>3, Ranks
    <3> QED BY <2>2, <3>1
  <2> QED BY <1>4, <2>1, <2>3
<1>8. /\ Left("failure root", t) => Left("failure root", p)
      /\ Left("success root", t) => Left("success root", p)
      /\ Left("exit call", t) => Left("exit call", p)
      /\ Left("access list", t) => Left("access list", p)
      /\ Left("output root", t) => Left("output root", p)
  BY <1>4
<1>9. PlanFits(t)
  BY <1>2, <1>6, <1>7, <1>8 DEF PlanFits
<1> QED BY <1>1, <1>2, <1>4, <1>5, <1>9 DEF h, t

\* What the auditor's revert leaves is a state.
LEMMA RevertedTyped == TypeInv => Reverted \in States
<1> SUFFICES ASSUME TypeInv PROVE Reverted \in States
  OBVIOUS
<1>1. saved \in Seq(States) /\ setup \in Setups
  BY DEF TypeInv
<1>2. before \in States
  BY <1>1, SetupFacts
<1>3. CASE saved = <<>>
  BY <1>2, <1>3 DEF Reverted
<1>4. CASE saved # <<>>
  <2>1. Last(saved) \in States
    BY <1>1, <1>4 DEF Last
  <2> QED BY <1>4, <2>1 DEF Reverted
<1> QED BY <1>3, <1>4

\* What the peg takes for the state that the message enters is one.
LEMMA EntryFacts ==
  ASSUME setup \in Setups, Reverted \in States
  PROVE  /\ Entry \in States /\ Entry.exits = Reverted.exits
         /\ tx.incoming \/ tx.to # Relay => tx.to \in Entry.stored
<1> DEFINE r == Reverted
<1>1. /\ tx.incoming \in BOOLEAN /\ tx.from \in Addresses /\ tx.to \in Addresses
      /\ tx.gas \in Nat /\ tx.price \in Nat /\ tx.value \in Nat /\ r \in States
      /\ tx.value \in Int
  BY SetupFacts
<1>2. CASE tx.incoming
  <2>1. Entry = Credit(r, tx.to, tx.value)
    BY <1>2 DEF Entry, EntryRootFrom
  <2>2. /\ Credit(r, tx.to, tx.value) \in States
        /\ Credit(r, tx.to, tx.value).stored = r.stored \cup {tx.to}
        /\ Credit(r, tx.to, tx.value).exits = Reverted.exits
    BY ONLY <1>1, CreditFacts
  <2> QED BY <2>1, <2>2
<1>3. CASE ~tx.incoming
  <2> DEFINE cost == getUpfrontCost(tx)
             d == Debit(r, tx.from, cost)
             c == Raised(d, tx.from)
  <2>1. cost \in Int
    BY <1>1, <1>3 DEF getUpfrontCost
  <2>2. d \in States /\ d.exits = Reverted.exits
    BY <1>1, <2>1, DebitFacts
  <2>3. c \in States /\ c.exits = Reverted.exits
    BY <1>1, <2>2, RaisedFacts
  <2>4. Entry = IF tx.to = Relay THEN c ELSE Credit(c, tx.to, tx.value)
    BY <1>3 DEF Entry, EntryRootFrom, Raised
  <2> HIDE DEF c
  <2>5. CASE tx.to = Relay
    BY <1>3, <2>3, <2>4, <2>5
  <2>6. CASE tx.to # Relay
    <3>1. /\ Credit(c, tx.to, tx.value) \in States
          /\ Credit(c, tx.to, tx.value).stored = c.stored \cup {tx.to}
          /\ Credit(c, tx.to, tx.value).exits = c.exits
      BY ONLY <1>1, <2>3, CreditFacts
    <3> QED BY <2>3, <2>4, <2>6, <3>1
  <2> QED BY <2>5, <2>6
<1> QED BY <1>1, <1>2, <1>3
-----------------------------------------------------------------------------
\* A check that is passed leaves the auditor where the next one begins.
LEMMA NextCheck ==
  ASSUME NEW p, NEW a, NEW i, NEW b \in States, AuditAt(p, a, i), p # <<>>,
         Head(p) = "input data" => ContextFits,
         Head(p) = "input root" => w.stateRootEnter = Entry,
         Head(p) = "output root" => w.stateRootLeave = getLastState(Len(w.list) + 1),
         Head(p) = "access list" => i = Len(w.list) + 1,
         Left("failure root", Tail(p)) \/ Left("input root", Tail(p)) => b = Reverted,
         ~Left("input root", Tail(p)) /\ ~Exiting => Tracks(b, i),
         ~Left("input root", Tail(p)) /\ Exiting =>
           IF Left("exit call", Tail(p)) THEN b = Entry
           ELSE w.status = "success" => b = w.stateRootLeave
  PROVE  AuditAt(Tail(p), b, i)
<1>1. /\ PlanFits(p) /\ Checked(p) /\ i \in 1 .. Len(w.list) + 1
      /\ Left("input root", p) => i = 1
      /\ ~Left("access list", p) /\ ~Exiting => i = Len(w.list) + 1
  BY DEF AuditAt
<1>2. /\ PlanFits(Tail(p))
      /\ \A x : Left(x, p) <=> x = Head(p) \/ Left(x, Tail(p))
  BY <1>1, TailPlan
<1>3. /\ ~Left("input data", Tail(p)) => Head(p) = "input data" \/ ~Left("input data", p)
      /\ ~Left("input root", Tail(p)) => Head(p) = "input root" \/ ~Left("input root", p)
      /\ ~Left("output root", Tail(p)) => Head(p) = "output root" \/ ~Left("output root", p)
      /\ ~Left("access list", Tail(p)) => Head(p) = "access list" \/ ~Left("access list", p)
      /\ Left("input root", Tail(p)) => Left("input root", p)
  BY <1>2
<1>4. Checked(Tail(p))
  BY <1>1, <1>3 DEF Checked, ContextFits
<1>5. ~Left("access list", Tail(p)) /\ ~Exiting => i = Len(w.list) + 1
  BY <1>1, <1>3
<1> QED BY <1>1, <1>2, <1>3, <1>4, <1>5 DEF AuditAt

\* Most checks leave the auditor's tree alone.
LEMMA QuietCheck ==
  ASSUME NEW p, NEW a, NEW i, AuditAt(p, a, i), p # <<>>,
         Head(p) \notin {"input root", "exit call"},
         Head(p) = "input data" => ContextFits,
         Head(p) = "output root" => w.stateRootLeave = getLastState(Len(w.list) + 1),
         Head(p) = "access list" => i = Len(w.list) + 1
  PROVE  AuditAt(Tail(p), a, i)
<1>1. /\ PlanFits(p) /\ a \in States
      /\ Left("failure root", p) \/ Left("input root", p) => a = Reverted
      /\ ~Left("input root", p) /\ ~Exiting => Tracks(a, i)
      /\ ~Left("input root", p) /\ Exiting =>
           IF Left("exit call", p) THEN a = Entry
           ELSE w.status = "success" => a = w.stateRootLeave
  BY DEF AuditAt
<1>2. \A x : Left(x, p) <=> x = Head(p) \/ Left(x, Tail(p))
  BY <1>1, TailPlan
<1>3. /\ Left("input root", p) <=> Left("input root", Tail(p))
      /\ Left("exit call", p) <=> Left("exit call", Tail(p))
      /\ Left("failure root", Tail(p)) => Left("failure root", p)
  BY <1>2
<1>4. /\ Left("failure root", Tail(p)) \/ Left("input root", Tail(p)) => a = Reverted
      /\ ~Left("input root", Tail(p)) /\ ~Exiting => Tracks(a, i)
      /\ ~Left("input root", Tail(p)) /\ Exiting =>
           IF Left("exit call", Tail(p)) THEN a = Entry
           ELSE w.status = "success" => a = w.stateRootLeave
  BY <1>1, <1>3
<1>5. Head(p) # "input root"
  OBVIOUS
<1> HIDE DEF AuditAt
<1> QED BY <1>1, <1>4, <1>5, NextCheck

\* Checks that come before the first that is left have been passed.
LEMMA PassedBefore ==
  ASSUME NEW p, PlanFits(p), p # <<>>
  PROVE  \A x : Rank(x) < Rank(Head(p)) => ~Left(x, p)
<1> SUFFICES ASSUME NEW x, Rank(x) < Rank(Head(p)), Left(x, p) PROVE FALSE
  OBVIOUS
<1>1. x = Head(p) \/ Left(x, Tail(p))
  BY TailPlan
<1>2. Rank(x) \in Nat /\ Rank(Head(p)) \in Nat
  BY RankTyped
<1>3. CASE x = Head(p)
  BY <1>2, <1>3
<1>4. CASE Left(x, Tail(p))
  <2>1. Rank(Head(p)) < Rank(x)
    BY <1>4, TailPlan
  <2> QED BY <1>2, <2>1
<1> QED BY <1>1, <1>3, <1>4

\* From the root on entering on, no check is left that compares with the
\* state before the transaction.
LEMMA TreeRead ==
  ASSUME NEW p, PlanFits(p), p # <<>>, Rank(Head(p)) >= 5
  PROVE  ~Left("failure root", Tail(p)) /\ ~Left("input root", Tail(p))
<1>1. \A x : Left(x, Tail(p)) => Rank(Head(p)) < Rank(x)
  BY TailPlan
<1>2. ASSUME NEW x, x \in {"failure root", "input root"}, Left(x, Tail(p)) PROVE FALSE
  <2>1. Rank(x) \in {4, 5}
    BY <1>2, Ranks
  <2>2. Rank(Head(p)) \in Nat /\ Rank(Head(p)) < Rank(x) /\ Rank(Head(p)) >= 5
    BY <1>1, <1>2, RankTyped
  <2> QED BY ONLY <2>1, <2>2
<1> QED BY <1>2

\* An auditor that begins with the root that the peg takes is in step.
LEMMA RootPasses ==
  ASSUME setup \in Setups, Reverted \in States, NEW p, NEW a, NEW i, AuditAt(p, a, i),
         p # <<>>, Head(p) = "input root", w.stateRootEnter = Entry, Len(w.list) \in Nat,
         DOMAIN w.list = 1 .. Len(w.list)
  PROVE  AuditAt(Tail(p), Entry, i)
<1>1. /\ PlanFits(p) /\ Checked(p) /\ (Left("input root", p) => i = 1)
  BY DEF AuditAt
<1>2. /\ \A x : Left(x, p) <=> x = Head(p) \/ Left(x, Tail(p))
      /\ \A x : Rank(x) < Rank(Head(p)) => ~Left(x, p)
  BY <1>1, TailPlan, PassedBefore
<1>3. ASSUME NEW x, x = "input data" PROVE ~Left(x, p)
  <2>1. Rank(x) = 1
    BY <1>3, Ranks
  <2>2. Rank(Head(p)) = 5
    BY Ranks
  <2>3. Rank(x) < Rank(Head(p))
    BY ONLY <2>1, <2>2
  <2> QED BY <1>2, <2>3
<1>4. i = 1 /\ ~Left("input data", p)
  BY <1>1, <1>2, <1>3
<1>5. w.to = tx.to
  BY <1>1, <1>4 DEF Checked
<1>6. Entry \in States /\ Entry.exits = Reverted.exits
  BY EntryFacts
<1>7. ASSUME ~Exiting PROVE Tracks(Entry, i)
  <2>0. tx.incoming \in BOOLEAN
    BY SetupFacts
  <2>1. tx.to \in Entry.stored
    BY <1>5, <1>7, <2>0, EntryFacts DEF Exiting
  <2>2. getLastState(1) = w.stateRootEnter
    <3> DEFINE changes == {j \in DOMAIN w.list : j < 1 /\ w.list[j].op \in ChangesState}
    <3>1. \A j \in DOMAIN w.list : ~(j < 1)
      BY ONLY DOMAIN w.list = 1 .. Len(w.list), Len(w.list) \in Nat
    <3>2. changes = {}
      BY <3>1
    <3> HIDE DEF changes
    <3>3. getLastState(1) = IF changes = {} THEN w.stateRootEnter ELSE w.list[Max(changes)].root
      BY DEF getLastState, changes
    <3> QED BY <3>2, <3>3
  <2>3. \A j \in 1 .. i - 1 : FALSE
    <3>1. i = 1
      BY <1>4
    <3> QED BY ONLY <3>1
  <2>4. InStep(Entry, i)
    BY <1>4, <1>6, <2>2, <2>3 DEF InStep
  <2> QED BY <2>1, <2>4 DEF Tracks
<1>8. ASSUME Exiting PROVE Left("exit call", Tail(p))
  <2>1. Left("exit call", p)
    BY <1>1, <1>2, <1>8 DEF PlanFits
  <2>2. "exit call" # "input root"
    OBVIOUS
  <2> QED BY <1>2, <2>1, <2>2
<1>9. /\ Head(p) # "input data" /\ Head(p) # "output root" /\ Head(p) # "access list"
  OBVIOUS
<1>10. Rank(Head(p)) >= 5
  <2>1. Rank(Head(p)) = 5
    BY Ranks
  <2> QED BY ONLY <2>1
<1>11. ~Left("failure root", Tail(p)) /\ ~Left("input root", Tail(p))
  BY <1>1, <1>10, TreeRead
<1> QED BY <1>6, <1>7, <1>8, <1>9, <1>11, NextCheck

\* An exit that is passed leaves the state that the witness ends with.
LEMMA ExitPasses ==
  ASSUME NEW p, NEW a, NEW i, AuditAt(p, a, i), p # <<>>, Head(p) = "exit call",
         NEW b \in States, w.status = "success" => b = w.stateRootLeave
  PROVE  AuditAt(Tail(p), b, i)
<1>1. PlanFits(p)
  BY DEF AuditAt
<1>2. /\ \A x : Left(x, p) <=> x = Head(p) \/ Left(x, Tail(p))
      /\ \A x : Left(x, Tail(p)) => Rank(Head(p)) < Rank(x)
  BY <1>1, TailPlan
<1>3. Exiting
  BY <1>1, <1>2 DEF PlanFits
<1>4. ~Left("exit call", Tail(p))
  <2>1. ASSUME NEW x, x = "exit call", Left(x, Tail(p)) PROVE FALSE
    <3>1. Rank(Head(p)) < Rank(x)
      BY <1>2, <2>1
    <3>2. Rank(Head(p)) = 6 /\ Rank(x) = 6
      BY <2>1, Ranks
    <3> QED BY ONLY <3>1, <3>2
  <2> QED BY <2>1
<1>5. /\ Head(p) # "input data" /\ Head(p) # "output root" /\ Head(p) # "access list"
      /\ Head(p) # "input root"
  OBVIOUS
<1>6. Rank(Head(p)) >= 5
  <2>1. Rank(Head(p)) = 6
    BY Ranks
  <2> QED BY ONLY <2>1
<1>7. ~Left("failure root", Tail(p)) /\ ~Left("input root", Tail(p))
  BY <1>1, <1>6, TreeRead
<1> QED BY <1>3, <1>4, <1>5, <1>7, NextCheck

\* A record that is passed is followed by the next one.
LEMMA RecordPasses ==
  ASSUME NEW p, NEW a, NEW i, AuditAt(p, a, i), p # <<>>, Head(p) = "access list",
         Len(w.list) \in Nat, i <= Len(w.list), NEW b \in States, Tracks(b, i + 1)
  PROVE  AuditAt(p, b, i + 1)
<1>1. /\ PlanFits(p) /\ Checked(p) /\ i \in 1 .. Len(w.list) + 1
  BY DEF AuditAt
<1>2. /\ \A x : Left(x, p) <=> x = Head(p) \/ Left(x, Tail(p))
      /\ \A x : Rank(x) < Rank(Head(p)) => ~Left(x, p)
  BY <1>1, TailPlan, PassedBefore
<1>3. ASSUME NEW x, x \in {"failure root", "input root"} PROVE ~Left(x, p)
  <2>1. Rank(x) \in {4, 5}
    BY <1>3, Ranks
  <2>2. Rank(Head(p)) = 7
    BY Ranks
  <2>3. Rank(x) < Rank(Head(p))
    BY ONLY <2>1, <2>2
  <2> QED BY <1>2, <2>3
<1>4. ~Left("failure root", p) /\ ~Left("input root", p) /\ Left("access list", p)
  BY <1>2, <1>3
<1>5. ~Exiting
  BY <1>1, <1>4 DEF PlanFits
<1> DEFINE n == Len(w.list)
<1>7. n \in Nat /\ i \in 1 .. n + 1 /\ i <= n
  BY <1>1
<1> HIDE DEF n
<1>8. i + 1 \in 1 .. n + 1
  BY ONLY <1>7
<1>6. i + 1 \in 1 .. Len(w.list) + 1
  BY <1>8 DEF n
<1> QED BY <1>1, <1>4, <1>5, <1>6 DEF AuditAt

\* Where a record is checked.
LEMMA AtRecord ==
  ASSUME NEW p, NEW a, NEW i, AuditAt(p, a, i), p # <<>>, Head(p) = "access list"
  PROVE  /\ a \in States /\ i \in 1 .. Len(w.list) + 1 /\ ContextFits
         /\ w.stateRootEnter = Entry /\ Tracks(a, i) /\ ~Exiting
<1>1. /\ PlanFits(p) /\ Checked(p) /\ a \in States /\ i \in 1 .. Len(w.list) + 1
      /\ ~Left("input root", p) /\ ~Exiting => Tracks(a, i)
  BY DEF AuditAt
<1>2. /\ \A x : Left(x, p) <=> x = Head(p) \/ Left(x, Tail(p))
      /\ \A x : Rank(x) < Rank(Head(p)) => ~Left(x, p)
  BY <1>1, TailPlan, PassedBefore
<1>3. ASSUME NEW x, x = "input root" \/ x = "input data" PROVE ~Left(x, p)
  <2>1. Rank(x) = 5 \/ Rank(x) = 1
    BY <1>3, Ranks
  <2>2. Rank(Head(p)) = 7
    BY Ranks
  <2>3. Rank(x) < Rank(Head(p))
    BY ONLY <2>1, <2>2
  <2> QED BY <1>2, <2>3
<1>4. ~Left("input root", p) /\ ~Left("input data", p) /\ Left("access list", p)
  BY <1>2, <1>3
<1>5. ~Exiting
  BY <1>1, <1>4 DEF PlanFits
<1> QED BY <1>1, <1>4, <1>5 DEF Checked, ContextFits
-----------------------------------------------------------------------------
\* The root after a record is its own, if it has one.
LEMMA NextRoot ==
  ASSUME Listed, NEW i \in 1 .. Len(w.list)
  PROVE  getLastState(i + 1)
           = IF w.list[i].op \in ChangesState THEN w.list[i].root ELSE getLastState(i)
<1> DEFINE n == Len(w.list)
           C(k) == {j \in DOMAIN w.list : j < k /\ w.list[j].op \in ChangesState}
<1>1. n \in Nat /\ i \in 1 .. n /\ DOMAIN w.list = 1 .. n
  BY DEF Listed
<1>2. \A k : getLastState(k) = IF C(k) = {} THEN w.stateRootEnter ELSE w.list[Max(C(k))].root
  BY DEF getLastState
<1> HIDE DEF n
<1>3. \A j \in 1 .. n : j < i + 1 <=> j < i \/ j = i
  BY <1>1
<1>4. CASE w.list[i].op \in ChangesState
  <2> DEFINE T == C(i + 1)
  <2>1. T \in SUBSET (1 .. n) /\ i \in T /\ \A x \in T : x <= i
    BY <1>1, <1>3, <1>4
  <2>2. getLastState(i + 1) = IF T = {} THEN w.stateRootEnter ELSE w.list[Max(T)].root
    BY <1>2
  <2> HIDE DEF T, C
  <2>3. Max(T) = i
    BY <1>1, <2>1, MaxIs
  <2> QED BY <1>4, <2>1, <2>2, <2>3
<1>5. CASE w.list[i].op \notin ChangesState
  <2>1. C(i + 1) = C(i)
    BY <1>1, <1>3, <1>5
  <2> HIDE DEF C
  <2>2. getLastState(i + 1) = getLastState(i)
    BY <1>2, <2>1
  <2> QED BY <1>5, <2>2
<1> QED BY <1>4, <1>5

\* The auditor's tree after a record, if it was in step before it.
LEMMA StepsOn ==
  ASSUME Listed, NEW a, NEW b, NEW i \in 1 .. Len(w.list), Tracks(a, i), tx.to \in b.stored,
         InStep(a, i) =>
           \/ DebitKept(i + 1)
           \/ i = Len(w.list) /\ w.stateRootLeave # getLastState(i + 1)
           \/ /\ b = getLastState(i + 1) /\ b.exits = Reverted.exits
              /\ w.list[i].op = "CALL" /\ w.list[i].key \in Contracts =>
                   ~w.list[i].success /\ w.list[i].root = getLastState(i)
  PROVE  Tracks(b, i + 1)
<1> DEFINE n == Len(w.list)
<1>1. n \in Nat /\ i \in 1 .. n
  BY DEF Listed
<1>2. i # n + 1
  BY ONLY <1>1
<1>3. \A j \in 1 .. (i + 1) - 1 : j \in 1 .. i - 1 \/ j = i
  BY ONLY <1>1
<1>4. \A j \in 1 .. i - 1 : j \in 1 .. (i + 1) - 1
  BY ONLY <1>1
<1>5. ASSUME DebitKept(i) PROVE DebitKept(i + 1)
  BY <1>4, <1>5 DEF DebitKept
<1>6. DebitKept(i) \/ InStep(a, i)
  BY <1>2 DEF Tracks
<1>7. CASE DebitKept(i)
  BY <1>5, <1>7 DEF Tracks
<1>8. CASE InStep(a, i)
  <2>1. CASE DebitKept(i + 1)
    BY <2>1 DEF Tracks
  <2>2. CASE i = n /\ w.stateRootLeave # getLastState(i + 1)
    <3>1. i + 1 = Len(w.list) + 1
      BY <2>2
    <3> QED BY <2>2, <3>1 DEF Tracks
  <2>3. CASE /\ b = getLastState(i + 1) /\ b.exits = Reverted.exits
             /\ w.list[i].op = "CALL" /\ w.list[i].key \in Contracts =>
                  ~w.list[i].success /\ w.list[i].root = getLastState(i)
    <3>1. \A j \in 1 .. (i + 1) - 1 : w.list[j].op = "CALL" /\ w.list[j].key \in Contracts =>
            ~w.list[j].success /\ w.list[j].root = getLastState(j)
      BY <1>3, <1>8, <2>3 DEF InStep
    <3>2. InStep(b, i + 1)
      BY <2>3, <3>1 DEF InStep
    <3> QED BY <3>2 DEF Tracks
  <2> QED BY <1>8, <2>1, <2>2, <2>3
<1> QED BY <1>6, <1>7, <1>8

\* A debit of nothing of an account that is stored changes nothing.
LEMMA NothingDebited ==
  ASSUME NEW s \in States, NEW a \in Addresses, a \in s.stored
  PROVE  Debit(s, a, 0) = s
<1> DEFINE u == Debit(s, a, 0)
<1>0. 0 \in Int
  OBVIOUS
<1>1. /\ u \in States /\ u.balance = [s.balance EXCEPT ![a] = @ - 0] /\ u.nonce = s.nonce
      /\ u.stored = s.stored \cup {a} /\ u.storage = s.storage /\ u.exits = s.exits
  BY <1>0, DebitFacts
<1>2. s.balance \in [Addresses -> Int]
  BY StateParts
<1> HIDE DEF u
<1>3. u.balance = s.balance
  <2> DEFINE b == s.balance
             c == [b EXCEPT ![a] = @ - 0]
  <2>1. b \in [Addresses -> Int] /\ b[a] \in Int
    BY <1>2
  <2>2. b[a] - 0 = b[a]
    BY <2>1
  <2>3. c = b
    BY <2>1, <2>2
  <2> QED BY <1>1, <2>3
<1>4. u.stored = s.stored
  BY <1>1
<1>5. u = s
  BY <1>1, <1>3, <1>4, SameState
<1> QED BY <1>5 DEF u

\* Records that are only read, or not looked at.
LEMMA ReadPasses ==
  ASSUME NEW a, NEW i, AtRecordFacts(a, i), w.list[i].op \notin {"CALL", "SSTORE"}
  PROVE  Tracks(a, i + 1)
<1>1. /\ Listed /\ i \in 1 .. Len(w.list) /\ Tracks(a, i) /\ ClaimedOf(w)
  BY DEF AtRecordFacts
<1>2. tx.to \in a.stored
  BY <1>1 DEF Tracks
<1>3. CASE w.list[i].op = "DELEGATECALL"
  <2>1. i = Len(w.list) /\ w.list[i].root = NoRoot /\ w.stateRootLeave \in States
    BY <1>1, <1>3 DEF ClaimedOf
  <2>2. getLastState(i + 1) = NoRoot
    BY <1>1, <1>3, <2>1, NextRoot DEF ChangesState
  <2>3. w.stateRootLeave # getLastState(i + 1)
    BY <2>1, <2>2, RootAssumption
  <2> QED BY <1>1, <1>2, <2>1, <2>3, StepsOn
<1>4. CASE w.list[i].op # "DELEGATECALL"
  <2>1. getLastState(i + 1) = getLastState(i)
    BY <1>1, <1>4, NextRoot DEF ChangesState
  <2>2. InStep(a, i) => a = getLastState(i + 1) /\ a.exits = Reverted.exits
    BY <2>1 DEF InStep
  <2>3. w.list[i].op # "CALL"
    OBVIOUS
  <2> QED BY <1>1, <1>2, <2>2, <2>3, StepsOn
<1> QED BY <1>3, <1>4

\* The parts that a written slot leaves alone.
LEMMA WrittenParts ==
  ASSUME NEW a \in States, NEW c \in Contracts, NEW t \in [Slots -> Leaves], NEW s,
         s = Put([a EXCEPT !.storage[c] = t], c)
  PROVE  /\ s \in States /\ s.stored = a.stored \cup {c} /\ s.exits = a.exits
         /\ s.storage[c] = t
<1> DEFINE m == [a.storage EXCEPT ![c] = t]
           v == [a EXCEPT !.storage = m]
<1>1. c \in Addresses
  BY AddressAssumption
<1>2. a.storage \in [Contracts -> [Slots -> Leaves]]
  BY StateParts
<1>3. m \in [Contracts -> [Slots -> Leaves]] /\ m[c] = t
  BY <1>2
<1>4. s = Put(v, c)
  OBVIOUS
<1> HIDE DEF m
<1>5. v \in States /\ v.storage = m /\ v.stored = a.stored /\ v.exits = a.exits
  BY <1>3, ReplacedPart
<1> HIDE DEF v
<1>6. /\ s \in States /\ s.stored = v.stored \cup {c} /\ s.exits = v.exits
      /\ s.storage = v.storage
  BY <1>1, <1>4, <1>5, PutFacts
<1> QED BY <1>3, <1>5, <1>6

\* A store that is passed.
LEMMA StorePasses ==
  ASSUME NEW a, NEW i, AtRecordFacts(a, i), w.list[i].op = "SSTORE", NEW s,
         s = Put([a EXCEPT !.storage[w.context] =
                    [NothingStored EXCEPT ![w.list[i].key] = Short(w.list[i].value)]], w.context),
         s = w.list[i].root
  PROVE  s \in States /\ Tracks(s, i + 1)
<1> DEFINE r == w.list[i]
           t == [NothingStored EXCEPT ![r.key] = Short(r.value)]
<1>1. /\ Listed /\ i \in 1 .. Len(w.list) /\ Tracks(a, i) /\ ClaimedOf(w) /\ a \in States
      /\ w.context = tx.to /\ w.stateRootEnter = Entry /\ setup \in Setups
      /\ Reverted \in States
  BY DEF AtRecordFacts, ContextFits
<1>2. w.stateRootEnter # Wrong
  BY <1>1, EntryFacts, RootAssumption
<1>3. tx.to \in Contracts /\ r.key \in Slots /\ r.value \in Nat
  <2>1. ClaimedRecord(w, i)
    BY <1>1, <1>2 DEF ClaimedOf
  <2> QED BY <2>1 DEF ClaimedRecord, ClaimedStore
<1>4. getLastState(i + 1) = s
  BY <1>1, NextRoot DEF ChangesState
<1>5. tx.to \in a.stored
  BY <1>1 DEF Tracks
<1>6. t \in [Slots -> Leaves]
  <2>1. Short(r.value) \in Leaves /\ NoLeaf \in Leaves
    BY <1>3, LeafTyped
  <2> QED BY <2>1 DEF NothingStored
<1>7. s = Put([a EXCEPT !.storage[tx.to] = t], tx.to)
  BY <1>1
<1>8. r.op # "CALL"
  OBVIOUS
<1> HIDE DEF t
<1>9. s \in States /\ s.stored = a.stored \cup {tx.to} /\ s.exits = a.exits
  <2> DEFINE c == tx.to
  <2>1. a \in States /\ c \in Contracts
    BY <1>1, <1>3
  <2>2. s = Put([a EXCEPT !.storage[c] = t], c)
    BY <1>7
  <2> HIDE DEF c
  <2>3. s \in States /\ s.stored = a.stored \cup {c} /\ s.exits = a.exits
    BY ONLY <2>1, <2>2, <1>6, WrittenParts
  <2> QED BY <2>3 DEF c
<1>10. tx.to \in s.stored
  BY <1>9
<1>11. InStep(a, i) => s = getLastState(i + 1) /\ s.exits = Reverted.exits
  BY <1>4, <1>9 DEF InStep
<1> QED BY <1>1, <1>8, <1>9, <1>10, <1>11, StepsOn

\* A call that is passed.
LEMMA CallPasses ==
  ASSUME NEW a, NEW i, AtRecordFacts(a, i), w.list[i].op = "CALL", NEW r, r = w.list[i], NEW s,
         \/ NothingHappened(r, a) /\ s = a
         \/ /\ ~(a.balance[w.context] < r.value) /\ r.key = Relay /\ decodes(r.data, r.gas)
            /\ r.success /\ r.root = a
            /\ s = updateExitsRoot(Debit(a, w.context, r.value), <<>>, w.context, r.value, r.gas)
         \/ /\ NothingHappened(r, a) /\ r.key # Relay
            /\ s = Debit(a, w.context, r.value)
  PROVE  tx.to \in Contracts /\ s \in States /\ Tracks(s, i + 1)
<1>1. /\ Listed /\ i \in 1 .. Len(w.list) /\ Tracks(a, i) /\ ClaimedOf(w) /\ a \in States
      /\ w.context = tx.to /\ w.stateRootEnter = Entry /\ setup \in Setups
      /\ Reverted \in States
  BY DEF AtRecordFacts, ContextFits
<1>2. w.stateRootEnter # Wrong
  BY <1>1, EntryFacts, RootAssumption
<1>3. ClaimedCall(w, i, r, getLastState(i))
  <2>1. ClaimedRecord(w, i)
    BY <1>1, <1>2 DEF ClaimedOf
  <2> QED BY <2>1, LastRootIs DEF ClaimedRecord
<1>4. tx.to \in Contracts /\ r.value \in Nat /\ r.gas \in Int
  BY <1>3 DEF ClaimedCall
<1>5. tx.to \in Addresses /\ r.value \in Int
  BY <1>4, AddressAssumption
<1>6. getLastState(i + 1) = r.root
  BY <1>1, NextRoot DEF ChangesState
<1>7. tx.to \in a.stored
  BY <1>1 DEF Tracks
<1> DEFINE x == tx.to
           y == r.value
           d == Debit(a, x, y)
<1>8. d \in States /\ tx.to \in d.stored /\ d.exits = a.exits
  <2>1. a \in States /\ x \in Addresses /\ y \in Int
    BY <1>1, <1>5
  <2> HIDE DEF x, y
  <2>2. d \in States /\ d.stored = a.stored \cup {x} /\ d.exits = a.exits
    BY ONLY <2>1, DebitFacts
  <2> HIDE DEF d
  <2> QED BY <2>2 DEF x
<1>9. ASSUME NothingHappened(r, a), s = a PROVE s \in States /\ Tracks(s, i + 1)
  <2>1. InStep(a, i) => /\ s = getLastState(i + 1) /\ s.exits = Reverted.exits
                        /\ r.op = "CALL" /\ r.key \in Contracts =>
                             ~r.success /\ r.root = getLastState(i)
    BY <1>6, <1>9 DEF InStep, NothingHappened
  <2> QED BY <1>1, <1>7, <1>9, <2>1, StepsOn
<1>10. ASSUME NothingHappened(r, a), r.key # Relay, s = d PROVE s \in States /\ Tracks(s, i + 1)
  <2>1. CASE r.value = 0
    <3>1. d = a
      BY <1>1, <1>5, <1>7, <2>1, NothingDebited
    <3> QED BY <1>9, <1>10, <3>1
  <2>2. CASE r.value # 0
    <3>1. i \in 1 .. (i + 1) - 1
      <4> DEFINE n == Len(w.list)
      <4>1. n \in Nat /\ i \in 1 .. n
        BY <1>1 DEF Listed
      <4> QED BY ONLY <4>1
    <3>2. DebitKept(i + 1)
      BY <1>10, <2>2, <3>1 DEF DebitKept, NothingHappened
    <3> QED BY <1>1, <1>8, <1>10, <3>2, StepsOn
  <2> QED BY <2>1, <2>2
<1>11. ASSUME ~(a.balance[tx.to] < r.value), r.key = Relay, decodes(r.data, r.gas), r.success,
              r.root = a, s = updateExitsRoot(d, <<>>, tx.to, r.value, r.gas)
       PROVE  s \in States /\ Tracks(s, i + 1)
  <2>1. s \in States /\ s.stored = d.stored
    <3> DEFINE z == <<outgoingTransactionFromCallInputs(tx.to, r.value, r.gas)>>
    <3>1. z \in Seq(OutgoingTransactions)
      <4>1. ExitFee \in Int
        BY GasAssumption
      <4> QED BY <1>4, <1>5, <4>1 DEF outgoingTransactionFromCallInputs, OutgoingTransactions
    <3>2. s = [d EXCEPT !.exits = z]
      BY <1>11 DEF updateExitsRoot
    <3> HIDE DEF z, d
    <3> QED BY <1>8, <3>1, <3>2, ReplacedPart
  <2>2. ~InStep(a, i)
    <3> SUFFICES ASSUME InStep(a, i) PROVE FALSE
      OBVIOUS
    <3>1. a = getLastState(i)
      BY DEF InStep
    <3>2. PICK j \in 1 .. i - 1 : /\ w.list[j].op = "CALL" /\ w.list[j].key \in Contracts
                                 /\ ~w.list[j].success /\ w.list[j].root # LastRoot(w, j)
      BY <1>1, <1>3, <1>11, <3>1 DEF ClaimedCall
    <3>3. w.list[j].root = getLastState(j)
      BY <3>2 DEF InStep
    <3> QED BY <3>2, <3>3, LastRootIs
  <2>3. tx.to \in s.stored
    BY <1>8, <2>1
  <2> QED BY <1>1, <2>1, <2>2, <2>3, StepsOn
<1> HIDE DEF d
<1> QED BY <1>1, <1>4, <1>9, <1>10, <1>11 DEF d, x, y
-----------------------------------------------------------------------------
\* An audit begins where all its checks are left.
LEMMA AuditBegins ==
  tx.incoming \in BOOLEAN /\ ClaimedOf(w) /\ Reverted \in States =>
    AuditAt(IF tx.incoming THEN IncomingPlan(w) ELSE SignedPlan(w), Reverted, 1)
<1> SUFFICES ASSUME tx.incoming \in BOOLEAN, ClaimedOf(w), Reverted \in States
             PROVE  AuditAt(IF tx.incoming THEN IncomingPlan(w) ELSE SignedPlan(w), Reverted, 1)
  OBVIOUS
<1> DEFINE p == IF tx.incoming THEN IncomingPlan(w) ELSE SignedPlan(w)
           n == Len(w.list)
<1>1. /\ PlanFits(p) /\ Left("input data", p) /\ Left("input root", p)
      /\ ~Exiting => Left("access list", p) /\ Left("output root", p)
  BY PlanMade
<1>2. n \in Nat
  BY DEF ClaimedOf
<1>3. 1 \in 1 .. n + 1
  BY ONLY <1>2
<1> HIDE DEF p
<1>4. Checked(p)
  BY <1>1 DEF Checked
<1>5. AuditAt(p, Reverted, 1)
  BY <1>1, <1>3, <1>4 DEF AuditAt
<1> QED BY <1>5 DEF p

\* So it does in the next state.
LEMMA AuditBeginsNext ==
  (tx.incoming \in BOOLEAN /\ ClaimedOf(w) /\ Reverted \in States =>
    AuditAt(IF tx.incoming THEN IncomingPlan(w) ELSE SignedPlan(w), Reverted, 1))'
BY AuditBegins, PTL

\* The audit of a witness that may be sent.
LEMMA AuditStarts ==
  ASSUME TypeInv, HonestInv, AuditInv, auditWitness
  PROVE  AuditInv'
<1>1. PICK v \in {witness} \union ChangedWitnesses : \E root \in ClaimedRoots(v) :
        claim' = [witness |-> v, root |-> root]
  BY DEF auditWitness
<1>2. PICK root \in ClaimedRoots(v) : claim' = [witness |-> v, root |-> root]
  BY <1>1
<1>3. ClaimedOf(v)
  BY SentClaims DEF auditWitness, HonestInv
<1>4. setup' = setup /\ setup \in Setups
  BY DEF auditWitness, execution, TypeInv
<1>5. (ClaimedOf(v))'
  BY <1>3, <1>4, FixedClaims
<1>6. w' = v
  BY <1>2 DEF w
<1>7. (ClaimedOf(w))'
  BY <1>5, <1>6
<1>8. tx' = tx /\ Reverted' = Reverted
  <2>1. tx' = tx /\ before' = before
    BY <1>4, Fixed
  <2>2. saved' = saved
    BY DEF auditWitness, execution
  <2> QED BY <2>1, <2>2 DEF Reverted
<1>9. tx.incoming \in BOOLEAN /\ Reverted \in States
  BY <1>4, SetupFacts, RevertedTyped
<1>10. (AuditAt(plan, audited, index))'
  <2>1. /\ plan' = IF tx.incoming THEN IncomingPlan(w') ELSE SignedPlan(w')
        /\ audited' = Reverted /\ index' = 1
    BY DEF auditWitness
  <2> QED BY <1>7, <1>8, <1>9, <2>1, AuditBeginsNext
<1>12. error' = NoError /\ pc' = "done"
  BY DEF auditWitness, execution
<1> QED BY <1>7, <1>10, <1>12 DEF AuditInv

\* While checks are left, nothing has been found.
LEMMA Going ==
  ASSUME AuditInv, plan # <<>>
  PROVE  pc = "done" /\ ClaimedOf(w) /\ error = NoError /\ AuditAt(plan, audited, index)
BY DEF AuditInv

\* A check that is passed.
LEMMA PassedCheck ==
  ASSUME AuditInv, plan # <<>>, UNCHANGED <<execution, claim>>, error' = error,
         NEW p, NEW a, NEW i, AuditAt(p, a, i), plan' = p, audited' = a, index' = i
  PROVE  AuditInv'
<1>1. setup' = setup /\ pc' = pc /\ saved' = saved
  BY DEF execution
<1>2. pc = "done" /\ ClaimedOf(w) /\ error = NoError
  BY Going
<1>3. w' = w
  BY DEF w
<1>4. (ClaimedOf(w))'
  BY <1>1, <1>2, <1>3, FixedClaims
<1>5. (AuditAt(p, a, i))'
  BY <1>1, FixedAudit
<1>6. (AuditAt(plan, audited, index))'
  BY <1>5
<1> QED BY <1>1, <1>2, <1>4, <1>6 DEF AuditInv

\* A check that fails.
LEMMA FailedCheck ==
  ASSUME AuditInv, plan # <<>>, UNCHANGED <<execution, claim>>, NEW e, Fail(e),
         Finds(Head(plan), e)
  PROVE  AuditInv'
<1>1. setup' = setup /\ witness' = witness /\ pc' = pc /\ saved' = saved
  BY DEF execution
<1>2. pc = "done" /\ ClaimedOf(w) /\ AuditAt(plan, audited, index)
  BY Going
<1>3. w' = w
  BY DEF w
<1>4. (ClaimedOf(w))'
  BY <1>1, <1>2, <1>3, FixedClaims
<1>5. audited' = audited /\ index' = index /\ error' = e /\ plan' = <<>>
  BY DEF Fail
<1> DEFINE p == plan
           a == audited
           i == index
<1>6. PICK q : q = plan
  OBVIOUS
<1>7. PICK b : b = audited
  OBVIOUS
<1>8. PICK j : j = index
  OBVIOUS
<1>9. (AuditAt(q, b, j))'
  BY <1>1, <1>2, <1>6, <1>7, <1>8, FixedAudit
<1>10. (AuditAt(q, audited, index))'
  BY <1>5, <1>7, <1>8, <1>9
<1>11. PICK h : h = Head(q)
  OBVIOUS
<1>12. (Finds(h, e))'
  BY <1>1, <1>5, <1>6, <1>11, FixedFinds
<1>13. (Finds(Head(q), error))'
  BY <1>5, <1>11, <1>12
<1>14. (FailedAt(q))'
  BY <1>6, <1>10, <1>13 DEF FailedAt
<1> QED BY <1>1, <1>2, <1>4, <1>5, <1>14 DEF AuditInv

-----------------------------------------------------------------------------
\* Checks that compare the fields of the witness.
LEMMA FieldChecks ==
  ASSUME AuditInv,
         \/ checkWitnessInputData \/ checkGasLimit \/ checkRefund
         \/ checkTransactionRootFailure \/ checkOutputRoot \/ checkTransactionRootSuccess
  PROVE  AuditInv'
<1>1. plan # <<>> /\ UNCHANGED <<execution, claim>>
  BY DEF checkWitnessInputData, checkGasLimit, checkRefund, checkTransactionRootFailure,
         checkOutputRoot, checkTransactionRootSuccess, Check, Checks
<1>2. AuditAt(plan, audited, index)
  BY <1>1, Going
<1>3. ASSUME NEW e, Fail(e), Finds(Head(plan), e) PROVE AuditInv'
  BY <1>1, <1>3, FailedCheck
<1>4. ASSUME Pass(audited), Head(plan) \notin {"input root", "exit call", "access list"},
             Head(plan) = "input data" => ContextFits,
             Head(plan) = "output root" => w.stateRootLeave = getLastState(Len(w.list) + 1)
      PROVE  AuditInv'
  <2>1. AuditAt(Tail(plan), audited, index)
    BY <1>1, <1>2, <1>4, QuietCheck
  <2>2. plan' = Tail(plan) /\ audited' = audited /\ index' = index /\ error' = error
    BY <1>4 DEF Pass
  <2> QED BY <1>1, <2>1, <2>2, PassedCheck
<1>5. CASE checkWitnessInputData
  <2>1. /\ Head(plan) = "input data"
        /\ IF ContextDiffers THEN Fail(WitnessError("WITNESS_CONTEXT")) ELSE Pass(audited)
    BY <1>5 DEF checkWitnessInputData, Check, Checks, ContextDiffers
  <2>2. CASE ContextDiffers
    BY <1>3, <2>1, <2>2 DEF Finds
  <2>3. CASE ~ContextDiffers
    <3>1. ContextFits
      BY <2>3 DEF ContextDiffers, ContextFits
    <3> QED BY <1>4, <2>1, <2>3, <3>1
  <2> QED BY <2>2, <2>3
<1>6. CASE checkGasLimit
  <2>1. /\ Head(plan) = "gas limit"
        /\ IF w.gasUsed > w.gasAvailable THEN Fail(WitnessError("WITNESS_GAS_EXCEEDED"))
           ELSE Pass(audited)
    BY <1>6 DEF checkGasLimit, Check, Checks
  <2> QED BY <1>3, <1>4, <2>1 DEF Finds
<1>7. CASE checkRefund
  <2>1. /\ Head(plan) = "refund"
        /\ IF w.refund # SstoreRefunds THEN Fail(WitnessError("WITNESS_REFUND"))
           ELSE Pass(audited)
    BY <1>7 DEF checkRefund, Check, Checks
  <2> QED BY <1>3, <1>4, <2>1 DEF Finds
<1>8. CASE checkTransactionRootFailure
  <2>1. /\ Head(plan) = "failure root"
        /\ IF claim.root # FailureRootFrom(audited)
           THEN Fail(WitnessError("SIGNED_TX_STATE_ROOT_FAILURE"))
           ELSE Pass(audited)
    BY <1>8 DEF checkTransactionRootFailure, Check, Checks
  <2> QED BY <1>3, <1>4, <2>1 DEF Finds
<1>9. CASE checkOutputRoot
  <2>1. /\ Head(plan) = "output root"
        /\ IF LeaveDiffers THEN Fail(Unsent) ELSE Pass(audited)
    BY <1>9 DEF checkOutputRoot, Check, Checks, LeaveDiffers
  <2>2. CASE LeaveDiffers
    BY <1>3, <2>1, <2>2 DEF Finds
  <2>3. CASE ~LeaveDiffers
    <3>1. w.stateRootLeave = getLastState(Len(w.list) + 1)
      BY <2>3 DEF LeaveDiffers
    <3> QED BY <1>4, <2>1, <2>3, <3>1
  <2> QED BY <2>2, <2>3
<1>10. CASE checkTransactionRootSuccess
  <2> DEFINE bad == claim.root # (IF tx.incoming THEN w.stateRootLeave ELSE SuccessRoot(w, audited))
             e == WitnessError(IF tx.incoming THEN "INCOMING_TX_STATE_ROOT_SUCCESS"
                               ELSE "SIGNED_TX_STATE_ROOT_SUCCESS")
  <2>1. Head(plan) = "success root" /\ (bad => Fail(e)) /\ (~bad => Pass(audited))
    BY <1>10 DEF checkTransactionRootSuccess, Check, Checks
  <2>2. CASE bad
    <3>1. EndDiffers(e)
      BY <2>2 DEF EndDiffers
    <3> HIDE DEF e, bad
    <3> QED BY <1>3, <2>1, <2>2, <3>1 DEF Finds
  <2>3. CASE ~bad
    <3> HIDE DEF e, bad
    <3> QED BY <1>4, <2>1, <2>3
  <2> QED BY <2>2, <2>3
<1> QED BY <1>5, <1>6, <1>7, <1>8, <1>9, <1>10

\* The check of the root that the witness begins with.
LEMMA RootCheck ==
  ASSUME TypeInv, AuditInv, checkInputRoot
  PROVE  AuditInv'
<1>1. /\ plan # <<>> /\ Head(plan) = "input root" /\ UNCHANGED <<execution, claim>>
      /\ IF w.stateRootEnter # EntryRootFrom(audited)
         THEN Fail(IF tx.incoming THEN Unsent ELSE WitnessError("INPUT_STATE_ROOT"))
         ELSE Pass(EntryRootFrom(audited))
  BY DEF checkInputRoot, Checks
<1>2. AuditAt(plan, audited, index) /\ ClaimedOf(w)
  BY <1>1, Going
<1>5. EntryRootFrom(audited) = Entry
  <2>1. PlanFits(plan) /\ (Left("input root", plan) => audited = Reverted)
    BY <1>2 DEF AuditAt
  <2>2. Left("input root", plan)
    BY <1>1, <2>1, TailPlan
  <2> QED BY <2>1, <2>2 DEF Entry
<1>3. CASE w.stateRootEnter # EntryRootFrom(audited)
  <2> DEFINE e == IF tx.incoming THEN Unsent ELSE WitnessError("INPUT_STATE_ROOT")
  <2>1. Fail(e)
    BY <1>1, <1>3
  <2>2. Finds(Head(plan), e)
    BY <1>1, <1>3 DEF Finds
  <2> HIDE DEF e
  <2> QED BY <1>1, <2>1, <2>2, FailedCheck
<1>4. CASE w.stateRootEnter = EntryRootFrom(audited)
  <2>1. AuditAt(Tail(plan), Entry, index)
    <3>1. /\ Len(w.list) \in Nat /\ DOMAIN w.list = 1 .. Len(w.list) /\ setup \in Setups
          /\ Reverted \in States /\ w.stateRootEnter = Entry
      BY <1>2, <1>4, <1>5, RevertedTyped DEF ClaimedOf, TypeInv
    <3> QED BY <1>1, <1>2, <3>1, RootPasses
  <2>2. plan' = Tail(plan) /\ audited' = Entry /\ index' = index /\ error' = error
    BY <1>1, <1>4, <1>5 DEF Pass
  <2> QED BY <1>1, <2>1, <2>2, PassedCheck
<1> QED BY <1>3, <1>4

\* The check of an exit that is sent to the child relay itself.
LEMMA ExitCheck ==
  ASSUME TypeInv, AuditInv, exitCallCheck
  PROVE  AuditInv'
<1> DEFINE inserted == updateExitsRoot(audited, <<>>, w.caller, w.callvalue, w.gasAvailable)
           exited == decodes(w.calldata, w.gasAvailable)
           overrun == w.gasAvailable # w.gasUsed \/ w.refund # 0
<1>1. /\ plan # <<>> /\ Head(plan) = "exit call" /\ UNCHANGED <<execution, claim>>
      /\ IF overrun THEN Fail(WitnessError("EXIT_CALL_WITNESS_GAS"))
         ELSE IF ~exited
         THEN IF w.status = "success" THEN Fail(WitnessError("EXIT_WITNESS_ENCODING"))
              ELSE Pass(audited)
         ELSE IF inserted # w.stateRootLeave
         THEN Fail(WitnessError("EXIT_CALL_WITNESS_EXIT_ROOT"))
         ELSE IF w.status # "success" THEN Fail(WitnessError("EXIT_WITNESS_ENCODING"))
         ELSE Pass(inserted)
  BY DEF exitCallCheck, Checks
<1>2. AuditAt(plan, audited, index) /\ ClaimedOf(w)
  BY <1>1, Going
<1>3. audited \in States
  BY <1>2 DEF AuditAt
<1>4. ASSUME NEW e, Fail(e), FindsInExit(e) PROVE AuditInv'
  BY <1>1, <1>4, FailedCheck DEF Finds
<1>5. ASSUME NEW b \in States, Pass(b), w.status = "success" => b = w.stateRootLeave
      PROVE  AuditInv'
  <2>1. AuditAt(Tail(plan), b, index)
    BY <1>1, <1>2, <1>5, ExitPasses
  <2>2. plan' = Tail(plan) /\ audited' = b /\ index' = index /\ error' = error
    BY <1>5 DEF Pass
  <2> QED BY <1>1, <2>1, <2>2, PassedCheck
<1>6. inserted \in States
  <2>1. PlanFits(plan) /\ Checked(plan)
    BY <1>2 DEF AuditAt
  <2>2. \A x : Rank(x) < Rank(Head(plan)) => ~Left(x, plan)
    BY <1>1, <2>1, PassedBefore
  <2>3. ASSUME NEW x, x = "input data" PROVE ~Left(x, plan)
    <3>1. Rank(x) = 1 /\ Rank(Head(plan)) = 6
      BY <1>1, <2>3, Ranks
    <3>2. Rank(x) < Rank(Head(plan))
      BY ONLY <3>1
    <3> QED BY <2>2, <3>2
  <2>4. w.caller = tx.from /\ w.gasAvailable = Available /\ w.callvalue = tx.value
    BY <2>1, <2>3 DEF Checked
  <2> DEFINE z == <<outgoingTransactionFromCallInputs(w.caller, w.callvalue, w.gasAvailable)>>
  <2>5. z \in Seq(OutgoingTransactions)
    <3>1. tx.from \in Addresses /\ tx.value \in Int /\ Available \in Int /\ ExitFee \in Int
      BY SetupFacts, GasAssumption DEF TypeInv
    <3> QED BY <2>4, <3>1 DEF outgoingTransactionFromCallInputs, OutgoingTransactions
  <2>6. inserted = [audited EXCEPT !.exits = z]
    BY DEF updateExitsRoot
  <2> HIDE DEF z
  <2> QED BY <1>3, <2>5, <2>6, ReplacedPart
<1>7. CASE overrun
  <2>1. FindsInExit(WitnessError("EXIT_CALL_WITNESS_GAS"))
    BY <1>7 DEF FindsInExit
  <2> QED BY <1>1, <1>4, <1>7, <2>1
<1>8. CASE ~overrun /\ ~exited /\ w.status = "success"
  <2>1. FindsInExit(WitnessError("EXIT_WITNESS_ENCODING"))
    BY <1>8 DEF FindsInExit
  <2> QED BY <1>1, <1>4, <1>8, <2>1
<1>9. CASE ~overrun /\ ~exited /\ w.status # "success"
  <2>1. Pass(audited)
    BY <1>1, <1>9
  <2> QED BY <1>3, <1>5, <1>9, <2>1
<1>10. CASE ~overrun /\ exited /\ inserted # w.stateRootLeave
  <2>1. FindsInExit(WitnessError("EXIT_CALL_WITNESS_EXIT_ROOT"))
    BY <1>10 DEF FindsInExit
  <2> QED BY <1>1, <1>4, <1>10, <2>1
<1>11. CASE ~overrun /\ exited /\ inserted = w.stateRootLeave /\ w.status # "success"
  <2>1. FindsInExit(WitnessError("EXIT_WITNESS_ENCODING"))
    BY <1>11 DEF FindsInExit
  <2> QED BY <1>1, <1>4, <1>11, <2>1
<1>12. CASE ~overrun /\ exited /\ inserted = w.stateRootLeave /\ w.status = "success"
  <2>1. Pass(inserted)
    BY <1>1, <1>12
  <2> HIDE DEF inserted
  <2> QED BY <1>5, <1>6, <1>12, <2>1
<1> QED BY <1>7, <1>8, <1>9, <1>10, <1>11, <1>12

\* What the auditor knows where it checks a record.
LEMMA RecordNow ==
  ASSUME TypeInv, AuditInv, NEW ops, CheckRecord(ops)
  PROVE  /\ plan # <<>> /\ Head(plan) = "access list" /\ UNCHANGED <<execution, claim>>
         /\ record = w.list[index] /\ record.op \in ops /\ index <= Len(w.list)
         /\ AtRecordFacts(audited, index) /\ w.context = tx.to
<1>1. /\ plan # <<>> /\ Head(plan) = "access list" /\ UNCHANGED <<execution, claim>>
      /\ index <= Len(w.list) /\ record.op \in ops
  BY DEF CheckRecord, Checks
<1>2. AuditAt(plan, audited, index) /\ ClaimedOf(w)
  BY <1>1, Going
<1>3. /\ audited \in States /\ index \in 1 .. Len(w.list) + 1 /\ ContextFits
      /\ w.stateRootEnter = Entry /\ Tracks(audited, index)
  BY <1>1, <1>2, AtRecord
<1>4. Listed /\ setup \in Setups /\ Reverted \in States
  BY <1>2, RevertedTyped DEF ClaimedOf, Listed, TypeInv
<1> DEFINE n == Len(w.list)
           k == index
<1>5. n \in Nat /\ k \in 1 .. n + 1 /\ k <= n
  BY <1>1, <1>3, <1>4 DEF Listed
<1> HIDE DEF n, k
<1>6. k \in 1 .. n
  BY ONLY <1>5
<1>7. index \in 1 .. Len(w.list)
  BY <1>6 DEF n, k
<1>8. AtRecordFacts(audited, index)
  BY <1>2, <1>3, <1>4, <1>7 DEF AtRecordFacts
<1> QED BY <1>1, <1>3, <1>8 DEF record, ContextFits

\* A record that fails.
LEMMA FailedRecord ==
  ASSUME TypeInv, AuditInv, NEW ops, CheckRecord(ops), NEW e, Fail(e), FindsInList(e)
  PROVE  AuditInv'
<1>1. plan # <<>> /\ Head(plan) = "access list" /\ UNCHANGED <<execution, claim>>
  BY RecordNow
<1>2. Finds(Head(plan), e)
  BY <1>1 DEF Finds
<1> QED BY <1>1, <1>2, FailedCheck

\* A record that is passed.
LEMMA PassedRecord ==
  ASSUME TypeInv, AuditInv, NEW ops, CheckRecord(ops), NEW s \in States, NextRecord(s),
         Tracks(s, index + 1)
  PROVE  AuditInv'
<1>1. /\ plan # <<>> /\ Head(plan) = "access list" /\ UNCHANGED <<execution, claim>>
      /\ index <= Len(w.list) /\ AtRecordFacts(audited, index)
  BY RecordNow
<1>2. AuditAt(plan, audited, index)
  BY <1>1, Going
<1>3. Len(w.list) \in Nat
  BY <1>1 DEF AtRecordFacts, Listed
<1>4. AuditAt(plan, s, index + 1)
  BY <1>1, <1>2, <1>3, RecordPasses
<1>5. plan' = plan /\ audited' = s /\ index' = index + 1 /\ error' = error
  BY DEF NextRecord
<1> QED BY <1>1, <1>4, <1>5, PassedCheck

\* Records that are compared, and those that are not.
LEMMA ObservedCheck ==
  ASSUME TypeInv, AuditInv, checkObserved \/ skipRecord \/ checkStaticCall
  PROVE  AuditInv'
<1>1. ASSUME NEW ops, CheckRecord(ops), NextRecord(audited), record.op \notin {"CALL", "SSTORE"}
      PROVE  AuditInv'
  <2>1. AtRecordFacts(audited, index) /\ record = w.list[index]
    BY <1>1, RecordNow
  <2>2. Tracks(audited, index + 1)
    BY <1>1, <2>1, ReadPasses
  <2>3. audited \in States
    BY <2>1 DEF AtRecordFacts
  <2> QED BY <1>1, <2>2, <2>3, PassedRecord
<1>2. CASE checkObserved
  <2> DEFINE ops == Observers \ {"BLOCKHASH"}
             e == Error(record.op, audited, audited)
  <2>1. CheckRecord(ops) /\ IF Deviates THEN Fail(e) ELSE NextRecord(audited)
    BY <1>2 DEF checkObserved
  <2>2. record.op \in ops /\ index <= Len(w.list)
    BY <2>1 DEF CheckRecord
  <2>3. record.op \notin {"CALL", "SSTORE"}
    <3>1. record.op \in Observers
      BY <2>2
    <3>2. "CALL" \notin Observers /\ "SSTORE" \notin Observers
      BY DEF Observers, GlobalStateRecords, HeaderRecords
    <3> QED BY <3>1, <3>2
  <2>4. CASE Deviates
    <3>1. FindsInList(e)
      BY <2>2, <2>4 DEF FindsInList
    <3> HIDE DEF ops, e
    <3> QED BY <2>1, <2>4, <3>1, FailedRecord
  <2>5. CASE ~Deviates
    <3> HIDE DEF ops
    <3> QED BY <1>1, <2>1, <2>3, <2>5
  <2> QED BY <2>4, <2>5
<1>3. CASE skipRecord
  <2> DEFINE ops == {"LOG", "BLOCKHASH", "DELEGATECALL"}
  <2>1. CheckRecord(ops) /\ NextRecord(audited)
    BY <1>3 DEF skipRecord
  <2>2. record.op \notin {"CALL", "SSTORE"}
    BY <2>1 DEF CheckRecord
  <2> HIDE DEF ops
  <2> QED BY <1>1, <2>1, <2>2
<1>4. CASE checkStaticCall
  <2> DEFINE ops == {"STATICCALL"}
             e == IF index <= Len(witness.list) THEN Error("STATICCALL", audited, audited)
                  ELSE Unsent
  <2>1. CheckRecord(ops) /\ Fail(e)
    BY <1>4 DEF checkStaticCall
  <2>2. record.op = "STATICCALL" /\ index <= Len(w.list)
    BY <2>1 DEF CheckRecord
  <2>3. FindsInList(e)
    BY <2>2 DEF FindsInList
  <2> HIDE DEF ops, e
  <2> QED BY <2>1, <2>3, FailedRecord
<1> QED BY <1>2, <1>3, <1>4

\* Stores.
LEMMA StoreCheck ==
  ASSUME TypeInv, AuditInv, checkSstore
  PROVE  AuditInv'
<1> DEFINE s == Put([audited EXCEPT !.storage[w.context] =
                       [NothingStored EXCEPT ![record.key] = Short(record.value)]], w.context)
           bad == s # record.root \/ record.refund # ExpectedRefund(record.value, 0)
           ops == {"SSTORE"}
           e == Error("SSTORE", audited, audited)
<1>1. CheckRecord(ops) /\ IF bad THEN Fail(e) ELSE NextRecord(s)
  BY DEF checkSstore
<1>2. record.op = "SSTORE" /\ index <= Len(w.list) /\ record = w.list[index]
  BY <1>1 DEF CheckRecord, record
<1>3. CASE bad
  <2>1. FindsInStore(e)
    BY <1>3 DEF FindsInStore
  <2>2. FindsInList(e)
    BY <1>2, <2>1 DEF FindsInList
  <2> HIDE DEF ops, e, bad
  <2> QED BY <1>1, <1>3, <2>2, FailedRecord
<1>4. CASE ~bad
  <2>1. s = record.root
    BY <1>4
  <2>2. PICK u : u = s
    OBVIOUS
  <2> HIDE DEF bad, ops
  <2>3. AtRecordFacts(audited, index)
    BY <1>1, RecordNow
  <2>4. u = Put([audited EXCEPT !.storage[w.context] =
                   [NothingStored EXCEPT ![w.list[index].key] = Short(w.list[index].value)]],
                w.context)
        /\ u = w.list[index].root /\ w.list[index].op = "SSTORE"
    BY <1>2, <2>1, <2>2
  <2> HIDE DEF s
  <2>5. u \in States /\ Tracks(u, index + 1)
    BY <2>3, <2>4, StorePasses
  <2>6. NextRecord(u)
    BY <1>1, <1>4, <2>2
  <2> QED BY <1>1, <2>5, <2>6, PassedRecord
<1> QED BY <1>3, <1>4

\* Calls.
LEMMA CallCheck ==
  ASSUME TypeInv, AuditInv, checkCall
  PROVE  AuditInv'
<1> DEFINE paid == Debit(audited, w.context, record.value)
           unchanged == NothingHappened(record, audited)
           poor == Balance(w.context) < record.value
           exits == decodes(record.data, record.gas)
           ops == {"CALL"}
           left == updateExitsRoot(paid, <<>>, w.context, record.value, record.gas)
           moved == Credit(paid, record.key, record.value)
           fails == Error("CALL", audited, paid)
<1>1. /\ CheckRecord(ops)
      /\ IF poor
         THEN IF unchanged THEN NextRecord(audited) ELSE Fail(fails)
         ELSE IF record.key = Relay
         THEN IF index > Len(witness.list) THEN Fail(Unsent)
              ELSE IF ~exits
              THEN IF unchanged THEN NextRecord(audited)
                   ELSE Fail(Error("EXIT_CALL_ENCODING", audited, paid))
              ELSE IF record.success /\ record.root = audited THEN NextRecord(left)
              ELSE Fail(Error("EXIT_CALL", audited, paid))
         ELSE IF w.context \in Contracts
         THEN IF unchanged THEN NextRecord(paid) ELSE Fail(fails)
         ELSE IF record.success /\ record.root = moved THEN NextRecord(moved) ELSE Fail(fails)
  BY DEF checkCall
<1>2. record.op = "CALL" /\ index <= Len(w.list) /\ record = w.list[index]
  BY <1>1 DEF CheckRecord, record
<1>3. AtRecordFacts(audited, index) /\ w.context = tx.to
  BY <1>1, RecordNow
<1>4. ASSUME NEW s, NextRecord(s),
             \/ unchanged /\ s = audited
             \/ ~poor /\ record.key = Relay /\ exits /\ record.success /\ record.root = audited
                /\ s = left
             \/ unchanged /\ record.key # Relay /\ s = paid
      PROVE  AuditInv'
  <2>1. PICK r : r = record
    OBVIOUS
  <2>2. r = w.list[index] /\ w.list[index].op = "CALL"
    BY <1>2, <2>1
  <2>3. \/ NothingHappened(r, audited) /\ s = audited
        \/ /\ ~(audited.balance[w.context] < r.value) /\ r.key = Relay /\ decodes(r.data, r.gas)
           /\ r.success /\ r.root = audited
           /\ s = updateExitsRoot(Debit(audited, w.context, r.value), <<>>, w.context, r.value,
                                  r.gas)
        \/ /\ NothingHappened(r, audited) /\ r.key # Relay
           /\ s = Debit(audited, w.context, r.value)
    BY <1>4, <2>1 DEF Balance
  <2>4. s \in States /\ Tracks(s, index + 1)
    BY <1>3, <2>2, <2>3, CallPasses
  <2> HIDE DEF ops
  <2> QED BY <1>1, <1>4, <2>4, PassedRecord
<1>5. tx.to \in Contracts
  <2>1. ClaimedRecord(w, index)
    <3>1. w.stateRootEnter # Wrong
      <4>1. Entry \in States /\ w.stateRootEnter = Entry
        BY <1>3, EntryFacts DEF AtRecordFacts
      <4> QED BY <4>1, RootAssumption
    <3> QED BY <1>3, <3>1 DEF AtRecordFacts, ClaimedOf
  <2> QED BY <1>2, <2>1 DEF ClaimedRecord, ClaimedCall
<1>6. ASSUME NEW e, Fail(e), FindsInCall(e) PROVE AuditInv'
  <2>1. FindsInList(e)
    BY <1>2, <1>6 DEF FindsInList
  <2> HIDE DEF ops
  <2> QED BY <1>1, <1>6, <2>1, FailedRecord
<1>7. w.context \in Contracts
  BY <1>3, <1>5
<1>8. CASE poor
  <2>1. CASE unchanged
    <3>1. NextRecord(audited)
      BY <1>1, <1>8, <2>1
    <3> HIDE DEF paid, left, poor, unchanged, exits
    <3> QED BY <1>4, <2>1, <3>1
  <2>2. CASE ~unchanged
    <3>1. Fail(fails)
      BY <1>1, <1>8, <2>2
    <3>2. FindsInCall(fails)
      BY <1>8, <2>2 DEF FindsInCall
    <3> HIDE DEF fails
    <3> QED BY <1>6, <3>1, <3>2
  <2> QED BY <2>1, <2>2
<1>9. CASE ~poor /\ record.key = Relay
  <2>1. CASE index > Len(witness.list)
    <3>1. Fail(Unsent)
      BY <1>1, <1>9, <2>1
    <3>2. FindsInCall(Unsent)
      BY <2>1 DEF FindsInCall
    <3> QED BY <1>6, <3>1, <3>2
  <2>2. CASE ~(index > Len(witness.list)) /\ ~exits
    <3>1. CASE unchanged
      <4>1. NextRecord(audited)
        BY <1>1, <1>9, <2>2, <3>1
      <4> HIDE DEF paid, left, poor, unchanged, exits
      <4> QED BY <1>4, <3>1, <4>1
    <3>2. CASE ~unchanged
      <4> DEFINE e == Error("EXIT_CALL_ENCODING", audited, paid)
      <4>1. Fail(e)
        BY <1>1, <1>9, <2>2, <3>2
      <4>2. FindsInCall(e)
        BY <1>9, <2>2, <3>2 DEF FindsInCall
      <4> HIDE DEF e
      <4> QED BY <1>6, <4>1, <4>2
    <3> QED BY <3>1, <3>2
  <2>3. CASE ~(index > Len(witness.list)) /\ exits
    <3>1. CASE record.success /\ record.root = audited
      <4>1. NextRecord(left)
        BY <1>1, <1>9, <2>3, <3>1
      <4> HIDE DEF paid, left, poor, unchanged, exits
      <4> QED BY <1>4, <1>9, <2>3, <3>1, <4>1
    <3>2. CASE ~(record.success /\ record.root = audited)
      <4> DEFINE e == Error("EXIT_CALL", audited, paid)
      <4>1. Fail(e)
        BY <1>1, <1>9, <2>3, <3>2
      <4>2. FindsInCall(e)
        BY <1>9, <2>3, <3>2 DEF FindsInCall
      <4> HIDE DEF e
      <4> QED BY <1>6, <4>1, <4>2
    <3> QED BY <3>1, <3>2
  <2> QED BY <2>1, <2>2, <2>3
<1>10. CASE ~poor /\ record.key # Relay
  <2>1. CASE unchanged
    <3>1. NextRecord(paid)
      BY <1>1, <1>7, <1>10, <2>1
    <3> HIDE DEF paid, left, poor, unchanged, exits
    <3> QED BY <1>4, <1>10, <2>1, <3>1
  <2>2. CASE ~unchanged
    <3>1. Fail(fails)
      BY <1>1, <1>7, <1>10, <2>2
    <3>2. FindsInCall(fails)
      BY <1>10, <2>2 DEF FindsInCall
    <3> HIDE DEF fails
    <3> QED BY <1>6, <3>1, <3>2
  <2> QED BY <2>1, <2>2
<1> QED BY <1>8, <1>9, <1>10

\* The end of the list.
LEMMA ListEnds ==
  ASSUME AuditInv, endOfList
  PROVE  AuditInv'
<1>1. /\ plan # <<>> /\ Head(plan) = "access list" /\ UNCHANGED <<execution, claim>>
      /\ index > Len(w.list) /\ Pass(audited)
  BY DEF endOfList, Checks
<1>2. AuditAt(plan, audited, index) /\ ClaimedOf(w)
  BY <1>1, Going
<1> DEFINE n == Len(w.list)
           k == index
<1>3. n \in Nat /\ k \in 1 .. n + 1 /\ k > n
  BY <1>1, <1>2 DEF AuditAt, ClaimedOf
<1> HIDE DEF n, k
<1>4. k = n + 1
  BY ONLY <1>3
<1>5. index = Len(w.list) + 1
  BY <1>4 DEF n, k
<1>6. AuditAt(Tail(plan), audited, index)
  BY <1>1, <1>2, <1>5, QuietCheck
<1>7. plan' = Tail(plan) /\ audited' = audited /\ index' = index /\ error' = error
  BY <1>1 DEF Pass
<1> QED BY <1>1, <1>6, <1>7, PassedCheck

\* So the audit keeps to its invariant.
LEMMA NextAudit ==
  ASSUME TypeInv, HonestInv, AuditInv, [Next]_<<execution, claim, audit>>
  PROVE  AuditInv'
<1>1. CASE UNCHANGED <<execution, claim, audit>>
  <2>1. UNCHANGED <<setup, pc, saved, claim, witness, plan, audited, index, error>>
    BY <1>1 DEF execution, audit
  <2>2. CASE claim = NoClaim /\ plan = <<>>
    BY <2>1, <2>2 DEF AuditInv
  <2>3. CASE claim # NoClaim \/ plan # <<>>
    <3>1. pc = "done" /\ ClaimedOf(w)
      BY <2>3 DEF AuditInv
    <3>2. PICK a : a = audited
      OBVIOUS
    <3>3. PICK i : i = index
      OBVIOUS
    <3>4. PICK e : e = error
      OBVIOUS
    <3>5. w' = w
      BY <2>1 DEF w
    <3>6. (ClaimedOf(w))'
      BY <2>1, <3>1, <3>5, FixedClaims
    <3>7. CASE error = NoError /\ AuditAt(plan, audited, index)
      <4>1. PICK p : p = plan
        OBVIOUS
      <4>2. (AuditAt(p, a, i))'
        BY <2>1, <3>2, <3>3, <3>7, <4>1, FixedAudit
      <4>3. (AuditAt(plan, audited, index))'
        BY <2>1, <3>2, <3>3, <4>1, <4>2
      <4> QED BY <2>1, <3>1, <3>6, <3>7, <4>3 DEF AuditInv
    <3>8. ASSUME plan = <<>>, NEW p, FailedAt(p) PROVE AuditInv'
      <4>1. p # <<>> /\ AuditAt(p, a, i)
        BY <3>2, <3>3, <3>8 DEF FailedAt
      <4>2. PICK h : h = Head(p)
        OBVIOUS
      <4>3. Finds(h, e)
        BY <3>4, <3>8, <4>2 DEF FailedAt
      <4>4. (AuditAt(p, a, i))'
        BY <2>1, <4>1, FixedAudit
      <4>5. (Finds(h, e))'
        BY <2>1, <4>3, FixedFinds
      <4>6. audited' = a /\ index' = i /\ error' = e
        BY <2>1, <3>2, <3>3, <3>4
      <4>7. (AuditAt(p, audited, index))' /\ (Finds(Head(p), error))'
        BY <4>2, <4>4, <4>5, <4>6
      <4>8. (FailedAt(p))'
        BY <4>1, <4>7 DEF FailedAt
      <4> QED BY <2>1, <3>1, <3>6, <3>8, <4>8 DEF AuditInv
    <3> QED BY <2>3, <3>7, <3>8 DEF AuditInv
  <2> QED BY <2>2, <2>3
<1>2. CASE Execute /\ UNCHANGED <<claim, audit>>
  <2>1. pc # "done"
    BY <1>2 DEF Execute, executeExitCall, executeTransfer, executeCall, OutOfGas, Finish, Observe,
                Log, Sstore, Call, StaticCall, Executes, EndTx
  <2>2. claim' = claim /\ plan' = plan
    BY <1>2 DEF audit
  <2> QED BY <2>1, <2>2 DEF AuditInv
<1>3. CASE Audit
  BY <1>3, AuditStarts, FieldChecks, RootCheck, ExitCheck, ObservedCheck, StoreCheck, CallCheck,
     ListEnds DEF Audit
<1> QED BY <1>1, <1>2, <1>3 DEF Next

\* The auditor always is where the plan has it, or has found what ended the
\* audit.
LEMMA AuditInvariance == Spec => [](TypeInv /\ HonestInv /\ AuditInv)
<1>1. AuditInit => AuditInv
  BY DEF AuditInit, AuditInv
<1>2. TypeInv /\ HonestInv /\ AuditInv /\ [Next]_<<execution, claim, audit>> => AuditInv'
  BY NextAudit
<1>3. Spec => [](TypeInv /\ Current /\ HonestInv)
  BY HonestInvariance
<1> QED BY <1>1, <1>2, <1>3, PTL DEF Spec
-----------------------------------------------------------------------------
\* What an error says that was reported.
LEMMA ErrorFields ==
  ASSUME NEW type, NEW a, NEW b, NEW e, e = Error(type, a, b)
  PROVE  /\ e.type = type /\ e.index = index /\ e.account = a /\ e.receiver = b
         /\ e.owner = w.context /\ e.storage = NothingStored /\ e.exits = <<>>
BY DEF Error

\* One that is about the witness has the auditor's tree for an account.
LEMMA WitnessErrorFields ==
  ASSUME NEW type, NEW e, e = WitnessError(type)
  PROVE  /\ e.type = type /\ e.index = index /\ e.account = audited /\ e.exits = <<>>
BY ErrorFields DEF WitnessError

\* When an error is misreported, type by type.
LEMMA Misreports ==
  ASSUME error # Unsent
  PROVE  /\ error.type = "WITNESS_CONTEXT" => (JudgedOtherwise <=> tx.incoming /\ tx.from # Zero)
         /\ error.type \in {"INPUT_STATE_ROOT", "WITNESS_REFUND", "SIGNED_TX_STATE_ROOT_FAILURE"}
              => (JudgedOtherwise <=> WitnessMisjudged(error.type))
         /\ error.type = "SIGNED_TX_STATE_ROOT_SUCCESS" =>
              (JudgedOtherwise <=> DebitKept(Len(w.list) + 1))
         /\ error.type = "EXIT_CALL_WITNESS_EXIT_ROOT" => (JudgedOtherwise <=> before.exits # <<>>)
         /\ error.type = "COINBASE" => (JudgedOtherwise <=> RecordMisjudged("COINBASE", index))
         /\ error.type = "EXTCODEHASH" =>
              (JudgedOtherwise <=> DebitKept(index) \/ RecordMisjudged("EXTCODEHASH", index))
         /\ error.type = "EXTCODESIZE" => (JudgedOtherwise <=> DebitKept(index))
         /\ error.type = "EXTCODECOPY" =>
              (JudgedOtherwise <=> DebitKept(index) \/ record.key \notin Contracts)
<1>1. error.type = "WITNESS_CONTEXT" => (JudgedOtherwise <=> tx.incoming /\ tx.from # Zero)
  BY DEF JudgedOtherwise
<1>2. error.type \in {"INPUT_STATE_ROOT", "WITNESS_REFUND", "SIGNED_TX_STATE_ROOT_FAILURE"}
        => (JudgedOtherwise <=> WitnessMisjudged(error.type))
  BY DEF JudgedOtherwise
<1>3. error.type = "SIGNED_TX_STATE_ROOT_SUCCESS" => (JudgedOtherwise <=> DebitKept(Len(w.list) + 1))
  BY DEF JudgedOtherwise
<1>4. error.type = "EXIT_CALL_WITNESS_EXIT_ROOT" => (JudgedOtherwise <=> before.exits # <<>>)
  BY DEF JudgedOtherwise
<1>5. error.type = "COINBASE" => (JudgedOtherwise <=> RecordMisjudged("COINBASE", index))
  BY DEF JudgedOtherwise
<1>6. error.type = "EXTCODEHASH" =>
        (JudgedOtherwise <=> DebitKept(index) \/ RecordMisjudged("EXTCODEHASH", index))
  BY DEF JudgedOtherwise
<1>7. error.type = "EXTCODESIZE" => (JudgedOtherwise <=> DebitKept(index))
  BY DEF JudgedOtherwise
<1>8. error.type = "EXTCODECOPY" => (JudgedOtherwise <=> DebitKept(index) \/ record.key \notin Contracts)
  BY DEF JudgedOtherwise
<1> QED BY <1>1, <1>2, <1>3, <1>4, <1>5, <1>6, <1>7, <1>8

\* And the other types.
LEMMA MisreportsMore ==
  ASSUME error # Unsent
  PROVE  /\ error.type \in {"BALANCE", "SELFBALANCE"} =>
              (record.value = 0 \/ DebitKept(index) => JudgedOtherwise)
         /\ error.type = "SLOAD" => (JudgedOtherwise <=> record.value # 0)
         /\ error.type = "SSTORE" =>
              (record.value = 0 \/ DebitKept(index)
               \/ (\E k \in Slots \ {record.key} :
                     StorageOf(getLastState(index), w.context)[k] # NoLeaf) => JudgedOtherwise)
         /\ error.type = "CALL" =>
              (record.success \/ DebitKept(index) \/ LeavesCheckpoint => JudgedOtherwise)
         /\ error.type = "EXIT_CALL" => (record.success \/ DebitKept(index) => JudgedOtherwise)
         /\ error.type = "EXIT_CALL_ENCODING" => (JudgedOtherwise <=> DebitKept(index))
         /\ error.type = "STATICCALL" => JudgedOtherwise
<1>1. error.type \in {"BALANCE", "SELFBALANCE"} =>
        (record.value = 0 \/ DebitKept(index) => JudgedOtherwise)
  BY DEF JudgedOtherwise
<1>2. error.type = "SLOAD" => (JudgedOtherwise <=> record.value # 0)
  BY DEF JudgedOtherwise
<1>3. error.type = "SSTORE" =>
        (record.value = 0 \/ DebitKept(index)
         \/ (\E k \in Slots \ {record.key} :
               StorageOf(getLastState(index), w.context)[k] # NoLeaf) => JudgedOtherwise)
  BY DEF JudgedOtherwise
<1>4. error.type = "CALL" =>
        (record.success \/ DebitKept(index) \/ LeavesCheckpoint => JudgedOtherwise)
  BY DEF JudgedOtherwise
<1>5. error.type = "EXIT_CALL" => (record.success \/ DebitKept(index) => JudgedOtherwise)
  BY DEF JudgedOtherwise
<1>6. error.type = "EXIT_CALL_ENCODING" => (JudgedOtherwise <=> DebitKept(index))
  BY DEF JudgedOtherwise
<1>7. error.type = "STATICCALL" => JudgedOtherwise
  BY DEF JudgedOtherwise
<1> QED BY <1>1, <1>2, <1>3, <1>4, <1>5, <1>6, <1>7

\* When an error cannot convince, type by type.
LEMMA Unconvinces ==
  /\ error.type = "CALL" => (Unconvincing <=> w.context # w.caller)
  /\ error.type = "SSTORE" =>
       (DebitKept(index) \/ StorageOf(getLastState(index), w.context) # NothingStored
        => Unconvincing)
  /\ error.type = "EXIT_CALL" => (Unconvincing <=> before.exits # <<>>)
  /\ error.type = "EXIT_CALL_ENCODING" => (Unconvincing <=> record.data = "lax")
  /\ error.type = "EXIT_WITNESS_ENCODING" => (Unconvincing <=> w.calldata = "lax")
<1>1. error.type = "CALL" => (Unconvincing <=> w.context # w.caller)
  BY DEF Unconvincing
<1>2. error.type = "SSTORE" =>
        (DebitKept(index) \/ StorageOf(getLastState(index), w.context) # NothingStored
         => Unconvincing)
  BY DEF Unconvincing
<1>3. error.type = "EXIT_CALL" => (Unconvincing <=> before.exits # <<>>)
  BY DEF Unconvincing
<1>4. error.type = "EXIT_CALL_ENCODING" => (Unconvincing <=> record.data = "lax")
  BY DEF Unconvincing
<1>5. error.type = "EXIT_WITNESS_ENCODING" => (Unconvincing <=> w.calldata = "lax")
  BY DEF Unconvincing
<1> QED BY <1>1, <1>2, <1>3, <1>4, <1>5
-----------------------------------------------------------------------------
\* The auditor's tree before the records, where its revert has not missed.
LEMMA TreeIs ==
  ASSUME setup \in Setups, TreeTrusted, NEW p, NEW a, NEW i, AuditAt(p, a, i), p # <<>>,
         Head(p) \in {"failure root", "input root"}, TreeErrors(error.type)
  PROVE  /\ a = before /\ Reverted = before /\ Fits(a, before)
         /\ EntryRootFrom(a) = EntryRoot /\ FailureRootFrom(a) = FailureRoot
<1>1. /\ PlanFits(p) /\ a \in States
      /\ Left("failure root", p) \/ Left("input root", p) => a = Reverted
  BY DEF AuditAt
<1>2. Left("failure root", p) \/ Left("input root", p)
  BY <1>1, TailPlan
<1>3. a = before /\ Reverted = before
  BY <1>1, <1>2 DEF TreeTrusted
<1> QED BY <1>1, <1>3, RootAssumption DEF EntryRoot, FailureRoot, Fits

\* What the peg makes of errors about the witness, type by type.
LEMMA ProofsOfWitness ==
  ASSUME NEW e
  PROVE  /\ e.type = "INPUT_STATE_ROOT" =>
              (Proves(e) <=> Fits(e.account, before) /\ w.stateRootEnter # EntryRoot)
         /\ e.type = "WITNESS_CONTEXT" => (Proves(e) <=> ~validContext)
         /\ e.type = "EXIT_CALL_WITNESS_GAS" => (Proves(e) <=> proveExitCallWitnessGasError)
         /\ e.type = "EXIT_CALL_WITNESS_EXIT_ROOT" =>
              (Proves(e) <=> proveExitCallWitnessExitRootError(e))
         /\ e.type \in StateRootErrors => (Proves(e) <=> proveStateRootError(e))
         /\ e.type = "WITNESS_GAS_EXCEEDED" => (Proves(e) <=> w.gasUsed > w.gasAvailable)
         /\ e.type = "WITNESS_REFUND" => (Proves(e) <=> w.refund # SstoreRefunds)
         /\ e.type = "EXIT_WITNESS_ENCODING" => (Proves(e) <=> proveExitWitnessEncodingError)
<1>1. e.type \in WitnessErrors => (Proves(e) <=> ProvesWitness(e))
  BY DEF Proves
<1>2. e.type = "INPUT_STATE_ROOT" =>
        (Proves(e) <=> Fits(e.account, before) /\ w.stateRootEnter # EntryRoot)
  BY <1>1 DEF ProvesWitness, WitnessErrors, StateRootErrors
<1>3. e.type = "WITNESS_CONTEXT" => (Proves(e) <=> ~validContext)
  BY <1>1 DEF ProvesWitness, WitnessErrors, StateRootErrors
<1>4. e.type = "EXIT_CALL_WITNESS_GAS" => (Proves(e) <=> proveExitCallWitnessGasError)
  BY <1>1 DEF ProvesWitness, WitnessErrors, StateRootErrors
<1>5. e.type = "EXIT_CALL_WITNESS_EXIT_ROOT" => (Proves(e) <=> proveExitCallWitnessExitRootError(e))
  BY <1>1 DEF ProvesWitness, WitnessErrors, StateRootErrors
<1>6. e.type \in StateRootErrors => (Proves(e) <=> proveStateRootError(e))
  BY <1>1 DEF ProvesWitness, WitnessErrors, StateRootErrors
<1>7. e.type = "WITNESS_GAS_EXCEEDED" => (Proves(e) <=> w.gasUsed > w.gasAvailable)
  BY <1>1 DEF ProvesWitness, WitnessErrors, StateRootErrors, proveWitnessGasExceededError
<1>8. e.type = "WITNESS_REFUND" => (Proves(e) <=> w.refund # SstoreRefunds)
  BY <1>1 DEF ProvesWitness, WitnessErrors, StateRootErrors
<1>9. e.type = "EXIT_WITNESS_ENCODING" => (Proves(e) <=> proveExitWitnessEncodingError)
  BY <1>1 DEF ProvesWitness, WitnessErrors, StateRootErrors
<1> QED BY <1>2, <1>3, <1>4, <1>5, <1>6, <1>7, <1>8, <1>9

\* And of errors about a record.
LEMMA ProofsOfRecord ==
  ASSUME NEW e, NEW i, e.index = i, NEW r, r = w.list[i], NEW s, s = getLastState(i)
  PROVE  /\ e.type \in {"BALANCE", "SELFBALANCE"} /\ r.op = e.type =>
              (Proves(e) <=> validateBalance(e, r, s))
         /\ e.type \in {"EXTCODEHASH", "EXTCODESIZE", "EXTCODECOPY"} /\ r.op = e.type =>
              (Proves(e) <=> validateExtCode(e, r, s))
         /\ e.type \in {"COINBASE", "HEADER"} /\ r.op = e.type =>
              (Proves(e) <=> validateBlockValue(e, r))
         /\ e.type = "SSTORE" /\ r.op = e.type => (Proves(e) <=> validateSstore(e, r, s))
         /\ e.type = "CALL" /\ r.op = "CALL" => (Proves(e) <=> validateCall(e, r, s))
         /\ e.type = "EXIT_CALL" /\ r.op = "CALL" => (Proves(e) <=> validateExitCall(e, r, s))
         /\ e.type = "EXIT_CALL_ENCODING" /\ r.op = "CALL" =>
              (Proves(e) <=> proveExitCallEncodingError(r, s))
<1>1. e.type \in OwnOps \cup ExitOps => (Proves(e) <=> ProvesRecord(e))
  BY DEF Proves, OwnOps, ExitOps, WitnessErrors, StateRootErrors
<1>2. e.type \in OwnOps => RecordOps[e.type] = e.type
  BY RecordTypes
<1>3. e.type \in ExitOps => RecordOps[e.type] = "CALL"
  BY RecordTypes
<1>4. e.type \in {"BALANCE", "SELFBALANCE"} /\ r.op = e.type =>
        (Proves(e) <=> validateBalance(e, r, s))
  BY <1>1, <1>2 DEF ProvesRecord, OwnOps
<1>5. e.type \in {"EXTCODEHASH", "EXTCODESIZE", "EXTCODECOPY"} /\ r.op = e.type =>
        (Proves(e) <=> validateExtCode(e, r, s))
  BY <1>1, <1>2 DEF ProvesRecord, OwnOps
<1>6. e.type \in {"COINBASE", "HEADER"} /\ r.op = e.type => (Proves(e) <=> validateBlockValue(e, r))
  BY <1>1, <1>2 DEF ProvesRecord, OwnOps
<1>7. e.type = "SSTORE" /\ r.op = e.type => (Proves(e) <=> validateSstore(e, r, s))
  BY <1>1, <1>2 DEF ProvesRecord, OwnOps
<1>8. e.type = "CALL" /\ r.op = "CALL" => (Proves(e) <=> validateCall(e, r, s))
  BY <1>1, <1>2 DEF ProvesRecord, OwnOps
<1>9. e.type = "EXIT_CALL" /\ r.op = "CALL" => (Proves(e) <=> validateExitCall(e, r, s))
  BY <1>1, <1>3 DEF ProvesRecord, ExitOps
<1>10. e.type = "EXIT_CALL_ENCODING" /\ r.op = "CALL" =>
         (Proves(e) <=> proveExitCallEncodingError(r, s))
  BY <1>1, <1>3 DEF ProvesRecord, ExitOps
<1> QED BY <1>4, <1>5, <1>6, <1>7, <1>8, <1>9, <1>10

-----------------------------------------------------------------------------
\* At the end of an audit the tree is the state that the witness ends with.
LEMMA AtEnd ==
  ASSUME NEW p, NEW a, NEW i, AuditAt(p, a, i), p # <<>>, Head(p) = "success root"
  PROVE  w.status = "success" /\ (a = w.stateRootLeave \/ DebitKept(Len(w.list) + 1))
<1>1. PlanFits(p) /\ Checked(p)
  BY DEF AuditAt
<1>2. /\ \A x : Left(x, p) <=> x = Head(p) \/ Left(x, Tail(p))
      /\ \A x : Rank(x) < Rank(Head(p)) => ~Left(x, p)
  BY <1>1, TailPlan, PassedBefore
<1>3. ASSUME NEW x, x \in {"input root", "exit call", "access list", "output root"}
      PROVE  ~Left(x, p)
  <2>1. Rank(x) \in {5, 6, 7, 8}
    BY <1>3, Ranks
  <2>2. Rank(Head(p)) = 10
    BY Ranks
  <2>3. Rank(x) < Rank(Head(p))
    BY ONLY <2>1, <2>2
  <2> QED BY <1>2, <2>3
<1>4. /\ ~Left("input root", p) /\ ~Left("exit call", p) /\ ~Left("access list", p)
      /\ ~Left("output root", p)
  BY <1>3
<1>5. w.status = "success"
  BY <1>1, <1>2 DEF PlanFits
<1>6. CASE Exiting
  BY <1>4, <1>5, <1>6 DEF AuditAt
<1>7. CASE ~Exiting
  <2>1. Tracks(a, i) /\ i = Len(w.list) + 1 /\ w.stateRootLeave = getLastState(Len(w.list) + 1)
    BY <1>1, <1>4, <1>7 DEF AuditAt, Checked
  <2>2. w.stateRootLeave = getLastState(i)
    BY <2>1
  <2> QED BY <1>5, <2>1, <2>2 DEF Tracks, InStep
<1> QED BY <1>6, <1>7

\* Where an exit is checked.
LEMMA AtExit ==
  ASSUME setup \in Setups, Reverted \in States, NEW p, NEW a, NEW i, AuditAt(p, a, i),
         p # <<>>, Head(p) = "exit call"
  PROVE  ExitKnown(a)
<1>1. PlanFits(p) /\ Checked(p)
  BY DEF AuditAt
<1>2. /\ \A x : Left(x, p) <=> x = Head(p) \/ Left(x, Tail(p))
      /\ \A x : Rank(x) < Rank(Head(p)) => ~Left(x, p)
  BY <1>1, TailPlan, PassedBefore
<1>3. ASSUME NEW x, x = "input root" \/ x = "input data" PROVE ~Left(x, p)
  <2>1. Rank(x) = 5 \/ Rank(x) = 1
    BY <1>3, Ranks
  <2>2. Rank(Head(p)) = 6
    BY Ranks
  <2>3. Rank(x) < Rank(Head(p))
    BY ONLY <2>1, <2>2
  <2> QED BY <1>2, <2>3
<1>4. ~Left("input root", p) /\ ~Left("input data", p) /\ Left("exit call", p)
  BY <1>2, <1>3
<1>5. Exiting
  BY <1>1, <1>4 DEF PlanFits
<1>6. a = Entry
  BY <1>4, <1>5 DEF AuditAt
<1>7. w.stateRootEnter = Entry /\ ContextFits
  BY <1>1, <1>4 DEF Checked, ContextFits
<1> QED BY <1>5, <1>6, <1>7, EntryFacts DEF Exiting, ExitKnown

-----------------------------------------------------------------------------
\* Errors in the fields of a witness are proved where they were found.
LEMMA FieldsConvince ==
  ASSUME setup \in Setups, Reverted \in States, NEW p, NEW a, NEW i, AuditAt(p, a, i), p # <<>>, 
         ClaimedOf(w), a = audited, Finds(Head(p), error),
         Head(p) \notin {"exit call", "access list"}
  PROVE  ~Astray
<1> SUFFICES ASSUME Astray PROVE FALSE
  OBVIOUS
<1>1. error # Unsent /\ ~Proves(error) /\ ~JudgedOtherwise /\ TreeTrusted
  BY DEF Astray, Rejected
<1>2. PlanFits(p)
  BY DEF AuditAt
<1>3. Left(Head(p), p)
  BY <1>2, TailPlan
<1>4. CASE error = WitnessError("WITNESS_CONTEXT") /\ ContextDiffers
  <2>1. error.type = "WITNESS_CONTEXT"
    BY <1>4, WitnessErrorFields
  <2>2. validContext
    BY <1>1, <2>1, ProofsOfWitness
  <2>3. w.gasAvailable = Available
    <3>1. w.gasAvailable = Available \/ w.isStatic = FALSE
      BY DEF ClaimedOf
    <3>2. w.isStatic
      BY <2>2 DEF validContext
    <3>3. CASE w.isStatic = FALSE
      BY <3>2, <3>3
    <3> QED BY <3>1, <3>3
  <2> QED BY <1>4, <2>2, <2>3 DEF ContextDiffers, validContext
<1>5. CASE error = WitnessError("WITNESS_GAS_EXCEEDED") /\ w.gasUsed > w.gasAvailable
  <2>1. error.type = "WITNESS_GAS_EXCEEDED"
    BY <1>5, WitnessErrorFields
  <2> QED BY <1>1, <1>5, <2>1, ProofsOfWitness
<1>6. CASE error = WitnessError("WITNESS_REFUND") /\ w.refund # SstoreRefunds
  <2>1. error.type = "WITNESS_REFUND"
    BY <1>6, WitnessErrorFields
  <2> QED BY <1>1, <1>6, <2>1, ProofsOfWitness
<1>7. CASE /\ Head(p) = "failure root" /\ error = WitnessError("SIGNED_TX_STATE_ROOT_FAILURE")
           /\ claim.root # FailureRootFrom(audited)
  <2>1. error.type = "SIGNED_TX_STATE_ROOT_FAILURE" /\ error.account = audited
    BY <1>7, WitnessErrorFields
  <2>2. ~tx.incoming /\ w.status # "success"
    BY <1>2, <1>3, <1>7 DEF PlanFits
  <2>5. Fits(a, before) /\ FailureRootFrom(a) = FailureRoot
    BY <1>1, <1>7, <2>1, TreeIs DEF TreeErrors
  <2>3. proveStateRootError(error)
    BY <1>7, <2>1, <2>2, <2>5 DEF proveStateRootError
  <2>4. error.type \in StateRootErrors
    BY <2>1 DEF StateRootErrors
  <2> QED BY <1>1, <2>3, <2>4, ProofsOfWitness
<1>8. CASE /\ Head(p) = "input root" /\ error = WitnessError("INPUT_STATE_ROOT")
           /\ w.stateRootEnter # EntryRootFrom(audited)
  <2>1. error.type = "INPUT_STATE_ROOT" /\ error.account = audited
    BY <1>8, WitnessErrorFields
  <2>2. Fits(a, before) /\ EntryRootFrom(a) = EntryRoot
    BY <1>1, <1>8, <2>1, TreeIs DEF TreeErrors
  <2> QED BY <1>1, <1>8, <2>1, <2>2, ProofsOfWitness
<1>9. CASE Head(p) = "success root" /\ EndDiffers(error)
  <2>1. w.status = "success" /\ (a = w.stateRootLeave \/ DebitKept(Len(w.list) + 1))
    BY <1>9, AtEnd
  <2>2. tx.incoming \in BOOLEAN
    BY SetupFacts
  <2>3. CASE tx.incoming
    <3>1. /\ error = WitnessError("INCOMING_TX_STATE_ROOT_SUCCESS")
          /\ claim.root # w.stateRootLeave
      BY <1>9, <2>3 DEF EndDiffers
    <3>2. error.type = "INCOMING_TX_STATE_ROOT_SUCCESS"
      BY <3>1, WitnessErrorFields
    <3>3. proveStateRootError(error)
      BY <2>1, <2>3, <3>1, <3>2 DEF proveStateRootError
    <3>4. error.type \in StateRootErrors
      BY <3>2 DEF StateRootErrors
    <3> QED BY <1>1, <3>3, <3>4, ProofsOfWitness
  <2>4. CASE ~tx.incoming
    <3>1. /\ error = WitnessError("SIGNED_TX_STATE_ROOT_SUCCESS")
          /\ claim.root # SuccessRoot(w, audited)
      BY <1>9, <2>4 DEF EndDiffers
    <3>2. error.type = "SIGNED_TX_STATE_ROOT_SUCCESS" /\ error.account = audited
      BY <3>1, WitnessErrorFields
    <3>3. ~DebitKept(Len(w.list) + 1)
      BY <1>1, <3>2, Misreports
    <3>4. audited = w.stateRootLeave /\ audited \in States
      BY <2>1, <3>3 DEF AuditAt
    <3>5. Fits(error.account, w.stateRootLeave) /\ claim.root # SuccessRoot(w, w.stateRootLeave)
      BY <3>1, <3>2, <3>4, RootAssumption DEF Fits
    <3>6. proveStateRootError(error)
      BY <2>1, <2>4, <3>2, <3>5 DEF proveStateRootError
    <3>7. error.type \in StateRootErrors
      BY <3>2 DEF StateRootErrors
    <3> QED BY <1>1, <3>6, <3>7, ProofsOfWitness
  <2> QED BY <2>2, <2>3, <2>4
<1> QED BY <1>1, <1>4, <1>5, <1>6, <1>7, <1>8, <1>9 DEF Finds

\* So are errors in the exit that it is a witness of.
LEMMA ExitConvinces ==
  ASSUME setup \in Setups, Reverted \in States, NEW p, NEW a, NEW i, AuditAt(p, a, i),
         p # <<>>, a = audited, Head(p) = "exit call", FindsInExit(error)
  PROVE  ~Astray
<1> SUFFICES ASSUME Astray PROVE FALSE
  OBVIOUS
<1>1. ~Proves(error) /\ ~JudgedOtherwise /\ ~Unconvincing /\ error # Unsent /\ TreeTrusted
  BY DEF Astray, Rejected
<1>2. /\ audited = Entry /\ w.stateRootEnter = Entry
      /\ Entry \in States /\ Entry.exits = Reverted.exits
      /\ ~tx.incoming /\ w.to = Relay
  <2>1. ExitKnown(a)
    BY AtExit
  <2> QED BY <2>1 DEF ExitKnown
<1> DEFINE exited == decodes(w.calldata, w.gasAvailable)
           inserted == updateExitsRoot(audited, <<>>, w.caller, w.callvalue, w.gasAvailable)
<1>3. exited => fromExitCalldata(w.calldata, w.gasAvailable)
  BY DEF decodes, fromExitCalldata
<1>4. CASE /\ error = WitnessError("EXIT_CALL_WITNESS_GAS")
           /\ w.gasAvailable # w.gasUsed \/ w.refund # 0
  <2>1. error.type = "EXIT_CALL_WITNESS_GAS"
    BY <1>4, WitnessErrorFields
  <2>2. proveExitCallWitnessGasError
    BY <1>2, <1>4 DEF proveExitCallWitnessGasError
  <2> QED BY <1>1, <2>1, <2>2, ProofsOfWitness
<1>5. CASE /\ error = WitnessError("EXIT_WITNESS_ENCODING")
           /\ \/ ~exited /\ w.status = "success"
              \/ exited /\ w.status # "success"
  <2>1. error.type = "EXIT_WITNESS_ENCODING"
    BY <1>5, WitnessErrorFields
  <2>2. w.calldata # "lax"
    BY <1>1, <2>1, Unconvinces
  <2>3. exited <=> fromExitCalldata(w.calldata, w.gasAvailable)
    BY <2>2 DEF decodes, fromExitCalldata
  <2>4. proveExitWitnessEncodingError
    BY <1>5, <2>3 DEF proveExitWitnessEncodingError
  <2> QED BY <1>1, <2>1, <2>4, ProofsOfWitness
<1>6. CASE /\ error = WitnessError("EXIT_CALL_WITNESS_EXIT_ROOT")
           /\ exited /\ inserted # w.stateRootLeave
  <2>1. error.type = "EXIT_CALL_WITNESS_EXIT_ROOT" /\ error.account = audited /\ error.exits = <<>>
    BY <1>6, WitnessErrorFields
  <2>2. before.exits = <<>> /\ Reverted = before
    BY <1>1, <2>1, Misreports DEF TreeTrusted, TreeErrors
  <2>3. Fits(error.account, w.stateRootEnter) /\ error.exits = w.stateRootEnter.exits
    BY <1>2, <2>1, <2>2, RootAssumption DEF Fits
  <2>4. w.stateRootLeave # updateExitsRoot(w.stateRootEnter, error.exits, w.caller, w.callvalue,
                                          w.gasAvailable)
    BY <1>2, <1>6, <2>1
  <2>5. proveExitCallWitnessExitRootError(error)
    BY <1>2, <1>3, <1>6, <2>3, <2>4 DEF proveExitCallWitnessExitRootError
  <2> QED BY <1>1, <2>1, <2>5, ProofsOfWitness
<1>7. \/ /\ error = WitnessError("EXIT_CALL_WITNESS_GAS")
         /\ w.gasAvailable # w.gasUsed \/ w.refund # 0
      \/ /\ error = WitnessError("EXIT_WITNESS_ENCODING")
         /\ \/ ~exited /\ w.status = "success"
            \/ exited /\ inserted = w.stateRootLeave /\ w.status # "success"
      \/ /\ error = WitnessError("EXIT_CALL_WITNESS_EXIT_ROOT")
         /\ exited /\ inserted # w.stateRootLeave
  BY DEF FindsInExit
<1> HIDE DEF inserted, exited
<1> QED BY <1>4, <1>5, <1>6, <1>7

-----------------------------------------------------------------------------
\* That is where a record is found wrong.
LEMMA ErrorKnown ==
  ASSUME setup \in Setups, Reverted \in States, NEW p, AuditAt(p, audited, index), p # <<>>,
         Head(p) = "access list", ClaimedOf(w), index <= Len(w.list)
  PROVE  AtError(record, getLastState(index))
<1>1. /\ audited \in States /\ index \in 1 .. Len(w.list) + 1 /\ ContextFits
      /\ w.stateRootEnter = Entry /\ Tracks(audited, index)
  BY AtRecord
<1>2. Listed
  BY DEF ClaimedOf, Listed
<1> DEFINE n == Len(w.list)
           k == index
<1>3. n \in Nat /\ k \in 1 .. n + 1 /\ k <= n
  BY <1>1, <1>2 DEF Listed
<1> HIDE DEF n, k
<1>4. k \in 1 .. n /\ k # n + 1
  BY ONLY <1>3
<1>5. index \in 1 .. Len(w.list) /\ index # Len(w.list) + 1
  BY <1>4 DEF n, k
<1>6. AtRecordFacts(audited, index)
  BY <1>1, <1>2, <1>5 DEF AtRecordFacts
<1>7. DebitKept(index) \/ InStep(audited, index)
  BY <1>1, <1>5 DEF Tracks
<1>8. InStep(audited, index) => getLastState(index) = audited
  BY DEF InStep
<1>9. audited # Wrong
  BY <1>1, RootAssumption
<1> QED BY <1>6, <1>7, <1>8, <1>9 DEF AtError, record

\* Such a record is one that was claimed.
LEMMA ErrorClaimed ==
  ASSUME NEW r, NEW s, AtError(r, s)
  PROVE  /\ ClaimedRecord(w, index) /\ w.context = tx.to /\ w.caller = tx.from
         /\ r.op = "SSTORE" => ClaimedStore(r)
         /\ r.op = "CALL" => tx.to \in Contracts /\ r.value \in Nat /\ r.success \in BOOLEAN
<1>1. /\ ClaimedOf(w) /\ index \in 1 .. Len(w.list) /\ w.stateRootEnter = Entry
      /\ setup \in Setups /\ Reverted \in States /\ ContextFits /\ r = w.list[index]
  BY DEF AtError, AtRecordFacts
<1>2. w.stateRootEnter # Wrong
  BY <1>1, EntryFacts, RootAssumption
<1>3. ClaimedRecord(w, index)
  BY <1>1, <1>2 DEF ClaimedOf
<1> QED BY <1>1, <1>3 DEF ContextFits, ClaimedRecord, ClaimedCall

\* Where a record is compared that was observed.
LEMMA ObservedConvinces ==
  ASSUME NEW r, NEW s, AtError(r, s), r.op \in Observers \ {"BLOCKHASH"}, Deviates,
         error = Error(r.op, audited, audited)
  PROVE  ~Astray
<1> SUFFICES ASSUME Astray PROVE FALSE
  OBVIOUS
<1>1. ~Proves(error) /\ ~JudgedOtherwise /\ error # Unsent
  BY DEF Astray, Rejected
<1>2. error.type = r.op /\ error.index = index /\ error.account = audited
  BY ErrorFields
<1>3. r = record /\ r = w.list[index] /\ s = getLastState(index) /\ w.context = tx.to
  BY ErrorClaimed DEF AtError
<1>4. ~DebitKept(index) => s = audited /\ Fits(error.account, s)
  BY <1>2 DEF AtError, Fits
<1>5. CASE r.op \in {"BALANCE", "SELFBALANCE"}
  <2>1. r.value # 0 /\ ~DebitKept(index)
    BY <1>1, <1>2, <1>3, <1>5, MisreportsMore
  <2>2. checkBalance
    BY <1>3, <1>5 DEF Deviates
  <2>3. r.value # s.balance[IF r.op = "BALANCE" THEN r.key ELSE w.context]
    BY <1>3, <1>4, <2>1, <2>2 DEF checkBalance, Balance
  <2>4. validateBalance(error, r, s)
    BY <1>2, <1>4, <1>5, <2>1, <2>3 DEF validateBalance
  <2> QED BY <1>1, <1>2, <1>3, <1>5, <2>4, ProofsOfRecord
<1>6. CASE r.op \in {"EXTCODESIZE", "EXTCODEHASH", "EXTCODECOPY"}
  <2>1. checkExtCode
    BY <1>3, <1>6 DEF Deviates
  <2>2. ~DebitKept(index)
    BY <1>1, <1>2, <1>6, Misreports
  <2>3. CASE r.op = "EXTCODECOPY"
    <3>1. r.key \in Contracts
      BY <1>1, <1>2, <1>3, <2>3, Misreports
    <3>2. r.value \in BOOLEAN
      BY <1>3, <2>3, <3>1, ErrorClaimed DEF ClaimedRecord
    <3>3. r.value # (r.key \in Contracts)
      BY <1>3, <2>1, <2>3 DEF checkExtCode
    <3>4. ~r.value
      BY <3>1, <3>2, <3>3
    <3>5. validateExtCode(error, r, s)
      BY <1>2, <1>4, <2>2, <2>3, <3>1, <3>4 DEF validateExtCode
    <3> QED BY <1>1, <1>2, <1>3, <1>6, <3>5, ProofsOfRecord
  <2>4. CASE r.op # "EXTCODECOPY"
    <3>1. r.value # (IF r.key \in Contracts THEN "code" ELSE "empty")
      BY <1>3, <2>1, <2>4 DEF checkExtCode
    <3>2. CASE r.op = "EXTCODEHASH"
      <4>1. validateExtCode(error, r, s)
        BY <1>2, <1>4, <2>2, <3>1, <3>2 DEF validateExtCode
      <4> QED BY <1>1, <1>2, <1>3, <1>6, <4>1, ProofsOfRecord
    <3>3. CASE r.op = "EXTCODESIZE"
      <4>1. validateExtCode(error, r, s)
        BY <1>2, <1>4, <2>2, <3>1, <3>3 DEF validateExtCode
      <4> QED BY <1>1, <1>2, <1>3, <1>6, <4>1, ProofsOfRecord
    <3> QED BY <1>6, <2>4, <3>2, <3>3
  <2> QED BY <2>3, <2>4
<1>7. CASE r.op \in {"COINBASE", "HEADER"}
  <2>1. checkHeader
    BY <1>3, <1>7 DEF Deviates
  <2>2. validateBlockValue(error, r)
    BY <1>2, <1>3, <1>7, <2>1 DEF checkHeader, validateBlockValue
  <2> QED BY <1>1, <1>2, <1>3, <1>7, <2>2, ProofsOfRecord
<1>8. CASE r.op = "SLOAD"
  <2>1. checkSload
    BY <1>3, <1>8 DEF Deviates
  <2>2. r.value # 0
    BY <1>3, <2>1 DEF checkSload
  <2> QED BY <1>1, <1>2, <1>3, <1>8, <2>2, MisreportsMore
<1>9. r.op \in {"BALANCE", "SELFBALANCE"} \/ r.op \in {"EXTCODESIZE", "EXTCODEHASH", "EXTCODECOPY"}
      \/ r.op \in {"COINBASE", "HEADER"} \/ r.op = "SLOAD"
  BY DEF Observers, GlobalStateRecords, HeaderRecords
<1> QED BY <1>5, <1>6, <1>7, <1>8, <1>9

\* Where a store is found wrong.
LEMMA StoreConvinces ==
  ASSUME NEW r, NEW s, AtError(r, s), r.op = "SSTORE", FindsInStore(error)
  PROVE  ~Astray
<1> SUFFICES ASSUME Astray PROVE FALSE
  OBVIOUS
<1>1. ~Proves(error) /\ ~JudgedOtherwise /\ ~Unconvincing /\ error # Unsent
  BY DEF Astray, Rejected
<1>2. /\ error.type = "SSTORE" /\ error.index = index /\ error.account = audited
      /\ error.storage = NothingStored
  BY ErrorFields DEF FindsInStore
<1>3. r = record /\ r = w.list[index] /\ s = getLastState(index) /\ w.context = tx.to
  BY ErrorClaimed DEF AtError
<1>4. r.value # 0 /\ ~DebitKept(index) /\ StorageOf(s, tx.to) = NothingStored
  BY <1>1, <1>2, <1>3, MisreportsMore, Unconvinces
<1>5. s = audited /\ s \in States /\ Fits(error.account, s)
  BY <1>2, <1>4 DEF AtError, AtRecordFacts, Fits
<1>6. /\ tx.to \in Contracts /\ r.key \in Slots /\ r.value \in Nat
      /\ \/ r.root = Wrong
         \/ \E u \in Nat : u \in {r.value, r.value - 1}
                           /\ r.root.storage[tx.to][r.key] = NewLeaf(u)
  BY ErrorClaimed DEF ClaimedStore
<1>7. s.storage[tx.to] = NothingStored
  BY <1>4, <1>6 DEF StorageOf
<1>8. /\ r.root = Put([s EXCEPT !.storage[tx.to][r.key] = WordLeaf(r.value)], tx.to)
      /\ r.refund = ExpectedRefund(r.value, Mload(NothingStored[r.key]))
  <2>1. ~validateSstore(error, r, s)
    BY <1>1, <1>2, <1>3, ProofsOfRecord
  <2>2. error.storage = StorageOf(s, w.context)
    BY <1>2, <1>3, <1>4
  <2> QED BY <1>2, <1>3, <1>5, <2>1, <2>2 DEF validateSstore
<1>9. r.refund = ExpectedRefund(r.value, 0)
  <2>1. Mload(NothingStored[r.key]) = 0
    BY <1>6 DEF NothingStored, Mload, NoLeaf
  <2> QED BY <1>8, <2>1
<1> DEFINE t == [NothingStored EXCEPT ![r.key] = WordLeaf(r.value)]
           x == tx.to
<1>10. r.root = Put([s EXCEPT !.storage[x] = t], x)
  BY <1>7, <1>8
<1>11. WordLeaf(r.value) = Word(r.value) /\ Word(r.value) \in Leaves /\ NoLeaf \in Leaves
  BY <1>4, <1>6, LeafTyped DEF WordLeaf, Leaves, Word
<1>12. t \in [Slots -> Leaves] /\ t[r.key] = Word(r.value)
  BY <1>6, <1>11 DEF NothingStored
<1>13. Short(r.value) # Word(r.value)
  <2>1. r.root # Put([s EXCEPT !.storage[x] = [NothingStored EXCEPT ![r.key] = Short(r.value)]], x)
    BY <1>3, <1>5, <1>9 DEF FindsInStore
  <2> QED BY <1>10, <1>11, <2>1
<1> HIDE DEF t
<1>14. r.root \in States /\ r.root.storage[x] = t
  <2> HIDE DEF x
  <2>1. x \in Contracts
    BY <1>6 DEF x
  <2> QED BY <1>5, <1>10, <1>12, <2>1, WrittenParts
<1>15. PICK u \in Nat : u \in {r.value, r.value - 1} /\ NewLeaf(u) = Word(r.value)
  <2>1. r.root # Wrong
    BY <1>14, RootAssumption
  <2> QED BY <1>6, <1>12, <1>14, <2>1
<1>16. u = r.value /\ u >= Wide
  BY <1>4, <1>6, <1>15 DEF NewLeaf, Short, Word, NoLeaf
<1>17. Short(r.value) = Word(r.value)
  BY <1>16 DEF Short
<1> QED BY <1>13, <1>17

\* Where a call is found wrong.
LEMMA CallConvinces ==
  ASSUME NEW r, NEW s, AtError(r, s), r.op = "CALL", FindsInCall(error)
  PROVE  ~Astray
<1> SUFFICES ASSUME Astray PROVE FALSE
  OBVIOUS
<1> DEFINE paid == Debit(audited, w.context, r.value)
           poor == audited.balance[w.context] < r.value
           unchanged == NothingHappened(r, audited)
<1>1. ~Proves(error) /\ ~JudgedOtherwise /\ ~Unconvincing /\ error # Unsent /\ TreeTrusted
  BY DEF Astray, Rejected
<1>2. /\ r = record /\ r = w.list[index] /\ s = getLastState(index) /\ w.context = tx.to
      /\ tx.to \in Contracts /\ r.value \in Nat /\ r.success \in BOOLEAN
  BY ErrorClaimed DEF AtError
<1>3. ~DebitKept(index) => s = audited /\ s # Wrong /\ audited.exits = Reverted.exits
  BY DEF AtError, InStep
<1>4. paid \in States
  <2>1. audited \in States
    BY DEF AtError, AtRecordFacts
  <2>2. w.context \in Addresses /\ r.value \in Int
    BY <1>2, AddressAssumption
  <2> QED BY <2>1, <2>2, DebitFacts
<1>5. paid # Wrong
  BY <1>4, RootAssumption
<1>6. \/ error = Error("CALL", audited, paid) /\ poor /\ ~unchanged
      \/ /\ error = Error("EXIT_CALL_ENCODING", audited, paid) /\ ~poor /\ r.key = Relay
         /\ ~decodes(r.data, r.gas) /\ ~unchanged
      \/ /\ error = Error("EXIT_CALL", audited, paid) /\ ~poor /\ r.key = Relay
         /\ decodes(r.data, r.gas) /\ ~(r.success /\ r.root = audited)
      \/ error = Error("CALL", audited, paid) /\ ~poor /\ r.key # Relay /\ ~unchanged
  BY <1>1, <1>2 DEF FindsInCall, Balance
<1>7. CASE error = Error("CALL", audited, paid) /\ ~unchanged /\ (poor \/ r.key # Relay)
  <2> HIDE DEF paid
  <2>1. /\ error.type = "CALL" /\ error.index = index /\ error.account = audited
        /\ error.receiver = paid /\ error.owner = w.context
    BY <1>7, ErrorFields
  <2>2. ~r.success /\ ~DebitKept(index) /\ w.context = w.caller
    BY <1>1, <1>2, <2>1, MisreportsMore, Unconvinces
  <2>3. s = audited /\ Fits(error.account, s)
    BY <1>3, <2>1, <2>2 DEF Fits
  <2>4. validateCall(error, r, s)
    <3>1. CASE poor
      BY <1>7, <2>1, <2>3, <3>1 DEF validateCall
    <3>2. CASE ~poor
      <4>1. r.key # Relay
        BY <1>7, <3>2
      <4>2. paid = Debit(s, w.caller, r.value)
        BY <2>2, <2>3 DEF paid
      <4>3. Fits(error.receiver, Debit(s, w.caller, r.value))
        BY <1>5, <2>1, <4>2 DEF Fits
      <4> QED BY <1>7, <2>1, <2>2, <2>3, <3>2, <4>1, <4>3 DEF validateCall
    <3> QED BY <3>1, <3>2
  <2> QED BY <1>1, <1>2, <2>1, <2>4, ProofsOfRecord
<1>8. CASE /\ error = Error("EXIT_CALL_ENCODING", audited, paid)
           /\ ~decodes(r.data, r.gas) /\ ~unchanged
  <2> HIDE DEF paid
  <2>1. error.type = "EXIT_CALL_ENCODING" /\ error.index = index
    BY <1>8, ErrorFields
  <2>2. ~DebitKept(index) /\ r.data # "lax"
    BY <1>1, <1>2, <2>1, MisreportsMore, Unconvinces
  <2>3. ~fromExitCalldata(r.data, r.gas)
    BY <1>8, <2>2 DEF decodes, fromExitCalldata
  <2>4. proveExitCallEncodingError(r, s)
    BY <1>3, <1>8, <2>2, <2>3 DEF proveExitCallEncodingError
  <2> QED BY <1>1, <1>2, <2>1, <2>4, ProofsOfRecord
<1>9. CASE /\ error = Error("EXIT_CALL", audited, paid) /\ ~poor /\ r.key = Relay
           /\ decodes(r.data, r.gas) /\ ~(r.success /\ r.root = audited)
  <2> HIDE DEF paid
  <2>1. /\ error.type = "EXIT_CALL" /\ error.index = index /\ error.account = audited
        /\ error.receiver = paid /\ error.owner = w.context /\ error.exits = <<>>
    BY <1>9, ErrorFields
  <2>2. ~r.success /\ ~DebitKept(index) /\ before.exits = <<>> /\ Reverted = before
    BY <1>1, <1>2, <2>1, MisreportsMore, Unconvinces DEF TreeTrusted, TreeErrors
  <2>3. s = audited /\ Fits(error.account, s) /\ error.exits = s.exits
    BY <1>3, <2>1, <2>2 DEF Fits
  <2>4. paid = Debit(s, w.context, r.value)
    BY <2>3 DEF paid
  <2>5. Fits(error.receiver, Debit(s, w.context, r.value))
    BY <1>5, <2>1, <2>4 DEF Fits
  <2>6. fromExitCalldata(r.data, r.gas)
    BY <1>9 DEF decodes, fromExitCalldata
  <2>7. ~(error.account.balance[error.owner] < r.value)
    BY <1>9, <2>1
  <2>8. validateExitCall(error, r, s)
    BY <1>9, <2>1, <2>2, <2>3, <2>5, <2>6, <2>7 DEF validateExitCall
  <2> QED BY <1>1, <1>2, <2>1, <2>8, ProofsOfRecord
<1> HIDE DEF paid, poor, unchanged
<1> QED BY <1>6, <1>7, <1>8, <1>9

\* So nothing is rejected that is not misreported or sent with proofs that cannot convince.
LEMMA ReportsConvince ==
  ASSUME setup \in Setups, Reverted \in States, NEW p, FailedAt(p), ClaimedOf(w)
  PROVE  ~Astray
<1>1. p # <<>> /\ AuditAt(p, audited, index) /\ Finds(Head(p), error)
  BY DEF FailedAt
<1>2. PICK h : h = Head(p)
  OBVIOUS
<1>3. CASE h = "exit call"
  <2>1. FindsInExit(error)
    BY <1>1, <1>2, <1>3 DEF Finds
  <2>2. PICK a : a = audited
    OBVIOUS
  <2>3. PICK i : i = index
    OBVIOUS
  <2>4. AuditAt(p, a, i) /\ Head(p) = "exit call"
    BY <1>1, <1>2, <1>3, <2>2, <2>3
  <2> QED BY <1>1, <2>1, <2>2, <2>4, ExitConvinces
<1>4. CASE h = "access list"
  <2>1. FindsInList(error)
    BY <1>1, <1>2, <1>4 DEF Finds
  <2>2. index <= Len(w.list)
    BY <2>1 DEF FindsInList
  <2>3. PICK r : r = record
    OBVIOUS
  <2>4. PICK s : s = getLastState(index)
    OBVIOUS
  <2>5. AtError(r, s)
    BY <1>1, <1>2, <1>4, <2>2, <2>3, <2>4, ErrorKnown
  <2>6. CASE r.op \in Observers \ {"BLOCKHASH"} /\ Deviates /\ error = Error(r.op, audited, audited)
    BY <2>5, <2>6, ObservedConvinces
  <2>7. CASE r.op = "SSTORE" /\ FindsInStore(error)
    BY <2>5, <2>7, StoreConvinces
  <2>8. CASE r.op = "CALL" /\ FindsInCall(error)
    BY <2>5, <2>8, CallConvinces
  <2>9. CASE error = Unsent
    BY <2>9 DEF Astray, Rejected
  <2>10. CASE error = Error("STATICCALL", audited, audited)
    <3>1. error.type = "STATICCALL"
      BY <2>10, ErrorFields
    <3> QED BY <2>9, <3>1, MisreportsMore DEF Astray
  <2> QED BY <2>1, <2>3, <2>6, <2>7, <2>8, <2>9, <2>10 DEF FindsInList
<1>5. CASE h \notin {"exit call", "access list"}
  <2>1. PICK a : a = audited
    OBVIOUS
  <2>2. PICK i : i = index
    OBVIOUS
  <2>3. AuditAt(p, a, i) /\ Head(p) \notin {"exit call", "access list"}
    BY <1>1, <1>2, <1>5, <2>1, <2>2
  <2> QED BY <1>1, <2>1, <2>3, FieldsConvince
<1> QED BY <1>3, <1>4, <1>5
-----------------------------------------------------------------------------
\* An error that is not sent is misreported under these conditions.
LEMMA UnsentReports ==
  ASSUME error = Unsent
  PROVE  JudgedOtherwise <=>
           \/ tx.incoming /\ (tx.value = 0 \/ tx.to = Relay)
           \/ w.list # <<>> /\ \A i \in DOMAIN w.list : w.list[i].op \notin ChangesState
<1>1. error.type = "unsent"
  BY DEF Unsent
<1> QED BY <1>1 DEF JudgedOtherwise

\* In the fields of an honest witness nothing is wrong.
LEMMA FieldsHonest ==
  ASSUME HonestClaim, Reverted \in States, NEW p, NEW a, NEW i, AuditAt(p, a, i), p # <<>>,
         a = audited, Finds(Head(p), error), Head(p) \notin {"exit call", "access list"}
  PROVE  ~Unfounded
<1> SUFFICES ASSUME Unfounded PROVE FALSE
  OBVIOUS
<1>1. ~JudgedOtherwise /\ TreeTrusted
  BY DEF Unfounded
<1>2. PlanFits(p)
  BY DEF AuditAt
<1>3. Left(Head(p), p)
  BY <1>2, TailPlan
<1>4. ASSUME NEW t, error = WitnessError(t), t \in WitnessErrors
      PROVE  error # Unsent /\ error.type = t
  <2>1. error.type = t
    BY <1>4, WitnessErrorFields
  <2>2. t # "unsent"
    BY <1>4 DEF WitnessErrors, StateRootErrors
  <2>3. Unsent.type = "unsent"
    BY DEF Unsent
  <2> QED BY <2>1, <2>2, <2>3
<1>5. /\ tx.incoming \in BOOLEAN /\ w.origin = origin /\ w.gasPrice = tx.price
      /\ setup \in Setups
      /\ tx.incoming => tx.price = 0
  <2>1. setup \in Setups /\ w.origin = origin /\ w.gasPrice = tx.price
    BY DEF HonestClaim, GivenWitness
  <2> QED BY <2>1, SetupFacts, SetupAssumption DEF tx
<1>6. CASE error = WitnessError("WITNESS_CONTEXT") /\ ContextDiffers
  <2> DEFINE t == "WITNESS_CONTEXT"
  <2>1. error # Unsent /\ error.type = "WITNESS_CONTEXT"
    <3>1. t \in WitnessErrors
      BY DEF WitnessErrors
    <3> HIDE DEF t
    <3>2. error = WitnessError(t)
      BY <1>6 DEF t
    <3>3. error # Unsent /\ error.type = t
      BY <1>4, <3>1, <3>2
    <3> QED BY <3>3 DEF t
  <2>2. ~(tx.incoming /\ tx.from # Zero)
    BY <1>1, <2>1, Misreports
  <2>3. w.origin = tx.from
    BY <1>5, <2>2 DEF origin
  <2>4. w.gasPrice = IF tx.incoming THEN 0 ELSE tx.price
    BY <1>5
  <2> QED BY <1>6, <2>3, <2>4, ClaimFacts DEF ContextDiffers
<1>7. CASE w.gasUsed > w.gasAvailable
  <2>1. w.gasUsed \in Int /\ w.gasUsed <= Available
    BY ClaimFacts
  <2>2. w.gasAvailable = Available
    BY ClaimFacts
  <2>3. Available \in Int
    <3>1. Available \in Nat
      BY ONLY <1>5, SetupFacts
    <3> QED BY ONLY <3>1
  <2>4. w.gasUsed > Available
    BY <1>7, <2>2
  <2> QED BY ONLY <2>1, <2>3, <2>4
<1>8. CASE error = WitnessError("WITNESS_REFUND") /\ w.refund # SstoreRefunds
  <2> DEFINE t == "WITNESS_REFUND"
  <2>1. error # Unsent /\ error.type = "WITNESS_REFUND"
    <3>1. t \in WitnessErrors
      BY DEF WitnessErrors
    <3> HIDE DEF t
    <3>2. error = WitnessError(t)
      BY <1>8 DEF t
    <3>3. error # Unsent /\ error.type = t
      BY <1>4, <3>1, <3>2
    <3> QED BY <3>3 DEF t
  <2>2. RefundsDiffer
    BY <1>8, RefundsAgree
  <2>3. WitnessMisjudged("WITNESS_REFUND")
    BY <2>2 DEF WitnessMisjudged
  <2> QED BY <1>1, <2>1, <2>3, Misreports
<1>9. CASE /\ Head(p) = "failure root" /\ error = WitnessError("SIGNED_TX_STATE_ROOT_FAILURE")
           /\ claim.root # FailureRootFrom(audited)
  <2> DEFINE t == "SIGNED_TX_STATE_ROOT_FAILURE"
  <2>1. error # Unsent /\ error.type = "SIGNED_TX_STATE_ROOT_FAILURE"
    <3>1. t \in WitnessErrors
      BY DEF WitnessErrors, StateRootErrors
    <3> HIDE DEF t
    <3>2. error = WitnessError(t)
      BY <1>9 DEF t
    <3>3. error # Unsent /\ error.type = t
      BY <1>4, <3>1, <3>2
    <3> QED BY <3>3 DEF t
  <2>2. ~tx.incoming /\ w.status # "success"
    BY <1>2, <1>3, <1>9 DEF PlanFits
  <2>5. FailureRootFrom(a) = FailureRoot
    BY <1>1, <1>5, <1>9, <2>1, TreeIs DEF TreeErrors
  <2>3. CheckpointLeaked
    BY <1>9, <2>2, <2>5, FailurePaid
  <2>4. WitnessMisjudged("SIGNED_TX_STATE_ROOT_FAILURE")
    BY <2>3 DEF WitnessMisjudged
  <2> QED BY <1>1, <2>1, <2>4, Misreports
<1>10. CASE /\ Head(p) = "input root" /\ w.stateRootEnter # EntryRootFrom(audited)
            /\ error = IF tx.incoming THEN Unsent ELSE WitnessError("INPUT_STATE_ROOT")
  <2> DEFINE t == "INPUT_STATE_ROOT"
  <2>4. tx.incoming => error = Unsent /\ error.type = "unsent"
    BY <1>10 DEF Unsent
  <2>5. ~tx.incoming => error # Unsent /\ error.type = t
    <3> SUFFICES ASSUME ~tx.incoming PROVE error # Unsent /\ error.type = t
      OBVIOUS
    <3>1. t \in WitnessErrors
      BY DEF WitnessErrors
    <3>2. error = WitnessError(t)
      BY <1>10
    <3> HIDE DEF t
    <3> QED BY <1>4, <3>1, <3>2
  <2>6. TreeErrors(error.type)
    BY <2>4, <2>5 DEF TreeErrors
  <2>7. EntryRootFrom(a) = EntryRoot
    BY <1>1, <1>5, <1>10, <2>6, TreeIs
  <2>1. WitnessMisjudged("INPUT_STATE_ROOT")
    BY <1>10, <2>7, InputRoot
  <2>2. CASE tx.incoming
    <3>1. tx.to = Relay \/ tx.value = 0
      BY <2>1, <2>2 DEF WitnessMisjudged
    <3> QED BY <1>1, <2>2, <2>4, <3>1, UnsentReports
  <2>3. CASE ~tx.incoming
    BY <1>1, <2>1, <2>3, <2>5, Misreports
  <2> QED BY <1>5, <2>2, <2>3
<1>11. CASE Head(p) = "output root" /\ error = Unsent /\ LeaveDiffers
  <2>1. ~Exiting
    BY <1>2, <1>3, <1>11 DEF PlanFits
  <2>2. w.to = tx.to
    BY ClaimFacts
  <2>3. CASE tx.to = Relay
    <3>1. tx.incoming
      BY <1>5, <2>1, <2>2, <2>3 DEF Exiting
    <3> QED BY <1>1, <1>11, <2>3, <3>1, UnsentReports
  <2>4. CASE tx.to # Relay
    <3>1. w.stateRootLeave = getLastState(Len(w.list) + 1)
      BY <2>2, <2>4, OutputRoot DEF proveWitnessExitRootError
    <3>2. w.list # <<>> /\ \A k \in DOMAIN w.list : w.list[k].op \notin ChangesState
      BY <1>11, <3>1 DEF LeaveDiffers
    <3> QED BY <1>1, <1>11, <3>2, UnsentReports
  <2> QED BY <2>3, <2>4
<1>12. CASE Head(p) = "success root" /\ EndDiffers(error)
  <2>1. w.status = "success" /\ (a = w.stateRootLeave \/ DebitKept(Len(w.list) + 1))
    BY <1>12, AtEnd
  <2>2. CASE tx.incoming
    <3>1. PICK s \in States : Settled(s, w) /\ claim.root = s
      BY <2>2, ClaimRoot
    <3>2. claim.root = w.stateRootLeave
      BY <2>1, <3>1 DEF Settled
    <3> QED BY <1>12, <2>2, <3>2 DEF EndDiffers
  <2>3. CASE ~tx.incoming
    <3>1. /\ error = WitnessError("SIGNED_TX_STATE_ROOT_SUCCESS")
          /\ claim.root # SuccessRoot(w, audited)
      BY <1>12, <2>3 DEF EndDiffers
    <3>2. claim.root = SuccessRoot(w, w.stateRootLeave)
      BY <2>1, <2>3, SuccessPaid
    <3>3. audited # w.stateRootLeave
      BY <3>1, <3>2
    <3>4. DebitKept(Len(w.list) + 1)
      BY <2>1, <3>3
    <3> DEFINE t == "SIGNED_TX_STATE_ROOT_SUCCESS"
    <3>5. error # Unsent /\ error.type = "SIGNED_TX_STATE_ROOT_SUCCESS"
      <4>1. t \in WitnessErrors
        BY DEF WitnessErrors, StateRootErrors
      <4> HIDE DEF t
      <4>2. error = WitnessError(t)
        BY <3>1 DEF t
      <4>3. error # Unsent /\ error.type = t
        BY <1>4, <4>1, <4>2
      <4> QED BY <4>3 DEF t
    <3> QED BY <1>1, <3>4, <3>5, Misreports
  <2> QED BY <1>5, <2>2, <2>3
<1> QED BY <1>6, <1>7, <1>8, <1>9, <1>10, <1>11, <1>12 DEF Finds

\* Nor in an exit, if there were none before it.
LEMMA ExitHonest ==
  ASSUME HonestClaim, Reverted \in States, NEW p, NEW a, NEW i, AuditAt(p, a, i), p # <<>>, a = audited,
         Head(p) = "exit call", FindsInExit(error)
  PROVE  ~Unfounded
<1> SUFFICES ASSUME Unfounded PROVE FALSE
  OBVIOUS
<1> DEFINE exited == decodes(w.calldata, w.gasAvailable)
           inserted == updateExitsRoot(audited, <<>>, w.caller, w.callvalue, w.gasAvailable)
           d == Debit(Charged, tx.from, tx.value)
<1>1. ~JudgedOtherwise
  BY DEF Unfounded
<1>2. ExitKnown(a)
  BY AtExit DEF HonestClaim
<1>3. /\ audited = w.stateRootEnter /\ ~tx.incoming /\ w.to = Relay
  BY <1>2 DEF ExitKnown
<1>4. /\ w.caller = tx.from /\ w.callvalue = tx.value /\ w.gasAvailable = Available
      /\ tx.to = Relay /\ w.calldata = tx.data
  BY <1>3, ClaimFacts
<1>5. ExitWitness(w)
  BY <1>4 DEF HonestClaim
<1>6. w.stateRootEnter = d
  BY <1>3, <1>5 DEF ExitWitness
<1>7. exited <=> tx.data = "exit" /\ Available >= ExitFee
  BY <1>4 DEF decodes
<1>8. exited <=> w.status = "success"
  <2>1. Charged.balance[tx.from] >= tx.value
    BY <1>3, CanPay DEF HonestClaim
  <2> QED BY <1>5, <1>7, <2>1 DEF ExitWitness
<1>9. CASE w.gasAvailable # w.gasUsed \/ w.refund # 0
  BY <1>3, <1>9, ExitGas DEF proveExitCallWitnessGasError
<1>10. CASE /\ error = WitnessError("EXIT_CALL_WITNESS_EXIT_ROOT")
            /\ exited /\ inserted # w.stateRootLeave
  <2>1. error.type = "EXIT_CALL_WITNESS_EXIT_ROOT"
    BY <1>10, WitnessErrorFields
  <2> DEFINE t == "EXIT_CALL_WITNESS_EXIT_ROOT"
  <2>a. Unsent.type # t
    BY DEF Unsent
  <2>b. error.type = t
    BY <2>1
  <2> HIDE DEF t
  <2>2. error # Unsent
    BY <2>a, <2>b
  <2>3. before.exits = <<>>
    BY <1>1, <2>1, <2>2, Misreports
  <2>4. w.stateRootLeave = updateExitsRoot(d, before.exits, tx.from, tx.value, Available)
    BY <1>5, <1>8, <1>10 DEF ExitWitness
  <2> HIDE DEF d
  <2>5. inserted = w.stateRootLeave
    BY <1>3, <1>4, <1>6, <2>3, <2>4
  <2> QED BY <1>10, <2>5
<1>11. \/ w.gasAvailable # w.gasUsed \/ w.refund # 0
       \/ ~exited /\ w.status = "success"
       \/ exited /\ w.status # "success"
       \/ /\ error = WitnessError("EXIT_CALL_WITNESS_EXIT_ROOT")
          /\ exited /\ inserted # w.stateRootLeave
  BY DEF FindsInExit
<1> HIDE DEF exited, inserted
<1> QED BY <1>8, <1>9, <1>10, <1>11

\* An error about a record is sent.
LEMMA ReportIsSent ==
  ASSUME NEW t, t \in OwnOps \cup ExitOps, NEW a, NEW b, error = Error(t, a, b)
  PROVE  error # Unsent /\ error.type = t
<1>1. error.type = t
  BY ErrorFields
<1>2. t # "unsent"
  BY DEF OwnOps, ExitOps
<1>3. Unsent.type = "unsent"
  BY DEF Unsent
<1> QED BY <1>1, <1>2, <1>3

\* Where an honest record is found wrong, the auditor and the VM know the same state.
LEMMA HonestAtError ==
  ASSUME HonestClaim, NEW r, NEW s, AtError(r, s)
  PROVE  /\ r = record /\ r = w.list[index] /\ s = getLastState(index)
         /\ w.context = tx.to /\ tx.to \in Contracts
         /\ GoodRecord(r, s, Sent(index), Undone(index))
         /\ ~DebitKept(index) => s = audited /\ s \in States /\ GoodRecord(r, s, Sent(index), {})
<1>1. /\ r = record /\ r = w.list[index] /\ s = getLastState(index) /\ index \in DOMAIN w.list
      /\ audited \in States
  BY DEF AtError, AtRecordFacts, Listed
<1>2. PICK i : i = index
  OBVIOUS
<1>3. KnownRecord(i, w.list[i], getLastState(i))
  BY <1>1, <1>2, RecordKnown
<1>4. w.context = tx.to /\ tx.to \in Contracts /\ GoodRecord(r, s, Sent(i), Undone(i))
  BY <1>1, <1>2, <1>3 DEF KnownRecord
<1>5. ASSUME ~DebitKept(index)
      PROVE  s = audited /\ s \in States /\ GoodRecord(r, s, Sent(i), {})
  <2>1. s = audited /\ InStep(audited, index)
    BY <1>5 DEF AtError
  <2>2. /\ w.list \in Seq(Records) /\ i \in 1 .. Len(w.list) /\ w.list # <<>>
    BY <1>1, <1>2, ClaimFacts
  <2>3. tx.to # Relay
    BY <2>2 DEF HonestClaim, ExitWitness
  <2>4. w.stateRootEnter = Entered /\ GoodList(w.list)
    BY <2>2, <2>3 DEF HonestClaim, CallWitness
  <2>5. GoodRecord(w.list[i], RootBefore(w.list, i), Messages(w.list, i), Traces(w.list, i))
    BY <2>2, <2>4 DEF GoodList
  <2>6. \A j : getLastState(j) = RootBefore(w.list, j)
    BY <2>4, LastState
  <2>7. Traces(w.list, i) = {}
    BY <1>2, <2>1, <2>6 DEF Traces, Failed, Messages, InStep
  <2>8. Messages(w.list, i) = Sent(i)
    BY SentMessages
  <2> QED BY <1>1, <1>2, <2>1, <2>5, <2>6, <2>7, <2>8
<1> QED BY <1>1, <1>2, <1>4, <1>5

\* What an honest record observed is found as it was, unless misreported.
LEMMA ObservedHonest ==
  ASSUME HonestClaim, NEW r, NEW s, AtError(r, s), r.op \in Observers \ {"BLOCKHASH"}, Deviates,
         error = Error(r.op, audited, audited)
  PROVE  JudgedOtherwise
<1> SUFFICES ASSUME ~JudgedOtherwise PROVE FALSE
  OBVIOUS
<1>1. error # Unsent /\ error.type = r.op
  <2>1. r.op \in OwnOps \cup ExitOps
    BY DEF Observers, GlobalStateRecords, HeaderRecords, OwnOps
  <2> QED BY <2>1, ReportIsSent
<1>2. /\ r = record /\ r = w.list[index] /\ s = getLastState(index) /\ w.context = tx.to
      /\ GoodLook(r, s, Undone(index))
      /\ ~DebitKept(index) => s = audited /\ GoodLook(r, s, {})
  BY HonestAtError DEF GoodRecord
<1>3. CASE r.op \in {"BALANCE", "SELFBALANCE"}
  <2>1. r.value # 0 /\ ~DebitKept(index)
    BY <1>1, <1>2, <1>3, MisreportsMore
  <2>2. r.value = s.balance[IF r.op = "BALANCE" THEN r.key ELSE tx.to]
    BY <1>2, <1>3, <2>1 DEF GoodLook
  <2>3. checkBalance
    BY <1>2, <1>3 DEF Deviates
  <2> QED BY <1>2, <2>1, <2>2, <2>3 DEF checkBalance, Balance
<1>4. CASE r.op \in {"EXTCODESIZE", "EXTCODEHASH", "EXTCODECOPY"}
  <2>1. checkExtCode
    BY <1>2, <1>4 DEF Deviates
  <2>2. CASE r.op = "EXTCODECOPY"
    <3>1. r.key \in Contracts
      BY <1>1, <1>2, <2>2, Misreports
    <3>2. r.value = TRUE
      BY <1>2, <2>2, <3>1 DEF GoodLook
    <3>3. r.value # (r.key \in Contracts)
      BY <1>2, <2>1, <2>2 DEF checkExtCode
    <3> QED BY <3>1, <3>2, <3>3
  <2>3. CASE r.op \in {"EXTCODESIZE", "EXTCODEHASH"}
    <3>1. r.op = "EXTCODEHASH" => ~RecordMisjudged("EXTCODEHASH", index)
      BY <1>1, Misreports
    <3>2. r.op = "EXTCODEHASH" => ~accountIsEmpty(s, r.key)
      BY <1>2, <3>1 DEF RecordMisjudged
    <3>3. r.value = IF r.key \in Contracts THEN "code" ELSE "empty"
      BY <1>2, <2>3, <3>2 DEF GoodLook
    <3>4. r.value # IF r.key \in Contracts THEN "code" ELSE "empty"
      BY <1>2, <2>1, <2>3 DEF checkExtCode
    <3> QED BY <3>3, <3>4
  <2> QED BY <1>4, <2>2, <2>3
<1>5. CASE r.op \in {"COINBASE", "HEADER"}
  <2>1. checkHeader
    BY <1>2, <1>5 DEF Deviates
  <2>2. r.op = "COINBASE" => ~RecordMisjudged("COINBASE", index)
    BY <1>1, Misreports
  <2>3. r.op = "COINBASE" => setup.coinbase # Zero
    BY <2>2 DEF RecordMisjudged
  <2>4. r.value = IF r.op = "COINBASE" THEN setup.coinbase ELSE "header"
    BY <1>2, <1>5, <2>3 DEF GoodLook
  <2> QED BY <1>2, <2>1, <2>4 DEF checkHeader
<1>6. CASE r.op = "SLOAD"
  <2>1. r.value = 0
    BY <1>1, <1>2, <1>6, MisreportsMore
  <2>2. checkSload
    BY <1>2, <1>6 DEF Deviates
  <2> QED BY <1>2, <2>1, <2>2 DEF checkSload
<1>7. r.op \in {"BALANCE", "SELFBALANCE"} \/ r.op \in {"EXTCODESIZE", "EXTCODEHASH", "EXTCODECOPY"}
      \/ r.op \in {"COINBASE", "HEADER"} \/ r.op = "SLOAD"
  BY DEF Observers, GlobalStateRecords, HeaderRecords
<1> QED BY <1>3, <1>4, <1>5, <1>6, <1>7

\* What it stored is what the auditor stores, if nothing was there before.
LEMMA StoreHonest ==
  ASSUME HonestClaim, NEW r, NEW s, AtError(r, s), r.op = "SSTORE", FindsInStore(error)
  PROVE  JudgedOtherwise
<1> SUFFICES ASSUME ~JudgedOtherwise PROVE FALSE
  OBVIOUS
<1> DEFINE t == "SSTORE"
<1>1. t \in OwnOps \cup ExitOps /\ error = Error(t, audited, audited)
  BY DEF OwnOps, FindsInStore
<1> HIDE DEF t
<1>2. error # Unsent /\ error.type = t
  BY <1>1, ReportIsSent
<1>3. error.type = "SSTORE"
  BY <1>2 DEF t
<1>4. /\ r = record /\ s = getLastState(index) /\ w.context = tx.to /\ tx.to \in Contracts
      /\ GoodStore(r, s) /\ (~DebitKept(index) => s = audited /\ s \in States)
  BY HonestAtError DEF GoodRecord
<1>5. /\ r.value # 0 /\ ~DebitKept(index)
      /\ \A k \in Slots \ {r.key} : StorageOf(s, w.context)[k] = NoLeaf
  BY <1>2, <1>3, <1>4, MisreportsMore
<1>6. s = audited /\ s \in States
  BY <1>4, <1>5
<1>7. r.key \in Slots /\ r.value \in Nat /\ r.refund = updateSstoreGas(r.value)
  BY <1>4 DEF GoodStore
<1>8. r.refund = ExpectedRefund(r.value, 0)
  BY <1>5, <1>7 DEF ExpectedRefund, updateSstoreGas
<1> DEFINE c == tx.to
           k == r.key
           leaf == Short(r.value)
           m == s.storage[c]
<1>9. NewLeaf(r.value) = leaf
  BY <1>5 DEF NewLeaf
<1>10. \/ r.root = Put([s EXCEPT !.storage[c] = [m EXCEPT ![k] = leaf]], c)
       \/ r.root = Put([s EXCEPT !.storage[c] = [NothingStored EXCEPT ![k] = leaf]], c)
  BY <1>4, <1>9 DEF GoodStore, Stored
<1>11. m \in [Slots -> Leaves] /\ \A x \in Slots \ {k} : m[x] = NoLeaf
  BY <1>4, <1>5, <1>6, StateParts DEF StorageOf
<1> HIDE DEF c, k, leaf, m
<1>12. [m EXCEPT ![k] = leaf] = [NothingStored EXCEPT ![k] = leaf]
  BY <1>11 DEF NothingStored
<1>13. r.root = Put([s EXCEPT !.storage[c] = [NothingStored EXCEPT ![k] = leaf]], c)
  BY <1>10, <1>12
<1> QED BY <1>4, <1>6, <1>8, <1>13 DEF FindsInStore, c, k, leaf

\* A call that failed left everything as it was, and an exit failed for want of value or data.
LEMMA CallHonest ==
  ASSUME HonestClaim, NEW r, NEW s, AtError(r, s), r.op = "CALL", FindsInCall(error),
         witness = w, index <= Len(w.list)
  PROVE  JudgedOtherwise
<1> SUFFICES ASSUME ~JudgedOtherwise PROVE FALSE
  OBVIOUS
<1> DEFINE paid == Debit(audited, w.context, r.value)
           poor == audited.balance[w.context] < r.value
           unchanged == NothingHappened(r, audited)
<1>1. /\ r = record /\ w.context = tx.to /\ tx.to \in Contracts
      /\ GoodCall(r, s, Sent(index), Undone(index))
      /\ ~DebitKept(index) => s = audited /\ GoodCall(r, s, Sent(index), {})
  BY HonestAtError DEF GoodRecord
<1>2. ~(index > Len(witness.list))
  <2>1. index \in Int /\ Len(w.list) \in Int
    BY DEF AtError, AtRecordFacts, Listed
  <2> QED BY <2>1
<1>3. \/ error = Error("CALL", audited, paid) /\ ~unchanged
      \/ /\ error = Error("EXIT_CALL_ENCODING", audited, paid) /\ r.key = Relay
         /\ ~decodes(r.data, r.gas) /\ ~unchanged
      \/ /\ error = Error("EXIT_CALL", audited, paid) /\ ~poor /\ r.key = Relay
         /\ decodes(r.data, r.gas) /\ ~r.success
      \/ error = Error("EXIT_CALL", audited, paid) /\ r.success
  BY <1>1, <1>2 DEF FindsInCall, Balance
<1> HIDE DEF paid
<1>4. CASE error = Error("CALL", audited, paid) /\ ~unchanged
  <2> DEFINE t == "CALL"
  <2>1. t \in OwnOps \cup ExitOps /\ error = Error(t, audited, paid)
    BY <1>4 DEF OwnOps
  <2> HIDE DEF t
  <2>2. error # Unsent /\ error.type = t
    BY <2>1, ReportIsSent
  <2>3. ~r.success /\ ~DebitKept(index) /\ ~LeavesCheckpoint
    BY <1>1, <2>2, MisreportsMore DEF t
  <2>4. r.root = audited
    BY <1>1, <2>3 DEF GoodCall
  <2> QED BY <1>4, <2>3, <2>4 DEF NothingHappened
<1>5. CASE /\ error = Error("EXIT_CALL_ENCODING", audited, paid) /\ r.key = Relay
           /\ ~decodes(r.data, r.gas) /\ ~unchanged
  <2> DEFINE t == "EXIT_CALL_ENCODING"
  <2>1. t \in OwnOps \cup ExitOps /\ error = Error(t, audited, paid)
    BY <1>5 DEF ExitOps
  <2> HIDE DEF t
  <2>2. error # Unsent /\ error.type = t
    BY <2>1, ReportIsSent
  <2>3. ~DebitKept(index)
    BY <2>2, MisreportsMore DEF t
  <2>4. ~r.success
    BY <1>1, <1>5 DEF GoodCall, decodes
  <2>5. r.key \notin Contracts
    BY <1>5, AddressAssumption
  <2>6. r.root = audited
    BY <1>1, <2>3, <2>4, <2>5 DEF GoodCall
  <2> QED BY <1>5, <2>4, <2>6 DEF NothingHappened
<1>6. CASE error = Error("EXIT_CALL", audited, paid)
  <2> DEFINE t == "EXIT_CALL"
  <2>1. t \in OwnOps \cup ExitOps /\ error = Error(t, audited, paid)
    BY <1>6 DEF ExitOps
  <2> HIDE DEF t
  <2>2. error # Unsent /\ error.type = t
    BY <2>1, ReportIsSent
  <2>3. ~r.success /\ ~DebitKept(index)
    BY <1>1, <2>2, MisreportsMore DEF t
  <2>4. error.type # "CALL" /\ error.type # "EXIT_CALL_ENCODING"
    BY <2>2 DEF t
  <2>5. ~poor /\ r.key = Relay /\ decodes(r.data, r.gas)
    <3>1. error # Error("CALL", audited, paid) /\ error # Error("EXIT_CALL_ENCODING", audited, paid)
      BY <2>4 DEF Error
    <3> HIDE DEF poor, unchanged
    <3> QED BY <1>3, <2>3, <3>1
  <2>6. r.data = "exit" /\ r.gas >= ExitFee /\ r.gas \in Int /\ ExitFee \in Int
    BY <1>1, <2>5, GasAssumption DEF decodes, GoodCall
  <2>7. ~(r.gas < ExitFee)
    BY <2>6
  <2> QED BY <1>1, <2>3, <2>5, <2>6, <2>7 DEF GoodCall
<1> HIDE DEF poor, unchanged
<1> QED BY <1>3, <1>4, <1>5, <1>6

\* So nothing is found in an honest claim that is not misreported.
LEMMA HonestReports ==
  ASSUME HonestClaim, Reverted \in States, witness = w, ClaimedOf(w), NEW p, FailedAt(p)
  PROVE  ~Unfounded
<1>1. p # <<>> /\ AuditAt(p, audited, index) /\ Finds(Head(p), error)
  BY DEF FailedAt
<1>2. PICK h : h = Head(p)
  OBVIOUS
<1>3. CASE h = "exit call"
  <2>1. FindsInExit(error)
    BY <1>1, <1>2, <1>3 DEF Finds
  <2>2. PICK a : a = audited
    OBVIOUS
  <2>3. PICK i : i = index
    OBVIOUS
  <2>4. AuditAt(p, a, i) /\ Head(p) = "exit call"
    BY <1>1, <1>2, <1>3, <2>2, <2>3
  <2> QED BY <1>1, <2>1, <2>2, <2>4, ExitHonest
<1>4. CASE h = "access list"
  <2>1. FindsInList(error)
    BY <1>1, <1>2, <1>4 DEF Finds
  <2>2. index <= Len(w.list)
    BY <2>1 DEF FindsInList
  <2>3. PICK r : r = record
    OBVIOUS
  <2>4. PICK s : s = getLastState(index)
    OBVIOUS
  <2>5. AtError(r, s)
    <3>1. setup \in Setups
      BY DEF HonestClaim
    <3> QED BY <1>1, <1>2, <1>4, <2>2, <2>3, <2>4, <3>1, ErrorKnown
  <2>6. CASE r.op \in Observers \ {"BLOCKHASH"} /\ Deviates /\ error = Error(r.op, audited, audited)
    BY <2>5, <2>6, ObservedHonest DEF Unfounded
  <2>7. CASE r.op = "SSTORE" /\ FindsInStore(error)
    BY <2>5, <2>7, StoreHonest DEF Unfounded
  <2>8. CASE r.op = "CALL" /\ FindsInCall(error)
    BY <2>2, <2>5, <2>8, CallHonest DEF Unfounded
  <2>9. CASE error = Error("STATICCALL", audited, audited)
    <3> DEFINE t == "STATICCALL"
    <3>1. t \in OwnOps \cup ExitOps /\ error = Error(t, audited, audited)
      BY <2>9 DEF OwnOps
    <3> HIDE DEF t
    <3>2. error # Unsent /\ error.type = t
      BY <3>1, ReportIsSent
    <3> QED BY <3>2, MisreportsMore DEF Unfounded, t
  <2> QED BY <2>1, <2>2, <2>3, <2>6, <2>7, <2>8, <2>9 DEF FindsInList
<1>5. CASE h \notin {"exit call", "access list"}
  <2>1. PICK a : a = audited
    OBVIOUS
  <2>2. PICK i : i = index
    OBVIOUS
  <2>3. AuditAt(p, a, i) /\ Head(p) \notin {"exit call", "access list"}
    BY <1>1, <1>2, <1>5, <2>1, <2>2
  <2> QED BY <1>1, <2>1, <2>3, FieldsHonest
<1> QED BY <1>3, <1>4, <1>5

-----------------------------------------------------------------------------
\* The auditor reports an honest witness only where it judges otherwise than the VM or where its
\* one revert missed the state before the transaction, and the peg rejects what it reports only
\* then or where the proofs that it sends are made from the wrong account, storage or exits.
THEOREM ReportsOnlyWhere == Spec => []ReportedAndRejectedOnlyIf
<1>1. TypeInv /\ HonestInv /\ AuditInv => ReportedAndRejectedOnlyIf
  <2> SUFFICES ASSUME TypeInv, HonestInv, AuditInv, claim # NoClaim, plan = <<>>
               PROVE  /\ claim = Honest /\ error # NoError => Misreported
                      /\ Rejected => Misreported \/ Unconvincing
    BY DEF ReportedAndRejectedOnlyIf, Audited
  <2>1. ClaimedOf(w) /\ (error = NoError \/ \E p : FailedAt(p))
    BY DEF AuditInv
  <2>2. CASE error = NoError
    BY <2>2 DEF Rejected
  <2>3. ASSUME NEW p, FailedAt(p)
        PROVE  /\ claim = Honest /\ error # NoError => Misreported
               /\ Rejected => Misreported \/ Unconvincing
    <3>1. setup \in Setups /\ Reverted \in States
      BY RevertedTyped DEF TypeInv
    <3>2. ~Astray
      BY <2>1, <2>3, <3>1, ReportsConvince
    <3>3. ASSUME claim = Honest PROVE ~Unfounded
      <4>1. HonestClaim
        BY <3>3, HonestIs
      <4>2. witness = w
        BY <3>3 DEF w, Honest
      <4> QED BY <2>1, <2>3, <3>1, <4>1, <4>2, HonestReports
    <3>4. ~Misreported => ~JudgedOtherwise /\ TreeTrusted
      BY DEF Misreported, RevertMissed, TreeTrusted
    <3> QED BY <3>2, <3>3, <3>4 DEF Astray, Unfounded
  <2> QED BY <2>1, <2>2, <2>3
<1> QED BY <1>1, AuditInvariance, PTL
=============================================================================

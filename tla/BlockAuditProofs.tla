-------------------------- MODULE BlockAuditProofs --------------------------
(***************************************************************************)
(* Proofs about BlockAudit: no proof convicts an honest block, the peg     *)
(* accepts what the auditor proves, the auditor passes what is honest, and *)
(* a challenge stands, but for the exceptions that the properties name.    *)
(*                                                                         *)
(* They rest on one equation: a transaction that a prover may treat as     *)
(* simple is run by the VM to the state that the prover computes.          *)
(***************************************************************************)
EXTENDS BlockAudit, WellFoundedInduction, TLAPS

-----------------------------------------------------------------------------
(* The least number of a set, which stands for induction. *)

Before == OpToRel(<, Nat)

\* A set of numbers that is not empty has a least one.
LEMMA Least ==
  ASSUME NEW T \in SUBSET Nat, T # {}
  PROVE  \E m \in T : \A n \in T : m <= n
<1>1. IsWellFoundedOn(Before, Nat)
  BY NatLessThanWellFounded DEF Before
<1>2. \A m, n \in Nat : m < n => <<m, n>> \in Before
  BY DEF Before, OpToRel
<1>3. \E m \in T : \A n \in T : ~ (<<n, m>> \in Before)
  BY <1>1, WFMin
<1>4. \A m, n \in T : ~ (n < m) => m <= n
  OBVIOUS
<1>. QED
  BY <1>2, <1>3, <1>4

\* It is what Min chooses.
LEMMA MinIsLeast ==
  ASSUME NEW T \in SUBSET Nat, T # {}
  PROVE  Min(T) \in T /\ \A n \in T : Min(T) <= n
BY Least DEF Min

-----------------------------------------------------------------------------
(* States and the steps from one to the next. *)

\* States in which an account may owe, as in the midst of a transaction.
Ledgers ==
    [balance : [Addresses -> Int], nonce : [Addresses -> Nat],
     code : [Addresses -> BOOLEAN], exits : Exits]

Counted(s, a) == [s EXCEPT !.nonce[a] = @ + 1]

\* A state is a ledger in which nobody owes.
LEMMA StateTypes ==
  ASSUME NEW s
  PROVE  s \in States <=> s \in Ledgers /\ \A a \in Addresses : s.balance[a] \in Nat
<1>1. s \in States => s \in Ledgers /\ \A a \in Addresses : s.balance[a] \in Nat
  BY DEF States, Ledgers
<1>2. ASSUME s \in Ledgers, \A a \in Addresses : s.balance[a] \in Nat
      PROVE  s \in States
  <2>1. s.balance \in [Addresses -> Nat]
    BY <1>2 DEF Ledgers
  <2>. QED
    BY <1>2, <2>1 DEF States, Ledgers
<1>. QED
  BY <1>1, <1>2

\* What is in a ledger.
LEMMA LedgerTypes ==
  ASSUME NEW s \in Ledgers, NEW a \in Addresses
  PROVE  s.balance[a] \in Int /\ s.nonce[a] \in Nat /\ s.code[a] \in BOOLEAN /\ s.exits \in Exits
BY DEF Ledgers

\* Two ledgers are equal if all that is in them is.
LEMMA LedgersEqual ==
  ASSUME NEW s \in Ledgers, NEW u \in Ledgers,
         \A a \in Addresses : /\ s.balance[a] = u.balance[a]
                              /\ s.nonce[a] = u.nonce[a]
                              /\ s.code[a] = u.code[a],
         s.exits = u.exits
  PROVE  s = u
<1>1. s.balance = u.balance
  BY DEF Ledgers
<1>2. s.nonce = u.nonce
  BY DEF Ledgers
<1>3. s.code = u.code
  BY DEF Ledgers
<1>. QED
  BY <1>1, <1>2, <1>3 DEF Ledgers

\* Only the balance changes, of one account.
LEMMA CreditIs ==
  ASSUME NEW s \in Ledgers, NEW a \in Addresses, NEW v \in Int
  PROVE  /\ Credit(s, a, v) \in Ledgers
         /\ \A b \in Addresses :
              Credit(s, a, v).balance[b] = IF b = a THEN s.balance[b] + v ELSE s.balance[b]
         /\ Credit(s, a, v).nonce = s.nonce
         /\ Credit(s, a, v).code = s.code
         /\ Credit(s, a, v).exits = s.exits
<1>1. Credit(s, a, v) = [s EXCEPT !.balance = [s.balance EXCEPT ![a] = s.balance[a] + v]]
  BY DEF Credit, Ledgers
<1>2. /\ [s.balance EXCEPT ![a] = s.balance[a] + v] \in [Addresses -> Int]
      /\ \A b \in Addresses : [s.balance EXCEPT ![a] = s.balance[a] + v][b] =
                                IF b = a THEN s.balance[b] + v ELSE s.balance[b]
  BY DEF Ledgers
<1>. QED
  BY <1>1, <1>2 DEF Ledgers

\* A credit leaves nobody in debt.
LEMMA CreditKeeps ==
  ASSUME NEW s \in Ledgers, NEW a \in Addresses, NEW v \in Nat,
         \A b \in Addresses : s.balance[b] \in Nat
  PROVE  /\ Credit(s, a, v) \in Ledgers
         /\ Credit(s, a, v).nonce = s.nonce
         /\ \A b \in Addresses : Credit(s, a, v).balance[b] \in Nat
<1>1. v \in Int
  OBVIOUS
<1>2. /\ Credit(s, a, v) \in Ledgers /\ Credit(s, a, v).nonce = s.nonce
      /\ \A b \in Addresses :
           Credit(s, a, v).balance[b] = IF b = a THEN s.balance[b] + v ELSE s.balance[b]
  BY <1>1, CreditIs
<1>. QED
  BY <1>2

\* A debit changes one balance too.
LEMMA DebitIs ==
  ASSUME NEW s \in Ledgers, NEW a \in Addresses, NEW v \in Int
  PROVE  /\ Debit(s, a, v) \in Ledgers
         /\ \A b \in Addresses :
              Debit(s, a, v).balance[b] = IF b = a THEN s.balance[b] - v ELSE s.balance[b]
         /\ Debit(s, a, v).nonce = s.nonce
         /\ Debit(s, a, v).code = s.code
         /\ Debit(s, a, v).exits = s.exits
<1>1. Debit(s, a, v) = [s EXCEPT !.balance = [s.balance EXCEPT ![a] = s.balance[a] - v]]
  BY DEF Debit, Ledgers
<1>2. /\ [s.balance EXCEPT ![a] = s.balance[a] - v] \in [Addresses -> Int]
      /\ \A b \in Addresses : [s.balance EXCEPT ![a] = s.balance[a] - v][b] =
                                IF b = a THEN s.balance[b] - v ELSE s.balance[b]
  BY DEF Ledgers
<1>. QED
  BY <1>1, <1>2 DEF Ledgers

\* Only the nonce changes, of one account.
LEMMA CountedIs ==
  ASSUME NEW s \in Ledgers, NEW a \in Addresses
  PROVE  /\ Counted(s, a) \in Ledgers
         /\ \A b \in Addresses :
              Counted(s, a).nonce[b] = IF b = a THEN s.nonce[b] + 1 ELSE s.nonce[b]
         /\ Counted(s, a).balance = s.balance
         /\ Counted(s, a).code = s.code
         /\ Counted(s, a).exits = s.exits
<1>1. Counted(s, a) = [s EXCEPT !.nonce = [s.nonce EXCEPT ![a] = s.nonce[a] + 1]]
  BY DEF Counted, Ledgers
<1>2. /\ [s.nonce EXCEPT ![a] = s.nonce[a] + 1] \in [Addresses -> Nat]
      /\ \A b \in Addresses : [s.nonce EXCEPT ![a] = s.nonce[a] + 1][b] =
                                IF b = a THEN s.nonce[b] + 1 ELSE s.nonce[b]
  BY DEF Ledgers
<1>. QED
  BY <1>1, <1>2 DEF Ledgers

\* Only the code changes, of one account.
LEMMA CodeIs ==
  ASSUME NEW s \in Ledgers, NEW a \in Addresses
  PROVE  /\ setAccountCodeHash(s, a) \in Ledgers
         /\ setAccountCodeHash(s, a).balance = s.balance
         /\ setAccountCodeHash(s, a).nonce = s.nonce
         /\ setAccountCodeHash(s, a).exits = s.exits
         /\ s.code[a] => setAccountCodeHash(s, a) = s
<1>1. setAccountCodeHash(s, a) = [s EXCEPT !.code = [s.code EXCEPT ![a] = TRUE]]
  BY DEF setAccountCodeHash, Ledgers
<1>2. [s.code EXCEPT ![a] = TRUE] \in [Addresses -> BOOLEAN]
  BY DEF Ledgers
<1>3. s.code[a] => [s.code EXCEPT ![a] = TRUE] = s.code
  BY DEF Ledgers
<1>4. s = [s EXCEPT !.code = s.code]
  BY DEF Ledgers
<1>. QED
  BY <1>1, <1>2, <1>3, <1>4 DEF Ledgers

-----------------------------------------------------------------------------
(* What a transaction does. *)

\* The fields of a transaction, and the gas.
LEMMA TxTypes ==
  ASSUME NEW t \in Transactions
  PROVE  /\ t.incoming \in BOOLEAN /\ t.from \in Addresses /\ t.to \in Addresses
         /\ t.nonce \in Nat /\ t.gas \in Nat /\ t.price \in Nat /\ t.value \in Nat /\ t.data \in Nat
         /\ BaseGas \in Nat /\ DataGas \in Nat /\ CallGas \in Nat /\ CallRefund \in Nat
         /\ {Zero, Relay, Coinbase} \subseteq Addresses
BY AddressAssumption, GasAssumption DEF Transactions

\* Products of numbers are numbers, and multiplication distributes.
LEMMA Products ==
  ASSUME NEW m \in Nat, NEW n \in Nat, NEW p \in Nat
  PROVE  /\ m * p \in Nat /\ (m - n) * p \in Int
         /\ (m - n) * p = m * p - n * p
         /\ n <= m => (m - n) * p \in Nat /\ n * p <= m * p
OBVIOUS

\* The message of a transaction leaves every nonce.
LEMMA MessageIs ==
  ASSUME NEW s \in Ledgers, NEW t \in Transactions, NEW g \in Nat
  PROVE  LET sent == executeMessage(s, t, g)
         IN  /\ sent.state \in Ledgers
             /\ sent.state.nonce = s.nonce
             /\ sent.used \in Nat /\ sent.used <= g /\ sent.refund \in Nat
             /\ (t.incoming \/ s.balance[t.from] >= t.value) =>
                  \A a \in Addresses : s.balance[a] \in Nat => sent.state.balance[a] \in Nat
<1>. DEFINE sent == executeMessage(s, t, g)
<1>t. t.from \in Addresses /\ t.to \in Addresses /\ t.value \in Nat /\ t.value \in Int
  BY TxTypes
<1>1. CASE sent = Exception(s, g)
  BY <1>1, LedgerTypes DEF Exception
<1>2. CASE t.to = Relay /\ s.balance[t.from] >= t.value /\ t.data > 0
  <2>. DEFINE d == Debit(s, t.from, t.value)
              e == [d EXCEPT !.exits = Append(@, [from |-> t.from, value |-> t.value])]
  <2>1. sent = [state |-> e, used |-> g, refund |-> 0]
    BY <1>2 DEF executeMessage, executeExitCall
  <2>2. /\ d \in Ledgers /\ d.nonce = s.nonce
        /\ \A a \in Addresses : d.balance[a] = IF a = t.from THEN s.balance[a] - t.value ELSE s.balance[a]
    BY <1>t, DebitIs
  <2>. HIDE DEF d
  <2>3. e \in Ledgers /\ e.nonce = d.nonce /\ e.balance = d.balance
    <3>1. [from |-> t.from, value |-> t.value] \in [from : Addresses, value : Nat]
      BY TxTypes
    <3>2. Append(d.exits, [from |-> t.from, value |-> t.value]) \in Exits
      BY <2>2, <3>1 DEF Ledgers, Exits
    <3>. QED
      BY <2>2, <3>2 DEF Ledgers
  <2>. HIDE DEF e
  <2>4. \A a \in Addresses : s.balance[a] \in Nat => e.balance[a] \in Nat
    BY <1>2, <1>t, <2>2, <2>3
  <2>. QED
    BY <2>1, <2>2, <2>3, <2>4
<1>3. CASE t.to # Relay /\ t.to # Zero /\ (~ s.code[t.to] \/ g >= CallGas)
  <2>. DEFINE d == IF t.incoming THEN s ELSE Debit(s, t.from, t.value)
  <2>1. sent.state = Credit(d, t.to, t.value) /\ sent.used \in {0, CallGas} /\ sent.refund \in {0, CallRefund}
        /\ (sent.used = CallGas \/ sent.used = 0) /\ (sent.used = CallGas => sent.used = 0 \/ g >= CallGas)
    BY <1>3 DEF executeMessage, executeCall, Moved
  <2>2. /\ d \in Ledgers /\ d.nonce = s.nonce
        /\ (t.incoming \/ s.balance[t.from] >= t.value) =>
             \A a \in Addresses : s.balance[a] \in Nat => d.balance[a] \in Nat
    <3>1. CASE t.incoming
      BY <3>1
    <3>2. CASE ~ t.incoming
      <4>1. /\ Debit(s, t.from, t.value) \in Ledgers /\ Debit(s, t.from, t.value).nonce = s.nonce
            /\ \A a \in Addresses : Debit(s, t.from, t.value).balance[a] =
                                     IF a = t.from THEN s.balance[a] - t.value ELSE s.balance[a]
        BY <1>t, DebitIs
      <4>2. d = Debit(s, t.from, t.value)
        BY <3>2
      <4>. HIDE DEF d
      <4>. QED
        BY <1>t, <3>2, <4>1, <4>2
    <3>. QED
      BY <3>1, <3>2
  <2>. HIDE DEF d, sent
  <2>3. sent.used \in Nat /\ sent.used <= g /\ sent.refund \in Nat
    BY <2>1, TxTypes
  <2>4. /\ Credit(d, t.to, t.value) \in Ledgers
        /\ \A b \in Addresses :
             Credit(d, t.to, t.value).balance[b] = IF b = t.to THEN d.balance[b] + t.value ELSE d.balance[b]
        /\ Credit(d, t.to, t.value).nonce = d.nonce
    BY <1>t, <2>2, CreditIs
  <2>5. (t.incoming \/ s.balance[t.from] >= t.value) =>
          \A a \in Addresses : s.balance[a] \in Nat => sent.state.balance[a] \in Nat
    BY <1>t, <2>1, <2>2, <2>4
  <2>. QED
    BY <2>1, <2>2, <2>3, <2>4, <2>5 DEF sent
<1>4. CASE t.to # Relay /\ t.to = Zero /\ t.incoming /\ s.nonce[t.from] = 0 /\ ~ s.code[t.from]
  <2>1. sent = [state |-> setAccountCodeHash(s, t.from), used |-> 0, refund |-> 0]
    BY <1>4 DEF executeMessage, executeCreate, setAccountCodeHash
  <2>2. /\ setAccountCodeHash(s, t.from) \in Ledgers
        /\ setAccountCodeHash(s, t.from).balance = s.balance
        /\ setAccountCodeHash(s, t.from).nonce = s.nonce
    BY <1>t, CodeIs
  <2>3. /\ sent.state = setAccountCodeHash(s, t.from) /\ sent.used = 0 /\ sent.refund = 0
    BY <2>1
  <2>. HIDE DEF sent
  <2>. QED
    BY <2>2, <2>3 DEF sent
<1>5. \/ sent = Exception(s, g)
      \/ t.to = Relay /\ s.balance[t.from] >= t.value /\ t.data > 0
      \/ t.to # Relay /\ t.to # Zero /\ (~ s.code[t.to] \/ g >= CallGas)
      \/ t.to # Relay /\ t.to = Zero /\ t.incoming /\ s.nonce[t.from] = 0 /\ ~ s.code[t.from]
  BY DEF executeMessage, executeExitCall, executeCall, executeCreate
<1>. QED
  BY <1>1, <1>2, <1>3, <1>4, <1>5

\* The account that a signed transaction charges before its message.
LEMMA ChargedIs ==
  ASSUME NEW s \in States, NEW t \in Transactions, ~ t.incoming, CanRun(s, t)
  PROVE  LET c == Counted(Debit(s, t.from, t.gas * t.price), t.from)
         IN  /\ c \in States
             /\ c.balance[t.from] >= t.value
             /\ c.code = s.code /\ c.exits = s.exits
             /\ \A a \in Addresses :
                  /\ c.balance[a] = IF a = t.from THEN s.balance[a] - t.gas * t.price ELSE s.balance[a]
                  /\ c.nonce[a] = IF a = t.from THEN s.nonce[a] + 1 ELSE s.nonce[a]
<1>. DEFINE p == t.gas * t.price
            d == Debit(s, t.from, p)
            c == Counted(d, t.from)
<1>1. /\ p \in Nat /\ t.from \in Addresses /\ t.value \in Nat /\ s.balance[t.from] >= p + t.value
      /\ s \in Ledgers /\ \A a \in Addresses : s.balance[a] \in Nat
  BY TxTypes, Products, StateTypes DEF CanRun, getUpfrontCost
<1>. HIDE DEF p
<1>2. /\ d \in Ledgers /\ d.nonce = s.nonce /\ d.code = s.code /\ d.exits = s.exits
      /\ \A a \in Addresses : d.balance[a] = IF a = t.from THEN s.balance[a] - p ELSE s.balance[a]
  <2>1. s \in Ledgers /\ t.from \in Addresses /\ p \in Int
    BY <1>1
  <2>. QED
    BY <2>1, DebitIs
<1>. HIDE DEF d
<1>3. /\ c \in Ledgers /\ c.balance = d.balance /\ c.code = d.code /\ c.exits = d.exits
      /\ \A a \in Addresses : c.nonce[a] = IF a = t.from THEN d.nonce[a] + 1 ELSE d.nonce[a]
  BY <1>1, <1>2, CountedIs
<1>. HIDE DEF c
<1>4. c.balance[t.from] >= t.value /\ \A a \in Addresses : c.balance[a] \in Nat
  BY <1>1, <1>2, <1>3
<1>5. c \in States
  BY <1>3, <1>4, StateTypes
<1>. QED
  BY <1>2, <1>3, <1>4, <1>5 DEF c, d, p

\* A refund is part of what was used.
LEMMA Refunded ==
  ASSUME NEW used \in Nat, NEW refund \in Nat
  PROVE  /\ used - Lesser(refund, used \div 2) \in Nat
         /\ used - Lesser(refund, used \div 2) <= used
         /\ refund = 0 => used - Lesser(refund, used \div 2) = used
<1>1. used \div 2 \in Nat /\ used \div 2 <= used
  OBVIOUS
<1>. QED
  BY <1>1 DEF Lesser

\* How a signed transaction runs, in the terms of these lemmas.
LEMMA SignedRuns ==
  ASSUME NEW s \in States, NEW t \in Transactions, ~ t.incoming
  PROVE  LET c == Counted(Debit(s, t.from, t.gas * t.price), t.from)
             sent == executeMessage(c, t, t.gas - getBaseFee(t))
             used == sent.used + getBaseFee(t)
             spent == used - Lesser(sent.refund, used \div 2)
         IN  runTx(s, t) = Credit(Credit(sent.state, t.from, (t.gas - spent) * t.price),
                                  Coinbase, spent * t.price)
BY DEF runTx, Counted

\* A transaction that can run takes a state to a state, and raises the
\* nonce of its signer at most.
LEMMA RunIs ==
  ASSUME NEW s \in States, NEW t \in Transactions, CanRun(s, t)
  PROVE  /\ runTx(s, t) \in States
         /\ \A a \in Addresses : t.incoming \/ a # t.from => runTx(s, t).nonce[a] = s.nonce[a]
<1>1. s \in Ledgers /\ \A a \in Addresses : s.balance[a] \in Nat
  BY StateTypes
<1>t. t.from \in Addresses /\ Coinbase \in Addresses /\ t.gas \in Nat /\ t.price \in Nat
  BY TxTypes
<1>2. CASE t.incoming
  <2>. DEFINE sent == executeMessage(s, t, t.gas)
  <2>1. runTx(s, t) = sent.state
    <3>1. getBaseFee(t) = 0 /\ t.gas - 0 = t.gas
      BY <1>2, TxTypes DEF getBaseFee
    <3>. QED
      BY <1>2, <3>1 DEF runTx
  <2>2. /\ sent.state \in Ledgers /\ sent.state.nonce = s.nonce
        /\ \A a \in Addresses : sent.state.balance[a] \in Nat
    BY <1>1, <1>2, MessageIs, TxTypes
  <2>. QED
    BY <2>1, <2>2, StateTypes
<1>3. CASE ~ t.incoming
  <2>. DEFINE c == Counted(Debit(s, t.from, t.gas * t.price), t.from)
              fee == getBaseFee(t)
              sent == executeMessage(c, t, t.gas - fee)
              used == sent.used + fee
              spent == used - Lesser(sent.refund, used \div 2)
              back == (t.gas - spent) * t.price
              e == Credit(sent.state, t.from, back)
  <2>1. /\ c \in States /\ c.balance[t.from] >= t.value
        /\ \A a \in Addresses \ {t.from} : c.nonce[a] = s.nonce[a]
    BY <1>3, ChargedIs
  <2>2. c \in Ledgers /\ \A a \in Addresses : c.balance[a] \in Nat
    BY <2>1, StateTypes
  <2>3. fee \in Nat /\ t.gas - fee \in Nat
    <3>1. fee = BaseGas + DataGas * t.data /\ t.gas >= fee
      BY <1>3 DEF getBaseFee, CanRun
    <3>2. DataGas * t.data \in Nat
      BY TxTypes, Products
    <3>. QED
      BY <3>1, <3>2, TxTypes
  <2>4. runTx(s, t) = Credit(e, Coinbase, spent * t.price)
    BY <1>3, SignedRuns
  <2>. HIDE DEF c, fee
  <2>5. /\ sent.state \in Ledgers /\ sent.state.nonce = c.nonce
        /\ sent.used \in Nat /\ sent.used <= t.gas - fee /\ sent.refund \in Nat
        /\ \A a \in Addresses : sent.state.balance[a] \in Nat
    BY <2>1, <2>2, <2>3, MessageIs
  <2>. HIDE DEF sent
  <2>6. used \in Nat /\ used <= t.gas
    BY <2>3, <2>5, TxTypes
  <2>. HIDE DEF used
  <2>7. spent \in Nat /\ spent <= t.gas
    <3>1. /\ spent \in Nat /\ spent <= used
      BY <2>5, <2>6, Refunded
    <3>. HIDE DEF spent
    <3>. QED
      BY <1>t, <2>6, <3>1
  <2>. HIDE DEF spent
  <2>8. back \in Nat /\ spent * t.price \in Nat
    BY <1>t, <2>7, Products
  <2>. HIDE DEF back
  <2>9. e \in Ledgers /\ e.nonce = sent.state.nonce /\ \A a \in Addresses : e.balance[a] \in Nat
    BY <1>t, <2>5, <2>8, CreditKeeps
  <2>. HIDE DEF e
  <2>. DEFINE f == Credit(e, Coinbase, spent * t.price)
  <2>10. f \in Ledgers /\ f.nonce = e.nonce /\ \A a \in Addresses : f.balance[a] \in Nat
    BY <1>t, <2>8, <2>9, CreditKeeps
  <2>. HIDE DEF f
  <2>11. f \in States
    BY <2>10, StateTypes
  <2>. QED
    BY <1>3, <2>1, <2>4, <2>5, <2>9, <2>10, <2>11 DEF f
<1>. QED
  BY <1>2, <1>3

-----------------------------------------------------------------------------
(* What a prover computes is what the VM does. *)

\* An incoming transfer, or deployment of an address with neither nonce nor
\* key: the exception of CREATE_COLLISION leaves code as it is.
LEMMA SimpleIncomingIsRun ==
  ASSUME NEW s \in States, NEW t \in Transactions, t.incoming, t.to # Relay,
         t.to = Zero => s.nonce[t.from] = 0,
         t.to = Zero \/ ~ s.code[t.to]
  PROVE  CanRun(s, t) /\ runTx(s, t) = SimpleIncomingRoot(s, t)
<1>1. CanRun(s, t)
  BY TxTypes DEF CanRun, getBaseFee
<1>2. runTx(s, t) = executeMessage(s, t, t.gas - getBaseFee(t)).state
  BY DEF runTx
<1>3. CASE t.to = Zero /\ ~ s.code[t.from]
  BY <1>1, <1>2, <1>3 DEF executeMessage, executeCreate, SimpleIncomingRoot, setAccountCodeHash
<1>4. CASE t.to = Zero /\ s.code[t.from]
  <2>1. executeMessage(s, t, t.gas - getBaseFee(t)).state = s
    BY <1>4 DEF executeMessage, executeCreate, Exception
  <2>2. s \in Ledgers /\ t.from \in Addresses
    BY StateTypes, TxTypes
  <2>3. setAccountCodeHash(s, t.from) = s
    BY <1>4, <2>2, CodeIs
  <2>. QED
    BY <1>1, <1>2, <1>4, <2>1, <2>3 DEF SimpleIncomingRoot
<1>5. CASE t.to # Zero
  BY <1>1, <1>2, <1>5 DEF executeMessage, executeCall, Moved, SimpleIncomingRoot, increaseBalance
<1>. QED
  BY <1>3, <1>4, <1>5

\* u is s with v more in the balance of a.
Adds(s, u, a, v) ==
    /\ u \in Ledgers
    /\ \A b \in Addresses : u.balance[b] = IF b = a THEN s.balance[b] + v ELSE s.balance[b]
    /\ u.nonce = s.nonce /\ u.code = s.code /\ u.exits = s.exits

\* u is s with one transaction more of a.
Counts(s, u, a) ==
    /\ u \in Ledgers
    /\ \A b \in Addresses : u.nonce[b] = IF b = a THEN s.nonce[b] + 1 ELSE s.nonce[b]
    /\ u.balance = s.balance /\ u.code = s.code /\ u.exits = s.exits

\* What a credit, a debit and a count are, in these terms.
LEMMA Moves ==
  ASSUME NEW s \in Ledgers, NEW a \in Addresses, NEW v \in Int
  PROVE  Adds(s, Credit(s, a, v), a, v) /\ Adds(s, Debit(s, a, v), a, 0 - v)
         /\ Counts(s, Counted(s, a), a)
<1>1. Adds(s, Credit(s, a, v), a, v)
  BY CreditIs DEF Adds
<1>2. Adds(s, Debit(s, a, v), a, 0 - v)
  <2>1. ASSUME NEW b \in Addresses
        PROVE  Debit(s, a, v).balance[b] = IF b = a THEN s.balance[b] + (0 - v) ELSE s.balance[b]
    <3>1. s.balance[b] \in Int /\ s.balance[b] + (0 - v) = s.balance[b] - v
      BY LedgerTypes
    <3>. QED
      BY <3>1, DebitIs
  <2>. QED
    BY <2>1, DebitIs DEF Adds
<1>3. Counts(s, Counted(s, a), a)
  BY CountedIs DEF Counts
<1>. QED
  BY <1>1, <1>2, <1>3

\* The VM charges g, moves v, gives back g - b and pays b to the coinbase.
ChargedInSteps(s, from, to, base, v, g, b) ==
    Credit(Credit(Credit(Debit(Counted(Debit(s, from, g), from), from, v), to, v), from, g - b), base, b)

\* The prover charges both at once.
ChargedAtOnce(s, from, to, base, v, b) ==
    Credit(Credit(Counted(Debit(s, from, v + b), from), to, v), base, b)

\* Both come to the same, whoever the three accounts are.
LEMMA SameCharge ==
  ASSUME NEW s \in Ledgers, NEW from \in Addresses, NEW to \in Addresses,
         NEW base \in Addresses, NEW v \in Int, NEW g \in Int, NEW b \in Int
  PROVE  ChargedInSteps(s, from, to, base, v, g, b) = ChargedAtOnce(s, from, to, base, v, b)
<1>. DEFINE x1 == Debit(s, from, g)
            c == Counted(x1, from)
            x2 == Debit(c, from, v)
            x3 == Credit(x2, to, v)
            r == g - b
            w == v + b
            x4 == Credit(x3, from, r)
            x5 == Credit(x4, base, b)
            y1 == Debit(s, from, w)
            y2 == Counted(y1, from)
            y3 == Credit(y2, to, v)
            y4 == Credit(y3, base, b)
<1>0. ChargedInSteps(s, from, to, base, v, g, b) = x5 /\ ChargedAtOnce(s, from, to, base, v, b) = y4
  BY DEF ChargedInSteps, ChargedAtOnce
<1>a. r \in Int /\ w \in Int /\ r = g - b /\ w = v + b
  OBVIOUS
<1>. HIDE DEF r, w
<1>1. Adds(s, x1, from, 0 - g) /\ Adds(s, y1, from, 0 - w)
  BY <1>a, Moves
<1>. HIDE DEF x1, y1
<1>2. x1 \in Ledgers /\ y1 \in Ledgers
  BY <1>1 DEF Adds
<1>3. Counts(x1, c, from) /\ Counts(y1, y2, from)
  BY <1>2, Moves
<1>. HIDE DEF c, y2
<1>4. c \in Ledgers /\ y2 \in Ledgers
  BY <1>3 DEF Counts
<1>5. Adds(c, x2, from, 0 - v) /\ Adds(y2, y3, to, v)
  BY <1>4, Moves
<1>. HIDE DEF x2, y3
<1>6. x2 \in Ledgers /\ y3 \in Ledgers
  BY <1>5 DEF Adds
<1>7. Adds(x2, x3, to, v) /\ Adds(y3, y4, base, b)
  BY <1>6, Moves
<1>. HIDE DEF x3, y4
<1>8. x3 \in Ledgers /\ y4 \in Ledgers
  BY <1>7 DEF Adds
<1>9. Adds(x3, x4, from, r)
  BY <1>8, <1>a, Moves
<1>. HIDE DEF x4
<1>10. x4 \in Ledgers
  BY <1>9 DEF Adds
<1>11. Adds(x4, x5, base, b)
  BY <1>10, Moves
<1>. HIDE DEF x5
<1>12. x5 \in Ledgers
  BY <1>11 DEF Adds
<1>13. ASSUME NEW a \in Addresses
       PROVE  x5.balance[a] = y4.balance[a] /\ x5.nonce[a] = y4.nonce[a] /\ x5.code[a] = y4.code[a]
  <2>1. s.balance[a] \in Int
    BY LedgerTypes
  <2>2. x5.balance[a] = y4.balance[a]
    <3>1. /\ x1.balance[a] = IF a = from THEN s.balance[a] + (0 - g) ELSE s.balance[a]
          /\ y1.balance[a] = IF a = from THEN s.balance[a] + (0 - w) ELSE s.balance[a]
          /\ c.balance[a] = x1.balance[a] /\ y2.balance[a] = y1.balance[a]
      BY <1>1, <1>3 DEF Adds, Counts
    <3>2. /\ x2.balance[a] = IF a = from THEN c.balance[a] + (0 - v) ELSE c.balance[a]
          /\ y3.balance[a] = IF a = to THEN y2.balance[a] + v ELSE y2.balance[a]
      BY <1>5 DEF Adds
    <3>3. /\ x3.balance[a] = IF a = to THEN x2.balance[a] + v ELSE x2.balance[a]
          /\ y4.balance[a] = IF a = base THEN y3.balance[a] + b ELSE y3.balance[a]
      BY <1>7 DEF Adds
    <3>4. /\ x4.balance[a] = IF a = from THEN x3.balance[a] + r ELSE x3.balance[a]
          /\ x5.balance[a] = IF a = base THEN x4.balance[a] + b ELSE x4.balance[a]
      BY <1>9, <1>11 DEF Adds
    <3>. QED
      BY <1>a, <2>1, <3>1, <3>2, <3>3, <3>4
  <2>3. x5.nonce[a] = y4.nonce[a]
    BY <1>1, <1>3, <1>5, <1>7, <1>9, <1>11 DEF Adds, Counts
  <2>4. x5.code[a] = y4.code[a]
    BY <1>1, <1>3, <1>5, <1>7, <1>9, <1>11 DEF Adds, Counts
  <2>. QED
    BY <2>2, <2>3, <2>4
<1>14. x5.exits = y4.exits
  BY <1>1, <1>3, <1>5, <1>7, <1>9, <1>11 DEF Adds, Counts
<1>15. x5 = y4
  BY <1>8, <1>12, <1>13, <1>14, LedgersEqual
<1>. QED
  BY <1>0, <1>15

\* A signed transfer without data: what is charged, moved, given back and
\* paid to the coinbase comes to the same, whoever the three are.
LEMMA SimpleSignedIsRun ==
  ASSUME NEW s \in States, NEW t \in Transactions, ~ t.incoming, CanRun(s, t),
         t.to # Relay, t.to # Zero, ~ s.code[t.to], t.data = 0
  PROVE  /\ runTx(s, t) = SimpleSignedRoot(s, t.from, t)
         /\ s.balance[t.from] >= t.value + BaseGas * t.price
<1>. DEFINE v == t.value
            G == t.gas * t.price
            B == BaseGas * t.price
            R == (t.gas - BaseGas) * t.price
            w == v + B
            x1 == Debit(s, t.from, G)
            c == Counted(x1, t.from)
            x2 == Debit(c, t.from, v)
            x3 == Credit(x2, t.to, v)
            x4 == Credit(x3, t.from, R)
            x5 == Credit(x4, Coinbase, B)
            y1 == Debit(s, t.from, w)
            y2 == Counted(y1, t.from)
            y3 == Credit(y2, t.to, v)
            y4 == Credit(y3, Coinbase, B)
<1>1. /\ t.from \in Addresses /\ t.to \in Addresses /\ Coinbase \in Addresses
      /\ v \in Nat /\ t.gas \in Nat /\ t.price \in Nat /\ BaseGas \in Nat /\ DataGas \in Nat
      /\ s \in Ledgers
  BY TxTypes, StateTypes
<1>2. getBaseFee(t) = BaseGas /\ t.gas >= BaseGas
  <2>1. getBaseFee(t) = BaseGas + DataGas * 0 /\ t.gas >= getBaseFee(t)
    BY DEF getBaseFee, CanRun
  <2>. QED
    BY <1>1, <2>1
<1>3. G \in Nat /\ B \in Nat /\ R = G - B /\ B <= G
  BY <1>1, <1>2, Products
<1>4. s.balance[t.from] >= G + v /\ s.balance[t.from] \in Int
  BY <1>1, LedgerTypes DEF CanRun, getUpfrontCost
<1>5. s.balance[t.from] >= v + B
  BY <1>1, <1>3, <1>4
<1>6. runTx(s, t) = x5
  <2>1. runTx(s, t) = LET sent == executeMessage(c, t, t.gas - BaseGas)
                          used == sent.used + BaseGas
                          spent == used - Lesser(sent.refund, used \div 2)
                      IN  Credit(Credit(sent.state, t.from, (t.gas - spent) * t.price),
                                 Coinbase, spent * t.price)
    BY <1>2, SignedRuns
  <2>2. c.code = s.code
    BY ChargedIs
  <2>3. executeMessage(c, t, t.gas - BaseGas) = [state |-> x3, used |-> 0, refund |-> 0]
    <3>. HIDE DEF c
    <3>. QED
      BY <2>2 DEF executeMessage, executeCall, Moved
  <2>. DEFINE spent == BaseGas - Lesser(0, BaseGas \div 2)
  <2>4. spent = BaseGas
    <3>1. BaseGas \in Nat /\ 0 \in Nat
      BY <1>1
    <3>. QED
      BY <3>1, Refunded
  <2>5. 0 + BaseGas = BaseGas
    BY <1>1
  <2>6. runTx(s, t) = Credit(Credit(x3, t.from, (t.gas - spent) * t.price), Coinbase, spent * t.price)
    <3>. HIDE DEF x3, c
    <3>. QED
      BY <2>1, <2>3, <2>5
  <2>. HIDE DEF spent
  <2>. QED
    BY <2>4, <2>6
<1>7. SimpleSignedRoot(s, t.from, t) = y4
  BY DEF SimpleSignedRoot, subtractBalanceAndIncrementNonce, increaseBalance, Counted
<1>8. x5 = y4
  <2>. HIDE DEF v, G, B, R
  <2>1. G \in Int /\ B \in Int /\ R \in Int /\ v \in Int /\ w \in Int /\ w = v + B
    BY <1>1, <1>3
  <2>. QED
    <3>1. /\ s \in Ledgers /\ t.from \in Addresses /\ t.to \in Addresses
          /\ Coinbase \in Addresses /\ R = G - B
      BY <1>1, <1>3
    <3>2. ChargedInSteps(s, t.from, t.to, Coinbase, v, G, B)
          = ChargedAtOnce(s, t.from, t.to, Coinbase, v, B)
      BY ONLY <2>1, <3>1, SameCharge
    <3>3. x5 = ChargedInSteps(s, t.from, t.to, Coinbase, v, G, B)
      BY ONLY <3>1 DEF ChargedInSteps, x5, x4, x3, x2, c, x1
    <3>4. y4 = ChargedAtOnce(s, t.from, t.to, Coinbase, v, B)
      BY ONLY TRUE DEF ChargedAtOnce, y4, y3, y2, y1, w
    <3>. QED
      BY ONLY <3>2, <3>3, <3>4
<1>. QED
  BY <1>5, <1>6, <1>7, <1>8 DEF v, B

-----------------------------------------------------------------------------
(* Types. *)

Kinds == BlockProofs \union LeafProofs \union Outcomes

TypeOK ==
    /\ block \in Blocks
    /\ queued \in 0..Len(Queue)
    /\ pc \in {"header", "decode", "execute", "exits", "done"}
    /\ index \in Nat \ {0}
    /\ state \in States
    /\ answer \in [kind : Kinds, index : Nat]
    /\ verdict \in {"none", "accepted", "rejected"}

-----------------------------------------------------------------------------
(* The inductive invariant. *)

\* What the checks of the header leave; the queue only grows.
HeaderIsGood ==
    /\ header.incomingIndex = parent.incomingIndex + parent.incomingCount
    /\ header.incomingIndex + header.incomingCount <= queued
    /\ header.timestamp > parent.timestamp
    /\ header.number = parent.number + 1
    /\ leaves # <<>>
    /\ header.stateRoot = leaves[Len(leaves)].root

LeavesAreGood == \A i \in Indices : LeafError(i) = "none"

\* The transactions before the next one run to the roots that they claim,
\* and the auditor has the state before the next one.
ExecutionInv ==
    /\ pc \in {"decode", "execute", "exits"} => HeaderIsGood
    /\ pc \in {"execute", "exits"} => LeavesAreGood
    /\ pc \in {"header", "decode"} => index = 1 /\ state = parent.stateRoot
    /\ pc = "execute" =>
         /\ index <= Len(leaves) + 1
         /\ \A i \in 1..index - 1 : RunsTo(i)
         /\ state = provePreviousStateRoot(index)
         /\ \A a \in Creators : state.nonce[a] = 0
    /\ pc = "exits" =>
         \/ RelayTransfer
         \/ header.stateRoot \in States /\ \A i \in Indices : RunsTo(i)

\* What RejectedOnlyIf excepts.
Excepted(kind, i) ==
    \/ /\ kind = "INCOMING_TRANSACTIONS_OUT_OF_RANGE"
       /\ header.incomingIndex + header.incomingCount <= queued
    \/ kind = "SIGNED_TX_ENCODING" /\ leaves[i].form \in {"lax", "foreignV"}
    \/ kind = "TX_SIGNATURE" /\ leaves[i].form = "highS"
    \/ kind = "SIMPLE_SIGNED_TX" /\ Mischarged(i)
    \/ /\ kind = "BLOCK_EXIT_ROOT"
       /\ RelayTransfer \/ header.exitsRoot = header.stateRoot.exits

\* What the auditor has found, the peg accepts at any later time.
FoundInv ==
    /\ pc = "done" /\ answer.kind \notin Outcomes =>
         Accepts(answer.kind, answer.index) \/ Excepted(answer.kind, answer.index)
    /\ pc # "done" => answer = NoAnswer /\ verdict = "none"
    /\ verdict = "rejected" => pc = "done" /\ Excepted(answer.kind, answer.index)

\* All of Honest but that the relay has queued the transactions.
HonestButEarly ==
    /\ header.incomingIndex = parent.incomingIndex + parent.incomingCount
    /\ header.timestamp > parent.timestamp
    /\ header.number = parent.number + 1
    /\ leaves # <<>>
    /\ \A i \in Indices : RunsTo(i)
    /\ header.stateRoot = leaves[Len(leaves)].root

PassedInv ==
    /\ answer.kind = "ok" => Honest \/ Escapes
    /\ pc = "done" /\ HonestButEarly /\ header.exitsRoot = <<>> =>
         answer.kind \in {"ok", "INCOMING_TRANSACTIONS_OUT_OF_RANGE"}

\* A challenge is of the first transaction that does not run, and of one
\* that is not simple.
ChallengeInv ==
    answer.kind = "challenge" =>
        LET i == answer.index
            s == provePreviousStateRoot(i)
            to == IF i <= header.incomingCount THEN Queue[Position(i)].to
                  ELSE leaves[i].tx.to
        IN  /\ ~ RunsTo(i)
            /\ \A j \in 1..i - 1 : RunsTo(j)
            /\ to # Zero /\ s.code[to]

Inv ==
    /\ TypeOK
    /\ ExecutionInv
    /\ FoundInv
    /\ PassedInv
    /\ ChallengeInv

-----------------------------------------------------------------------------
(* Blocks and the queue. *)

\* What is in a block to audit.
LEMMA BlockTypes ==
  ASSUME TypeOK
  PROVE  /\ header \in Headers /\ parent \in Headers
         /\ leaves \in Seq(Leaves) /\ Len(leaves) \in Nat /\ Indices \subseteq Nat \ {0}
         /\ parent.stateRoot \in States /\ \A a \in Creators : parent.stateRoot.nonce[a] = 0
         /\ header.incomingIndex \in Nat /\ header.incomingCount \in Nat
         /\ header.stateRoot \in Roots
<1>1. block \in Blocks /\ block \in BlockInputs
  BY BlocksAssumption DEF TypeOK
<1>2. header \in Headers /\ parent \in Headers /\ leaves \in Seq(Leaves)
  BY <1>1 DEF BlockInputs, header, parent, leaves
<1>3. parent.stateRoot # Wrong /\ \A a \in Creators : parent.stateRoot.nonce[a] = 0
  BY <1>1, ParentAssumption DEF parent
<1>4. Len(leaves) \in Nat /\ Indices \subseteq Nat \ {0}
  BY <1>2 DEF Indices
<1>. QED
  BY <1>2, <1>3, <1>4 DEF Headers, Roots

\* What is in a leaf; the signer of a transaction has a key.
LEMMA LeafTypes ==
  ASSUME TypeOK, NEW i \in Indices
  PROVE  /\ leaves[i] \in Leaves /\ leaves[i].root \in Roots
         /\ leaves[i].form \in Forms /\ leaves[i].tx \in Transactions
         /\ leaves[i].form \notin {"root", "malformed"} =>
              ~ leaves[i].tx.incoming /\ leaves[i].tx.from \notin Creators \union {Zero}
<1>1. leaves[i] \in Leaves
  BY BlockTypes DEF Indices
<1>2. leaves[i].form \notin {"root", "malformed"} =>
        ~ leaves[i].tx.incoming /\ leaves[i].tx.from \notin Creators \union {Zero}
  BY SignerAssumption DEF TypeOK, leaves, Indices
<1>. QED
  BY <1>1, <1>2 DEF Leaves

\* What the relay queues are incoming transactions; those to the zero
\* address are from creators.
LEMMA QueueTypes ==
  ASSUME NEW n \in 1..Len(Queue)
  PROVE  /\ Queue[n] \in Transactions /\ Queue[n].incoming
         /\ Queue[n].to = Zero => Queue[n].from \in Creators
BY QueueAssumption DEF Creators

\* The transactions of a block whose leaves are of their kind.
LEMMA TransactionTypes ==
  ASSUME TypeOK, header.incomingIndex + header.incomingCount <= queued,
         NEW i \in Indices, i > header.incomingCount => leaves[i].form = "signed"
  PROVE  LET t == Transaction(i)
         IN  /\ t \in Transactions
             /\ t.incoming <=> i <= header.incomingCount
             /\ ~ t.incoming => t = leaves[i].tx /\ t.from \notin Creators \union {Zero}
             /\ t.incoming => t = Queue[Position(i)] /\ Position(i) <= queued
             /\ t.incoming /\ t.to = Zero => t.from \in Creators
<1>1. i \in Nat \ {0} /\ header.incomingIndex \in Nat /\ header.incomingCount \in Nat
  BY BlockTypes
<1>2. CASE i <= header.incomingCount
  <2>1. queued \in Nat /\ Len(Queue) \in Nat /\ queued <= Len(Queue)
    BY QueueAssumption DEF TypeOK
  <2>2. Position(i) \in 1..Len(Queue) /\ Position(i) <= queued
    BY <1>1, <1>2, <2>1 DEF Position
  <2>. QED
    BY <1>2, <2>2, QueueTypes DEF Transaction
<1>3. CASE i > header.incomingCount
  <2>1. leaves[i].form = "signed" /\ ~ (i <= header.incomingCount)
    BY <1>1, <1>3
  <2>. QED
    BY <2>1, LeafTypes DEF Transaction
<1>. QED
  BY <1>1, <1>2, <1>3

\* A transaction that runs leaves the nonces of creators.
LEMMA CreatorsKeep ==
  ASSUME TypeOK, header.incomingIndex + header.incomingCount <= queued,
         NEW i \in Indices, i > header.incomingCount => leaves[i].form = "signed",
         NEW s \in States, CanRun(s, Transaction(i)),
         \A a \in Creators : s.nonce[a] = 0
  PROVE  /\ runTx(s, Transaction(i)) \in States
         /\ \A a \in Creators : runTx(s, Transaction(i)).nonce[a] = 0
<1>1. Creators \subseteq Addresses
  BY QueueTypes, TxTypes DEF Creators
<1>2. /\ Transaction(i) \in Transactions
      /\ \A a \in Creators : Transaction(i).incoming \/ a # Transaction(i).from
  BY TransactionTypes
<1>. HIDE DEF Transaction
<1>. QED
  BY <1>1, <1>2, RunIs

\* In a block whose transactions run, creators never have a nonce: at the
\* first transaction before which one has, the parent or the transaction
\* before it would have given it.
LEMMA CreatorsHaveNoNonce ==
  ASSUME TypeOK, header.incomingIndex + header.incomingCount <= queued,
         \A i \in Indices : RunsTo(i),
         NEW i \in Indices
  PROVE  /\ provePreviousStateRoot(i) \in States
         /\ \A a \in Creators : provePreviousStateRoot(i).nonce[a] = 0
<1>. DEFINE Bad == {j \in Indices : ~ \A a \in Creators : provePreviousStateRoot(j).nonce[a] = 0}
<1>1. ASSUME NEW j \in Indices
      PROVE  provePreviousStateRoot(j) \in States
  <2>1. provePreviousStateRoot(j) # Wrong
    BY DEF RunsTo, provePreviousStateRoot
  <2>2. CASE j = 1
    BY <2>2, BlockTypes DEF provePreviousStateRoot
  <2>3. CASE j # 1
    <3>1. j - 1 \in Indices
      BY <2>3, BlockTypes DEF Indices
    <3>2. leaves[j - 1].root \in Roots
      BY <3>1, LeafTypes
    <3>. QED
      BY <2>1, <2>3, <3>2 DEF Roots, provePreviousStateRoot
  <2>. QED
    BY <2>2, <2>3
<1>2. Bad = {}
  <2>. SUFFICES ASSUME Bad # {} PROVE FALSE
    OBVIOUS
  <2>1. Bad \in SUBSET Nat
    BY BlockTypes
  <2>2. PICK j \in Bad : \A k \in Bad : j <= k
    BY <2>1, Least
  <2>3. j \in Indices /\ j \in Nat /\ j # 1
    BY BlockTypes DEF provePreviousStateRoot
  <2>4. j - 1 \in Indices /\ j - 1 \notin Bad
    <3>1. j - 1 \in Indices
      BY <2>3, BlockTypes DEF Indices
    <3>2. ~ (j <= j - 1)
      BY <2>3
    <3>. QED
      BY <2>2, <3>1, <3>2
  <2>5. \A a \in Creators : provePreviousStateRoot(j - 1).nonce[a] = 0
    BY <2>4
  <2>6. /\ CanRun(provePreviousStateRoot(j - 1), Transaction(j - 1))
        /\ leaves[j - 1].root = runTx(provePreviousStateRoot(j - 1), Transaction(j - 1))
        /\ j - 1 > header.incomingCount => leaves[j - 1].form = "signed"
    <3>1. RunsTo(j - 1) /\ j - 1 \in Nat /\ header.incomingCount \in Nat
      BY <2>4, BlockTypes
    <3>. QED
      BY <3>1 DEF RunsTo, provePreviousStateRoot
  <2>7. \A a \in Creators : leaves[j - 1].root.nonce[a] = 0
    BY <1>1, <2>4, <2>5, <2>6, CreatorsKeep
  <2>8. provePreviousStateRoot(j) = leaves[j - 1].root
    BY <2>3 DEF provePreviousStateRoot
  <2>. QED
    BY <2>7, <2>8
<1>. QED
  BY <1>1, <1>2

-----------------------------------------------------------------------------
(* Honest blocks. *)

\* A leaf that runs is a transaction of its kind on the state before it.
LEMMA RunningLeaf ==
  ASSUME TypeOK, NEW i \in Indices, RunsTo(i)
  PROVE  /\ leaves[i].form = IF i <= header.incomingCount THEN "root" ELSE "signed"
         /\ i > header.incomingCount => leaves[i].form = "signed" /\ leaves[i].tx.to # Zero
         /\ CanRun(provePreviousStateRoot(i), Transaction(i))
         /\ leaves[i].root = runTx(provePreviousStateRoot(i), Transaction(i))
<1>1. i \in Nat /\ header.incomingCount \in Nat
  BY BlockTypes
<1>. QED
  BY <1>1 DEF RunsTo, provePreviousStateRoot

\* What is asked of a proof of a simple transaction gives the root that the
\* VM gives, unless the transaction is mischarged.
LEMMA SimpleIncomingHolds ==
  ASSUME TypeOK, header.incomingIndex + header.incomingCount <= queued,
         NEW i \in Indices, i <= header.incomingCount,
         NEW s \in States, \A a \in Creators : s.nonce[a] = 0,
         Transaction(i).to = Zero \/ ~ s.code[Transaction(i).to],
         Transaction(i).to # Relay
  PROVE  /\ CanRun(s, Transaction(i))
         /\ runTx(s, Transaction(i)) = SimpleIncomingRoot(s, Transaction(i))
<1>1. i \in Nat /\ header.incomingCount \in Nat /\ ~ (i > header.incomingCount)
  BY BlockTypes
<1>2. /\ Transaction(i) \in Transactions /\ Transaction(i).incoming
      /\ Transaction(i).to = Zero => Transaction(i).from \in Creators
  BY <1>1, TransactionTypes
<1>. HIDE DEF Transaction
<1>. QED
  BY <1>2, SimpleIncomingIsRun

\* The same of a signed transaction, whose signer can pay what the prover
\* charges.
LEMMA SimpleSignedHolds ==
  ASSUME TypeOK, header.incomingIndex + header.incomingCount <= queued,
         NEW i \in Indices, i > header.incomingCount, leaves[i].form = "signed",
         NEW s \in States, CanRun(s, leaves[i].tx),
         leaves[i].tx.to # Zero, ~ s.code[leaves[i].tx.to],
         ~ Mischarged(i)
  PROVE  /\ runTx(s, leaves[i].tx) = SimpleSignedRoot(s, leaves[i].tx.from, leaves[i].tx)
         /\ s.balance[leaves[i].tx.from] >= leaves[i].tx.value + BaseGas * leaves[i].tx.price
<1>1. i \in Nat /\ header.incomingCount \in Nat /\ ~ (i <= header.incomingCount)
  BY BlockTypes
<1>2. Transaction(i) \in Transactions /\ ~ Transaction(i).incoming /\ Transaction(i) = leaves[i].tx
  BY <1>1, TransactionTypes
<1>3. Transaction(i).to # Relay /\ ~ (Transaction(i).data > 0) /\ Transaction(i).data \in Nat
  BY <1>2, TxTypes DEF Mischarged
<1>4. Transaction(i).data = 0
  BY <1>3
<1>. HIDE DEF Transaction
<1>. QED
  BY <1>2, <1>3, <1>4, SimpleSignedIsRun

\* Whatever proof is brought against an honest block, and whenever: only a
\* simple one of a mischarged transaction is accepted.
LEMMA HonestIsNotConvicted ==
  ASSUME TypeOK, Honest,
         NEW kind \in BlockProofs \union LeafProofs, NEW i \in Indices \union {0},
         Accepts(kind, i)
  PROVE  kind \in {"SIMPLE_INCOMING_TX", "SIMPLE_SIGNED_TX"} /\ Mischarged(i)
<1>1. /\ header.incomingIndex = parent.incomingIndex + parent.incomingCount
      /\ header.incomingIndex + header.incomingCount <= queued
      /\ header.timestamp > parent.timestamp
      /\ header.number = parent.number + 1
      /\ \A j \in Indices : RunsTo(j)
      /\ header.stateRoot = leaves[Len(leaves)].root
      /\ header.exitsRoot = header.stateRoot.exits
  BY DEF Honest
<1>2. /\ header.incomingIndex \in Nat /\ header.incomingCount \in Nat /\ queued \in Nat
      /\ header.timestamp \in Nat /\ parent.timestamp \in Nat
  BY BlockTypes DEF TypeOK, Headers
<1>3. /\ ~ proveIncomingTransactionIndexError
      /\ ~ proveIncomingTransactionsOutOfRangeError
      /\ ~ proveTimestampError
      /\ ~ proveBlockNumberError
      /\ ~ proveStateRootError(i)
      /\ ~ proveExitsRootError
  <2>1. ~ proveIncomingTransactionsOutOfRangeError
    BY <1>1, <1>2 DEF proveIncomingTransactionsOutOfRangeError
  <2>2. ~ proveTimestampError
    BY <1>1, <1>2 DEF proveTimestampError
  <2>. QED
    BY <1>1, <2>1, <2>2 DEF proveIncomingTransactionIndexError, proveBlockNumberError,
       proveStateRootError, proveExitsRootError
<1>4. CASE i \notin Indices
  <2>1. /\ ~ proveIncomingTransactionEncodingError(i)
        /\ ~ validateSignedTransaction(i) /\ ~ validateIncomingTransaction(i)
    BY <1>4 DEF proveIncomingTransactionEncodingError, validateSignedTransaction,
       validateIncomingTransaction
  <2>. QED
    BY <1>3, <2>1 DEF Accepts, proveSignedTransactionEncodingError, ProvableSigned,
       proveTransactionSignatureError, proveInvalidCreateTransaction,
       proveInsufficientGasError, proveInvalidNonceError, proveInsufficientBalanceError,
       proveAccountInState, proveSimpleIncomingTransactionExecutionError,
       proveSimpleSignedTransactionExecutionError
<1>5. CASE i \in Indices
  <2>. DEFINE s == provePreviousStateRoot(i)
              t == leaves[i].tx
  <2>1. /\ leaves[i].form = IF i <= header.incomingCount THEN "root" ELSE "signed"
        /\ i > header.incomingCount => leaves[i].form = "signed" /\ t.to # Zero
        /\ CanRun(s, Transaction(i)) /\ leaves[i].root = runTx(s, Transaction(i))
    BY <1>1, <1>5, RunningLeaf
  <2>2. s \in States /\ \A a \in Creators : s.nonce[a] = 0
    BY <1>1, <1>5, CreatorsHaveNoNonce
  <2>3. i \in Nat /\ (i <= header.incomingCount => ~ (i > header.incomingCount))
    BY <1>2, <1>5, BlockTypes
  <2>4. CASE i <= header.incomingCount
    <3>1. ~ proveIncomingTransactionEncodingError(i) /\ ~ validateSignedTransaction(i)
      BY <2>1, <2>3, <2>4 DEF proveIncomingTransactionEncodingError, validateSignedTransaction
    <3>2. Transaction(i) = Queue[Position(i)]
      BY <2>4 DEF Transaction
    <3>3. proveSimpleIncomingTransactionExecutionError(i) => Mischarged(i)
      <4>. SUFFICES ASSUME proveSimpleIncomingTransactionExecutionError(i), Transaction(i).to # Relay
                    PROVE  FALSE
        BY <1>5 DEF Mischarged
      <4>1. /\ Transaction(i).to = Zero \/ ~ s.code[Transaction(i).to]
            /\ leaves[i].root # SimpleIncomingRoot(s, Transaction(i))
        BY <3>2 DEF proveSimpleIncomingTransactionExecutionError
      <4>. HIDE DEF s
      <4>2. runTx(s, Transaction(i)) = SimpleIncomingRoot(s, Transaction(i))
        BY <1>1, <1>5, <2>2, <2>4, <4>1, SimpleIncomingHolds
      <4>. QED
        BY <2>1, <4>1, <4>2
    <3>. QED
      BY <1>3, <3>1, <3>3 DEF Accepts, proveSignedTransactionEncodingError, ProvableSigned,
         proveTransactionSignatureError, proveInvalidCreateTransaction,
         proveInsufficientGasError, proveInvalidNonceError, proveInsufficientBalanceError,
         proveAccountInState, proveSimpleSignedTransactionExecutionError
  <2>5. CASE ~ (i <= header.incomingCount)
    <3>1. i > header.incomingCount
      BY <1>2, <2>3, <2>5
    <3>2. /\ Transaction(i) = t /\ t \in Transactions /\ ~ t.incoming
          /\ t.from \notin Creators \union {Zero} /\ leaves[i].form = "signed"
      BY <1>1, <1>5, <2>1, <2>5, <3>1, TransactionTypes
    <3>3. /\ decodeTransaction(i) /\ getSenderAddress(i) = t.from
      BY <3>2 DEF decodeTransaction, getSenderAddress
    <3>4. /\ t.gas >= getBaseFee(t) /\ s.balance[t.from] >= getUpfrontCost(t)
          /\ s.nonce[t.from] = t.nonce
      BY <2>1, <3>2 DEF CanRun
    <3>5. t.gas \in Nat /\ getBaseFee(t) \in Nat /\ getUpfrontCost(t) \in Nat /\ s.balance[t.from] \in Int
      <4>1. /\ t.gas \in Nat /\ t.price \in Nat /\ t.value \in Nat /\ t.data \in Nat
            /\ BaseGas \in Nat /\ DataGas \in Nat /\ t.from \in Addresses
        BY <3>2, TxTypes
      <4>2. DataGas * t.data \in Nat /\ t.gas * t.price \in Nat
        BY <4>1, Products
      <4>3. s.balance[t.from] \in Int
        BY <2>2, <4>1, StateTypes, LedgerTypes
      <4>. QED
        BY <3>2, <4>1, <4>2, <4>3 DEF getBaseFee, getUpfrontCost
    <3>6. /\ ~ proveIncomingTransactionEncodingError(i)
          /\ ~ validateIncomingTransaction(i)
          /\ ~ proveSignedTransactionEncodingError(i)
          /\ ~ proveTransactionSignatureError(i)
          /\ ~ proveInvalidCreateTransaction(i)
          /\ ~ proveInvalidNonceError(i)
      BY <2>1, <2>5, <3>1, <3>2, <3>3, <3>4 DEF proveIncomingTransactionEncodingError,
         validateIncomingTransaction, proveSignedTransactionEncodingError,
         proveTransactionSignatureError, proveInvalidCreateTransaction, proveInvalidNonceError
    <3>7. ~ proveInsufficientGasError(i) /\ ~ proveInsufficientBalanceError(i)
      <4>1. ~ (t.gas < getBaseFee(t)) /\ ~ (getUpfrontCost(t) > s.balance[t.from])
        BY <3>4, <3>5
      <4>. QED
        BY <3>3, <4>1 DEF proveInsufficientGasError, proveInsufficientBalanceError
    <3>8. proveSimpleSignedTransactionExecutionError(i) => Mischarged(i)
      <4>. SUFFICES ASSUME proveSimpleSignedTransactionExecutionError(i), ~ Mischarged(i)
                    PROVE  FALSE
        OBVIOUS
      <4>1. ~ s.code[t.to] /\ leaves[i].root # SimpleSignedRoot(s, t.from, t)
        BY <3>3 DEF proveSimpleSignedTransactionExecutionError
      <4>2. CanRun(s, t) /\ t.to # Zero
        BY <2>1, <3>1, <3>2
      <4>. HIDE DEF s
      <4>3. runTx(s, t) = SimpleSignedRoot(s, t.from, t)
        BY <1>1, <1>5, <2>2, <3>1, <3>2, <4>1, <4>2, SimpleSignedHolds
      <4>. QED
        BY <2>1, <3>2, <4>1, <4>3
    <3>. QED
      BY <1>3, <3>6, <3>7, <3>8 DEF Accepts, proveSimpleIncomingTransactionExecutionError
  <2>. QED
    BY <2>4, <2>5
<1>. QED
  BY <1>4, <1>5

-----------------------------------------------------------------------------
(* What stays while the queue grows. *)

\* What speaks of the block alone.
LEMMA SameBlock ==
  ASSUME block' = block
  PROVE  /\ header' = header /\ parent' = parent /\ leaves' = leaves /\ Indices' = Indices
         /\ \A i : /\ Transaction(i)' = Transaction(i)
                  /\ provePreviousStateRoot(i)' = provePreviousStateRoot(i)
                  /\ Position(i)' = Position(i)
                  /\ LeafError(i)' = LeafError(i)
                  /\ RunsTo(i)' = RunsTo(i)
                  /\ Mischarged(i)' = Mischarged(i)
         /\ RelayTransfer' = RelayTransfer
         /\ Escapes' = Escapes
         /\ LeavesAreGood' = LeavesAreGood
         /\ HonestButEarly' = HonestButEarly
<1>1. header' = header /\ parent' = parent /\ leaves' = leaves /\ Indices' = Indices
  BY DEF header, parent, leaves, Indices
<1>2. \A i : /\ Position(i)' = Position(i)
            /\ provePreviousStateRoot(i)' = provePreviousStateRoot(i)
  BY <1>1 DEF Position, provePreviousStateRoot
<1>3. \A i : Transaction(i)' = Transaction(i)
  BY <1>1, <1>2 DEF Transaction
<1>4. \A i : LeafError(i)' = LeafError(i)
  BY <1>1 DEF LeafError
<1>5. \A i : RunsTo(i)' = RunsTo(i)
  BY <1>1, <1>3 DEF RunsTo
<1>6. \A i : Mischarged(i)' = Mischarged(i)
  BY <1>1, <1>3 DEF Mischarged
<1>7. RelayTransfer' = RelayTransfer
  BY <1>1, <1>2, <1>3 DEF RelayTransfer
<1>8. Escapes' = Escapes
  BY <1>1, <1>7 DEF Escapes
<1>9. LeavesAreGood' = LeavesAreGood
  BY <1>1, <1>4 DEF LeavesAreGood
<1>10. HonestButEarly' = HonestButEarly
  BY <1>1, <1>5 DEF HonestButEarly
<1>. QED
  BY <1>1, <1>2, <1>3, <1>4, <1>5, <1>6, <1>7, <1>8, <1>9, <1>10

\* What speaks of the queue too: what was good stays good, and a proof that
\* would have been accepted is, but that of what the relay now has.
LEMMA Later ==
  ASSUME TypeOK, block' = block, queued' \in Nat, queued <= queued'
  PROVE  /\ HeaderIsGood => HeaderIsGood'
         /\ Honest => Honest'
         /\ \A kind, i : Excepted(kind, i) => Excepted(kind, i)'
         /\ \A kind : \A i \in Nat :
              Accepts(kind, i) \/ Excepted(kind, i) => Accepts(kind, i)' \/ Excepted(kind, i)'
<1>1. /\ header' = header /\ parent' = parent /\ leaves' = leaves /\ Indices' = Indices
      /\ \A i : /\ provePreviousStateRoot(i)' = provePreviousStateRoot(i)
               /\ Position(i)' = Position(i)
               /\ RunsTo(i)' = RunsTo(i)
               /\ Mischarged(i)' = Mischarged(i)
      /\ RelayTransfer' = RelayTransfer
  BY SameBlock
<1>2. /\ header.incomingIndex \in Nat /\ header.incomingCount \in Nat /\ queued \in Nat
  BY BlockTypes DEF TypeOK
<1>3. /\ header.incomingIndex + header.incomingCount <= queued =>
            header.incomingIndex + header.incomingCount <= queued'
      /\ ~ (header.incomingIndex + header.incomingCount > queued') =>
            header.incomingIndex + header.incomingCount <= queued'
  BY <1>2
<1>4. HeaderIsGood => HeaderIsGood'
  BY <1>1, <1>3 DEF HeaderIsGood
<1>5. Honest => Honest'
  BY <1>1, <1>3 DEF Honest
<1>6. \A kind, i : Excepted(kind, i) => Excepted(kind, i)'
  BY <1>1, <1>3 DEF Excepted
<1>7. /\ proveIncomingTransactionIndexError' = proveIncomingTransactionIndexError
      /\ proveTimestampError' = proveTimestampError
      /\ proveBlockNumberError' = proveBlockNumberError
      /\ proveExitsRootError' = proveExitsRootError
  BY <1>1 DEF proveIncomingTransactionIndexError, proveTimestampError, proveBlockNumberError,
     proveExitsRootError
<1>8. \A i : /\ decodeTransaction(i)' = decodeTransaction(i)
            /\ getSenderAddress(i)' = getSenderAddress(i)
            /\ validateSignedTransaction(i)' = validateSignedTransaction(i)
  BY <1>1 DEF decodeTransaction, getSenderAddress, validateSignedTransaction
<1>9. \A i : /\ ProvableSigned(i)' = ProvableSigned(i)
            /\ proveAccountInState(i)' = proveAccountInState(i)
  BY <1>1, <1>8 DEF ProvableSigned, proveAccountInState
<1>10. \A i : /\ proveStateRootError(i)' = proveStateRootError(i)
             /\ proveIncomingTransactionEncodingError(i)' = proveIncomingTransactionEncodingError(i)
             /\ proveSignedTransactionEncodingError(i)' = proveSignedTransactionEncodingError(i)
             /\ proveTransactionSignatureError(i)' = proveTransactionSignatureError(i)
  BY <1>1, <1>8, <1>9 DEF proveStateRootError, proveIncomingTransactionEncodingError,
     proveSignedTransactionEncodingError, proveTransactionSignatureError
<1>11. \A i : /\ proveInvalidCreateTransaction(i)' = proveInvalidCreateTransaction(i)
             /\ proveInsufficientGasError(i)' = proveInsufficientGasError(i)
             /\ proveInvalidNonceError(i)' = proveInvalidNonceError(i)
             /\ proveInsufficientBalanceError(i)' = proveInsufficientBalanceError(i)
  BY <1>1, <1>8, <1>9 DEF proveInvalidCreateTransaction, proveInsufficientGasError,
     proveInvalidNonceError, proveInsufficientBalanceError
<1>12. \A i : proveSimpleSignedTransactionExecutionError(i)' = proveSimpleSignedTransactionExecutionError(i)
  BY <1>1, <1>8, <1>9 DEF proveSimpleSignedTransactionExecutionError
<1>13. \A i \in Nat : validateIncomingTransaction(i) => validateIncomingTransaction(i)'
  <2>. SUFFICES ASSUME NEW i \in Nat, validateIncomingTransaction(i)
                PROVE  validateIncomingTransaction(i)'
    OBVIOUS
  <2>1. Position(i) \in Nat /\ Position(i) <= queued
    BY <1>2 DEF Position, validateIncomingTransaction
  <2>2. Position(i) <= queued'
    BY <1>2, <2>1
  <2>. QED
    BY <1>1, <2>2 DEF validateIncomingTransaction
<1>14. \A i \in Nat : proveSimpleIncomingTransactionExecutionError(i) =>
                        proveSimpleIncomingTransactionExecutionError(i)'
  BY <1>1, <1>13 DEF proveSimpleIncomingTransactionExecutionError
<1>15. ASSUME NEW kind, NEW i \in Nat, Accepts(kind, i)
       PROVE  Accepts(kind, i)' \/ Excepted(kind, i)'
  <2>1. CASE kind = "INCOMING_TRANSACTIONS_OUT_OF_RANGE"
    BY <1>1, <1>3, <2>1 DEF Accepts, Excepted, proveIncomingTransactionsOutOfRangeError
  <2>2. CASE kind # "INCOMING_TRANSACTIONS_OUT_OF_RANGE"
    BY <1>7, <1>10, <1>11, <1>12, <1>14, <1>15, <2>2 DEF Accepts
  <2>. QED
    BY <2>1, <2>2
<1>. QED
  BY <1>4, <1>5, <1>6, <1>15

-----------------------------------------------------------------------------
(* The audit. *)

\* The audit starts with no answer.
LEMMA InitInv == Init => Inv
<1>. SUFFICES ASSUME Init PROVE Inv
  OBVIOUS
<1>1. block.parent.stateRoot \in States
  <2>1. block.parent.stateRoot \in Roots /\ block.parent.stateRoot # Wrong
    BY BlocksAssumption, ParentAssumption DEF Init, BlockInputs, Headers
  <2>. QED
    BY <2>1 DEF Roots
<1>2. "none" \in Kinds /\ NoAnswer \in [kind : Kinds, index : Nat]
  BY DEF Kinds, Outcomes, NoAnswer
<1>3. TypeOK
  BY <1>1, <1>2 DEF TypeOK, Init
<1>4. answer.kind = "none" /\ "none" \in Outcomes
  BY DEF Init, NoAnswer, Outcomes
<1>. QED
  BY <1>3, <1>4 DEF Init, parent, Inv, ExecutionInv, FoundInv, PassedInv, ChallengeInv

\* A step of the audit leaves the block and the queue; what the invariant
\* says of an answer is then to be shown of the answer alone.
LEMMA AuditStep ==
  ASSUME Inv, UNCHANGED <<block, queued>>
  PROVE  /\ header' = header /\ parent' = parent /\ leaves' = leaves /\ Indices' = Indices
         /\ \A i : /\ Transaction(i)' = Transaction(i) /\ Position(i)' = Position(i)
                  /\ provePreviousStateRoot(i)' = provePreviousStateRoot(i)
                  /\ RunsTo(i)' = RunsTo(i)
         /\ RelayTransfer' = RelayTransfer /\ Escapes' = Escapes
         /\ LeavesAreGood' = LeavesAreGood /\ HonestButEarly' = HonestButEarly
         /\ HeaderIsGood => HeaderIsGood'
         /\ Honest => Honest'
         /\ \A kind, i : Excepted(kind, i) => Excepted(kind, i)'
         /\ \A kind : \A i \in Nat :
              Accepts(kind, i) \/ Excepted(kind, i) => Accepts(kind, i)' \/ Excepted(kind, i)'
<1>1. TypeOK /\ block' = block /\ queued' \in Nat /\ queued <= queued'
  BY DEF Inv, TypeOK
<1>2. /\ header' = header /\ parent' = parent /\ leaves' = leaves /\ Indices' = Indices
      /\ \A i : /\ Transaction(i)' = Transaction(i) /\ Position(i)' = Position(i)
               /\ provePreviousStateRoot(i)' = provePreviousStateRoot(i)
               /\ RunsTo(i)' = RunsTo(i)
      /\ RelayTransfer' = RelayTransfer /\ Escapes' = Escapes
      /\ LeavesAreGood' = LeavesAreGood /\ HonestButEarly' = HonestButEarly
  BY <1>1, SameBlock
<1>3. /\ HeaderIsGood => HeaderIsGood'
      /\ Honest => Honest'
      /\ \A kind, i : Excepted(kind, i) => Excepted(kind, i)'
      /\ \A kind : \A i \in Nat :
           Accepts(kind, i) \/ Excepted(kind, i) => Accepts(kind, i)' \/ Excepted(kind, i)'
  BY <1>1, Later
<1>. QED
  BY <1>2, <1>3

\* A proof is the answer, if the peg accepts it now and the block is not
\* honest.
LEMMA ProofInv ==
  ASSUME Inv, pc # "done", UNCHANGED <<block, queued, index, verdict>>, state' \in States,
         NEW kind \in BlockProofs \union LeafProofs, NEW i \in Nat, Answer(kind, i),
         Accepts(kind, i) \/ Excepted(kind, i),
         HonestButEarly /\ header.exitsRoot = <<>> => kind = "INCOMING_TRANSACTIONS_OUT_OF_RANGE"
  PROVE  Inv'
<1>1. /\ answer' = [kind |-> kind, index |-> i] /\ pc' = "done"
      /\ answer'.kind = kind /\ answer'.index = i
      /\ kind \notin Outcomes
  BY DEF Answer, BlockProofs, LeafProofs, Outcomes
<1>2. answer' \in [kind : Kinds, index : Nat]
  BY <1>1 DEF Kinds
<1>3. TypeOK'
  BY <1>1, <1>2 DEF Inv, TypeOK
<1>4. verdict' = "none"
  BY DEF Inv, FoundInv
<1>5. FoundInv'
  <2>1. Accepts(kind, i)' \/ Excepted(kind, i)'
    BY AuditStep
  <2>. QED
    BY <1>1, <1>4, <2>1 DEF FoundInv
<1>6. PassedInv' /\ ChallengeInv'
  <2>1. header' = header /\ HonestButEarly' = HonestButEarly
    BY AuditStep
  <2>. QED
    BY <1>1, <2>1 DEF PassedInv, ChallengeInv, Outcomes
<1>7. ExecutionInv'
  BY <1>1 DEF ExecutionInv
<1>. QED
  BY <1>3, <1>5, <1>6, <1>7 DEF Inv

\* The audit ends without a proof and with no challenge.
LEMMA OutcomeInv ==
  ASSUME Inv, pc # "done", UNCHANGED <<block, queued, index, verdict>>, state' \in States,
         NEW kind \in {"ok", "throws"}, NEW i \in Nat, Answer(kind, i),
         kind = "ok" => Honest \/ Escapes,
         kind = "throws" => ~ HonestButEarly
  PROVE  Inv'
<1>1. /\ answer' = [kind |-> kind, index |-> i] /\ pc' = "done"
      /\ answer'.kind = kind
      /\ kind \in Outcomes /\ kind # "challenge"
  BY DEF Answer, Outcomes
<1>2. answer' \in [kind : Kinds, index : Nat]
  BY <1>1 DEF Kinds
<1>3. TypeOK'
  BY <1>1, <1>2 DEF Inv, TypeOK
<1>4. verdict' = "none"
  BY DEF Inv, FoundInv
<1>5. FoundInv' /\ ExecutionInv' /\ ChallengeInv'
  BY <1>1, <1>4 DEF FoundInv, ExecutionInv, ChallengeInv
<1>6. PassedInv'
  <2>1. /\ HonestButEarly' = HonestButEarly /\ Escapes' = Escapes
        /\ Honest => Honest'
    BY AuditStep
  <2>. QED
    BY <1>1, <2>1 DEF PassedInv
<1>. QED
  BY <1>3, <1>5, <1>6 DEF Inv

\* The errors of the header, by their numbers.
LEMMA Errors ==
  /\ Len(HeaderErrors) = 6
  /\ \A n \in 1..6 : n = 1 \/ n = 2 \/ n = 3 \/ n = 4 \/ n = 5 \/ n = 6
  /\ HeaderErrors[1] = [kind |-> "INCOMING_TRANSACTIONS_INDEX",
                        found |-> header.incomingIndex # parent.incomingIndex + parent.incomingCount]
  /\ HeaderErrors[2] = [kind |-> "INCOMING_TRANSACTIONS_OUT_OF_RANGE",
                        found |-> header.incomingIndex + header.incomingCount > queued]
  /\ HeaderErrors[3] = [kind |-> "BLOCK_TIMESTAMP", found |-> header.timestamp <= parent.timestamp]
  /\ HeaderErrors[4] = [kind |-> "BLOCK_NUMBER", found |-> header.number # parent.number + 1]
  /\ HeaderErrors[5] = [kind |-> "throws", found |-> leaves = <<>>]
  /\ HeaderErrors[6] = [kind |-> "BLOCK_STATE_ROOT",
                        found |-> leaves # <<>> /\ header.stateRoot # leaves[Len(leaves)].root]
BY DEF HeaderErrors

\* The first error of the header is a proof, or ends the audit.
LEMMA checkHeaderInv ==
  ASSUME Inv, checkHeader
  PROVE  Inv'
<1>. USE DEF Inv
<1>. DEFINE found == {n \in 1..Len(HeaderErrors) : HeaderErrors[n].found}
<1>1. /\ pc = "header" /\ UNCHANGED <<block, queued, index, state, verdict>>
      /\ answer = NoAnswer /\ answer.kind = "none" /\ answer.kind \in Outcomes
  BY DEF checkHeader, FoundInv, NoAnswer, Outcomes
<1>2. /\ header.incomingIndex \in Nat /\ header.incomingCount \in Nat /\ queued \in Nat
      /\ header.timestamp \in Nat /\ parent.timestamp \in Nat /\ Len(leaves) \in Nat
  BY BlockTypes DEF TypeOK, Headers
<1>3. CASE found = {}
  <2>1. pc' = "decode" /\ answer' = answer
    BY <1>3 DEF checkHeader
  <2>2. \A n \in 1..6 : ~ HeaderErrors[n].found
    BY <1>3, Errors
  <2>3. HeaderIsGood
    <3>1. /\ 1 \in 1..6 /\ 2 \in 1..6 /\ 3 \in 1..6 /\ 4 \in 1..6 /\ 5 \in 1..6 /\ 6 \in 1..6
      OBVIOUS
    <3>2. /\ ~ HeaderErrors[1].found /\ ~ HeaderErrors[2].found /\ ~ HeaderErrors[3].found
          /\ ~ HeaderErrors[4].found /\ ~ HeaderErrors[5].found /\ ~ HeaderErrors[6].found
      BY <2>2, <3>1
    <3>f. /\ HeaderErrors[1].found = (header.incomingIndex # parent.incomingIndex + parent.incomingCount)
          /\ HeaderErrors[2].found = (header.incomingIndex + header.incomingCount > queued)
          /\ HeaderErrors[3].found = (header.timestamp <= parent.timestamp)
          /\ HeaderErrors[4].found = (header.number # parent.number + 1)
          /\ HeaderErrors[5].found = (leaves = <<>>)
          /\ HeaderErrors[6].found = (leaves # <<>> /\ header.stateRoot # leaves[Len(leaves)].root)
      BY ONLY Errors
    <3>3. /\ header.incomingIndex = parent.incomingIndex + parent.incomingCount
          /\ ~ (header.incomingIndex + header.incomingCount > queued)
          /\ ~ (header.timestamp <= parent.timestamp)
          /\ header.number = parent.number + 1
          /\ leaves # <<>>
          /\ header.stateRoot = leaves[Len(leaves)].root
      BY <3>2, <3>f
    <3>4. /\ header.incomingIndex + header.incomingCount <= queued
          /\ header.timestamp > parent.timestamp
      BY <1>2, <3>3
    <3>. QED
      BY <3>3, <3>4 DEF HeaderIsGood
  <2>4. HeaderIsGood'
    BY <1>1, <2>3, AuditStep
  <2>5. parent' = parent
    BY <1>1, AuditStep
  <2>. QED
    BY <1>1, <2>1, <2>4, <2>5 DEF TypeOK, ExecutionInv, FoundInv, PassedInv, ChallengeInv
<1>4. CASE found # {}
  <2>. DEFINE n == Min(found)
  <2>1. found \in SUBSET Nat /\ \A m \in found : m \in 1..6
    BY Errors
  <2>2. n \in found
    BY <1>4, <2>1, MinIsLeast
  <2>3. Answer(HeaderErrors[n].kind, Len(leaves))
    BY <1>4 DEF checkHeader
  <2>4. n \in 1..6 /\ HeaderErrors[n].found
    BY <2>1, <2>2
  <2>. HIDE DEF n, found
  <2>5. CASE n = 5
    <3>1. HeaderErrors[n].found = (leaves = <<>>) /\ HeaderErrors[n].kind = "throws"
      BY <2>5, Errors
    <3>2. leaves = <<>>
      BY <2>4, <3>1
    <3>5. ~ HonestButEarly
      BY <3>2 DEF HonestButEarly
    <3>. QED
      <4>1. /\ pc # "done" /\ state' \in States /\ "throws" \in {"ok", "throws"}
            /\ Answer("throws", Len(leaves))
        BY <1>1, <2>3, <3>1 DEF TypeOK
      <4>. QED
        BY <1>1, <1>2, <3>5, <4>1, OutcomeInv
  <2>6. ASSUME NEW kind \in BlockProofs \union LeafProofs, HeaderErrors[n].kind = kind,
               Accepts(kind, Len(leaves)),
               HonestButEarly => kind = "INCOMING_TRANSACTIONS_OUT_OF_RANGE"
        PROVE  Inv'
    <3>1. Answer(kind, Len(leaves)) /\ pc # "done" /\ state' \in States
      BY <1>1, <2>3, <2>6 DEF TypeOK
    <3>. QED
      BY <1>1, <1>2, <2>6, <3>1, ProofInv
  <2>7. CASE n = 1
    <3>1. /\ HeaderErrors[n].kind = "INCOMING_TRANSACTIONS_INDEX"
          /\ HeaderErrors[n].found = (header.incomingIndex # parent.incomingIndex + parent.incomingCount)
      BY <2>7, Errors
    <3>2. Accepts("INCOMING_TRANSACTIONS_INDEX", Len(leaves)) /\ ~ HonestButEarly
      BY <2>4, <3>1 DEF Accepts, proveIncomingTransactionIndexError, HonestButEarly
    <3>. QED
      BY <2>6, <3>1, <3>2 DEF BlockProofs
  <2>8. CASE n = 2
    <3>1. /\ HeaderErrors[n].kind = "INCOMING_TRANSACTIONS_OUT_OF_RANGE"
          /\ HeaderErrors[n].found = (header.incomingIndex + header.incomingCount > queued)
      BY <2>8, Errors
    <3>2. Accepts("INCOMING_TRANSACTIONS_OUT_OF_RANGE", Len(leaves))
      BY <2>4, <3>1 DEF Accepts, proveIncomingTransactionsOutOfRangeError
    <3>. QED
      BY <2>6, <3>1, <3>2 DEF BlockProofs
  <2>9. CASE n = 3
    <3>1. /\ HeaderErrors[n].kind = "BLOCK_TIMESTAMP"
          /\ HeaderErrors[n].found = (header.timestamp <= parent.timestamp)
      BY <2>9, Errors
    <3>2. header.timestamp <= parent.timestamp /\ ~ (header.timestamp > parent.timestamp)
      <4>1. header.timestamp <= parent.timestamp
        BY <2>4, <3>1
      <4>. QED
        BY <1>2, <4>1
    <3>3. Accepts("BLOCK_TIMESTAMP", Len(leaves)) /\ ~ HonestButEarly
      BY <3>2 DEF Accepts, proveTimestampError, HonestButEarly
    <3>. QED
      BY <2>6, <3>1, <3>3 DEF BlockProofs
  <2>10. CASE n = 4
    <3>1. /\ HeaderErrors[n].kind = "BLOCK_NUMBER"
          /\ HeaderErrors[n].found = (header.number # parent.number + 1)
      BY <2>10, Errors
    <3>2. Accepts("BLOCK_NUMBER", Len(leaves)) /\ ~ HonestButEarly
      BY <2>4, <3>1 DEF Accepts, proveBlockNumberError, HonestButEarly
    <3>. QED
      BY <2>6, <3>1, <3>2 DEF BlockProofs
  <2>11. CASE n = 6
    <3>1. /\ HeaderErrors[n].kind = "BLOCK_STATE_ROOT"
          /\ HeaderErrors[n].found = (leaves # <<>> /\ header.stateRoot # leaves[Len(leaves)].root)
      BY <2>11, Errors
    <3>2. leaves # <<>> /\ header.stateRoot # leaves[Len(leaves)].root
      BY <2>4, <3>1
    <3>3. Len(leaves) \in Indices
      BY <1>2, <3>2, BlockTypes DEF Indices
    <3>4. Accepts("BLOCK_STATE_ROOT", Len(leaves)) /\ ~ HonestButEarly
      BY <3>2, <3>3 DEF Accepts, proveStateRootError, HonestButEarly
    <3>. QED
      BY <2>6, <3>1, <3>4 DEF LeafProofs
  <2>. QED
    BY <2>4, <2>5, <2>7, <2>8, <2>9, <2>10, <2>11, Errors
<1>. QED
  BY <1>3, <1>4

\* A leaf without an error is a transaction of its kind.
LEMMA GoodLeaf ==
  ASSUME TypeOK, NEW i \in Indices, LeafError(i) = "none"
  PROVE  /\ i <= header.incomingCount => leaves[i].form = "root"
         /\ i > header.incomingCount => leaves[i].form = "signed" /\ leaves[i].tx.to # Zero
<1>1. i \in Nat /\ header.incomingCount \in Nat /\ leaves[i].form \in Forms
  BY BlockTypes, LeafTypes
<1>2. i <= header.incomingCount => leaves[i].form = "root"
  BY <1>1 DEF LeafError
<1>3. i > header.incomingCount => leaves[i].form = "signed" /\ leaves[i].tx.to # Zero
  <2>. SUFFICES ASSUME i > header.incomingCount
                PROVE  leaves[i].form = "signed" /\ leaves[i].tx.to # Zero
    OBVIOUS
  <2>1. ~ (i <= header.incomingCount)
    BY <1>1
  <2>. QED
    BY <1>1, <2>1 DEF LeafError, Forms
<1>. QED
  BY <1>2, <1>3

\* A leaf with an error does not run, and the peg accepts the proof or the
\* libraries differ.
LEMMA BadLeaf ==
  ASSUME TypeOK, NEW i \in Indices, LeafError(i) # "none"
  PROVE  /\ ~ RunsTo(i)
         /\ LeafError(i) \in LeafProofs
         /\ Accepts(LeafError(i), i) \/ Excepted(LeafError(i), i)
<1>1. i \in Nat /\ header.incomingCount \in Nat
  BY BlockTypes
<1>2. CASE i <= header.incomingCount
  <2>i. ~ (i > header.incomingCount)
    BY <1>1, <1>2
  <2>1. LeafError(i) = "INCOMING_TX_ENCODING" /\ leaves[i].form # "root"
    BY <1>2, <2>i DEF LeafError
  <2>2. proveIncomingTransactionEncodingError(i)
    BY <1>2, <2>1 DEF proveIncomingTransactionEncodingError
  <2>. QED
    BY <1>2, <2>1, <2>2 DEF RunsTo, LeafProofs, Accepts
<1>3. CASE i > header.incomingCount
  <2>1. ~ (i <= header.incomingCount) /\ validateSignedTransaction(i)
    BY <1>1, <1>3 DEF validateSignedTransaction
  <2>2. ~ RunsTo(i)
    <3>. SUFFICES ASSUME RunsTo(i) PROVE FALSE
      OBVIOUS
    <3>1. leaves[i].form = "signed" /\ leaves[i].tx.to # Zero
      BY <1>3, RunningLeaf
    <3>. QED
      BY <1>3, <2>1, <3>1 DEF LeafError
  <2>3. CASE leaves[i].form \in {"root", "malformed", "lax", "foreignV"}
    <3>1. LeafError(i) = "SIGNED_TX_ENCODING"
      BY <1>3, <2>1, <2>3 DEF LeafError
    <3>2. leaves[i].form \in {"root", "malformed"} => proveSignedTransactionEncodingError(i)
      BY <2>1 DEF proveSignedTransactionEncodingError, decodeTransaction
    <3>. QED
      BY <2>2, <2>3, <3>1, <3>2 DEF LeafProofs, Accepts, Excepted
  <2>4. CASE leaves[i].form \in {"noSigner", "highS"}
    <3>1. LeafError(i) = "TX_SIGNATURE"
      BY <1>3, <2>1, <2>4 DEF LeafError
    <3>2. leaves[i].form = "noSigner" => proveTransactionSignatureError(i)
      BY <2>1 DEF proveTransactionSignatureError, ProvableSigned, decodeTransaction, getSenderAddress
    <3>. QED
      BY <2>2, <2>4, <3>1, <3>2 DEF LeafProofs, Accepts, Excepted
  <2>5. CASE leaves[i].form \notin {"root", "malformed", "lax", "foreignV", "noSigner", "highS"}
    <3>1. LeafError(i) = "INVALID_CREATE_TX" /\ leaves[i].tx.to = Zero
      BY <1>3, <2>1, <2>5 DEF LeafError
    <3>2. proveInvalidCreateTransaction(i)
      BY <2>1, <2>5, <3>1 DEF proveInvalidCreateTransaction, ProvableSigned, decodeTransaction
    <3>. QED
      BY <2>2, <3>1, <3>2 DEF LeafProofs, Accepts
  <2>. QED
    BY <2>3, <2>4, <2>5
<1>. QED
  BY <1>1, <1>2, <1>3

\* The leaves have no error, or the first one is a proof.
LEMMA decodeTransactionsInv ==
  ASSUME Inv, decodeTransactions
  PROVE  Inv'
<1>. USE DEF Inv
<1>. DEFINE found == {i \in Indices : LeafError(i) # "none"}
<1>1. /\ pc = "decode" /\ UNCHANGED <<block, queued, index, state, verdict>>
      /\ answer = NoAnswer /\ answer.kind = "none" /\ answer.kind \in Outcomes
      /\ HeaderIsGood
  BY DEF decodeTransactions, FoundInv, NoAnswer, Outcomes, ExecutionInv
<1>2. HeaderIsGood' /\ LeavesAreGood' = LeavesAreGood
  BY <1>1, AuditStep
<1>3. CASE found = {}
  <2>1. pc' = "execute" /\ answer' = answer
    BY <1>3 DEF decodeTransactions
  <2>2. LeavesAreGood
    BY <1>3 DEF LeavesAreGood
  <2>3. /\ index = 1 /\ index <= Len(leaves) + 1 /\ state = provePreviousStateRoot(index)
        /\ \A a \in Creators : state.nonce[a] = 0
        /\ \A i \in 1..index - 1 : RunsTo(i)
    BY <1>1, BlockTypes DEF ExecutionInv, provePreviousStateRoot
  <2>4. ExecutionInv'
    <3>1. /\ leaves' = leaves
          /\ \A i : provePreviousStateRoot(i)' = provePreviousStateRoot(i) /\ RunsTo(i)' = RunsTo(i)
      BY <1>1, AuditStep
    <3>. QED
      BY <1>1, <1>2, <2>1, <2>2, <2>3, <3>1 DEF ExecutionInv
  <2>. QED
    BY <1>1, <2>1, <2>4 DEF TypeOK, FoundInv, PassedInv, ChallengeInv
<1>4. CASE found # {}
  <2>. DEFINE i == Min(found)
  <2>1. found \in SUBSET Nat
    BY BlockTypes
  <2>2. i \in found
    BY <1>4, <2>1, MinIsLeast
  <2>3. Answer(LeafError(i), i)
    BY <1>4 DEF decodeTransactions
  <2>. HIDE DEF i
  <2>4. i \in Indices /\ i \in Nat /\ LeafError(i) # "none"
    BY <2>2, BlockTypes
  <2>5. /\ ~ RunsTo(i) /\ LeafError(i) \in LeafProofs
        /\ Accepts(LeafError(i), i) \/ Excepted(LeafError(i), i)
    BY <2>4, BadLeaf
  <2>6. ~ HonestButEarly
    BY <2>4, <2>5 DEF HonestButEarly
  <2>. QED
    BY <1>1, <2>3, <2>4, <2>5, <2>6, ProofInv DEF TypeOK
<1>. QED
  BY <1>3, <1>4

\* What is known of the next transaction: the audit confirms it exactly if
\* it runs.
LEMMA NextIs ==
  ASSUME Inv, pc = "execute", index \in Indices
  PROVE  /\ HeaderIsGood /\ header.incomingIndex + header.incomingCount <= queued
         /\ index \in Nat /\ header.incomingCount \in Nat
         /\ state \in States /\ state # Wrong /\ state = provePreviousStateRoot(index)
         /\ \A a \in Creators : state.nonce[a] = 0
         /\ index <= header.incomingCount => leaves[index].form = "root"
         /\ index > header.incomingCount => leaves[index].form = "signed" /\ leaves[index].tx.to # Zero
         /\ Current \in Transactions
         /\ Current.incoming <=> index <= header.incomingCount
         /\ Current.incoming => Current = Queue[Position(index)] /\ Position(index) <= queued
         /\ ~ Current.incoming =>
              /\ index > header.incomingCount /\ Current = leaves[index].tx
              /\ Current.from \notin Creators \union {Zero}
         /\ auditTransaction <=> RunsTo(index)
<1>1. /\ HeaderIsGood /\ LeavesAreGood /\ TypeOK
      /\ state = provePreviousStateRoot(index)
      /\ \A a \in Creators : state.nonce[a] = 0
  BY DEF Inv, ExecutionInv
<1>2. state \in States /\ state # Wrong
  BY <1>1, RootAssumption DEF TypeOK
<1>3. header.incomingIndex + header.incomingCount <= queued
  BY <1>1 DEF HeaderIsGood
<1>4. index \in Nat /\ header.incomingCount \in Nat
  BY <1>1, BlockTypes
<1>5. LeafError(index) = "none"
  BY <1>1 DEF LeavesAreGood
<1>6. /\ index <= header.incomingCount => leaves[index].form = "root"
      /\ index > header.incomingCount => leaves[index].form = "signed" /\ leaves[index].tx.to # Zero
  BY <1>1, <1>5, GoodLeaf
<1>7. /\ Current \in Transactions
      /\ Current.incoming <=> index <= header.incomingCount
      /\ Current.incoming => Current = Queue[Position(index)] /\ Position(index) <= queued
      /\ ~ Current.incoming => Current = leaves[index].tx /\ Current.from \notin Creators \union {Zero}
  <2>1. index > header.incomingCount => leaves[index].form = "signed"
    BY <1>6
  <2>. QED
    BY <1>1, <1>3, <2>1, TransactionTypes DEF Current
<1>8. ~ Current.incoming => index > header.incomingCount
  BY <1>4, <1>7
<1>9. auditTransaction <=> RunsTo(index)
  <2>1. (IF index = 1 THEN parent.stateRoot ELSE leaves[index - 1].root) = state
    BY <1>1 DEF provePreviousStateRoot
  <2>2. leaves[index].form = IF index <= header.incomingCount THEN "root" ELSE "signed"
    BY <1>4, <1>6
  <2>. QED
    BY <1>2, <1>6, <2>1, <2>2 DEF RunsTo, auditTransaction, Current, ClaimedRoot
<1>. QED
  BY <1>1, <1>2, <1>3, <1>4, <1>6, <1>7, <1>8, <1>9

\* The next transaction runs to the root that it claims.
LEMMA ExecuteNextInv ==
  ASSUME Inv, ExecuteNext
  PROVE  Inv'
<1>1. /\ pc = "execute" /\ index \in Indices /\ auditTransaction
      /\ state' = runTx(state, Current) /\ index' = index + 1
      /\ UNCHANGED <<block, queued, pc, answer, verdict>>
      /\ TypeOK /\ ExecutionInv /\ FoundInv /\ PassedInv /\ ChallengeInv
  BY DEF ExecuteNext, Inv
<1>2. /\ HeaderIsGood /\ header.incomingIndex + header.incomingCount <= queued
      /\ index \in Nat /\ state \in States /\ RunsTo(index)
      /\ \A a \in Creators : state.nonce[a] = 0
      /\ index > header.incomingCount => leaves[index].form = "signed"
  BY <1>1, NextIs
<1>3. CanRun(state, Current) /\ state' = leaves[index].root
  BY <1>1 DEF auditTransaction, ClaimedRoot
<1>4. state' \in States /\ \A a \in Creators : state'.nonce[a] = 0
  BY <1>1, <1>2, <1>3, CreatorsKeep DEF Current
<1>5. /\ index' \in Nat \ {0} /\ index' - 1 = index /\ index' # 1
      /\ index' <= Len(leaves) + 1
      /\ \A i \in 1..index' - 1 : i \in 1..index - 1 \/ i = index
  <2>1. index \in 1..Len(leaves) /\ Len(leaves) \in Nat
    BY <1>1, BlockTypes DEF Indices
  <2>. QED
    BY <1>1, <2>1
<1>6. \A i \in 1..index' - 1 : RunsTo(i)
  BY <1>1, <1>2, <1>5 DEF ExecutionInv
<1>7. provePreviousStateRoot(index') = state'
  BY <1>3, <1>5 DEF provePreviousStateRoot
<1>8. /\ leaves' = leaves /\ HeaderIsGood' /\ LeavesAreGood' = LeavesAreGood
      /\ \A i : provePreviousStateRoot(i)' = provePreviousStateRoot(i) /\ RunsTo(i)' = RunsTo(i)
      /\ HonestButEarly' = HonestButEarly
  BY <1>1, <1>2, AuditStep
<1>9. TypeOK'
  BY <1>1, <1>4, <1>5 DEF TypeOK
<1>10. ExecutionInv'
  <2>1. provePreviousStateRoot(index)' = state'
    BY <1>7, <1>8
  <2>2. pc' = "execute" /\ LeavesAreGood'
    BY <1>1, <1>8 DEF ExecutionInv
  <2>. QED
    BY <1>4, <1>5, <1>6, <1>8, <2>1, <2>2 DEF ExecutionInv
<1>11. FoundInv' /\ PassedInv' /\ ChallengeInv'
  <2>1. answer = NoAnswer /\ answer' = NoAnswer /\ pc' = "execute" /\ verdict' = "none"
    BY <1>1 DEF FoundInv
  <2>2. answer'.kind = "none"
    BY <2>1 DEF NoAnswer
  <2>. QED
    BY <2>1, <2>2 DEF FoundInv, PassedInv, ChallengeInv
<1>. QED
  BY <1>9, <1>10, <1>11 DEF Inv

\* All transactions have run, and the state is that of the header.
LEMMA EndOfTransactionsInv ==
  ASSUME Inv, EndOfTransactions
  PROVE  Inv'
<1>1. /\ pc = "execute" /\ index > Len(leaves) /\ pc' = "exits"
      /\ UNCHANGED <<block, queued, index, state, answer, verdict>>
      /\ TypeOK /\ ExecutionInv /\ FoundInv /\ PassedInv /\ ChallengeInv
  BY DEF EndOfTransactions, Inv
<1>2. /\ HeaderIsGood /\ LeavesAreGood /\ index <= Len(leaves) + 1
      /\ \A i \in 1..index - 1 : RunsTo(i)
      /\ state = provePreviousStateRoot(index)
  BY <1>1 DEF ExecutionInv
<1>3. /\ index - 1 = Len(leaves) /\ index # 1
      /\ leaves # <<>> /\ header.stateRoot = leaves[Len(leaves)].root
  <2>1. leaves \in Seq(Leaves) /\ Len(leaves) \in Nat /\ index \in Nat
    BY <1>1, BlockTypes DEF TypeOK
  <2>2. leaves # <<>> /\ header.stateRoot = leaves[Len(leaves)].root
    BY <1>2 DEF HeaderIsGood
  <2>3. Len(leaves) # 0
    BY <2>1, <2>2
  <2>. QED
    BY <1>1, <1>2, <2>1, <2>2, <2>3
<1>4. header.stateRoot \in States /\ \A i \in Indices : RunsTo(i)
  <2>1. header.stateRoot = state
    BY <1>2, <1>3 DEF provePreviousStateRoot
  <2>. QED
    BY <1>1, <1>2, <1>3, <2>1 DEF TypeOK, Indices
<1>5. /\ header' = header /\ Indices' = Indices /\ \A i : RunsTo(i)' = RunsTo(i)
      /\ HeaderIsGood' /\ LeavesAreGood' = LeavesAreGood
  BY <1>1, <1>2, AuditStep
<1>6. ExecutionInv'
  BY <1>1, <1>2, <1>4, <1>5 DEF ExecutionInv
<1>7. TypeOK'
  BY <1>1 DEF TypeOK
<1>8. FoundInv' /\ PassedInv' /\ ChallengeInv'
  <2>1. answer = NoAnswer /\ answer' = NoAnswer /\ pc' # "done" /\ verdict' = "none"
    BY <1>1 DEF FoundInv
  <2>2. answer'.kind = "none"
    BY <2>1 DEF NoAnswer
  <2>. QED
    BY <2>1, <2>2 DEF FoundInv, PassedInv, ChallengeInv
<1>. QED
  BY <1>6, <1>7, <1>8 DEF Inv

\* A challenge is of a call, and the roots before it are right.
LEMMA ChallengeBlockInv ==
  ASSUME Inv, ChallengeBlock
  PROVE  Inv'
<1>1. /\ pc = "execute" /\ index \in Indices
      /\ ~ auditTransaction /\ ~ hasSimpleProvableError
      /\ Answer("challenge", index)
      /\ UNCHANGED <<block, queued, index, state, verdict>>
      /\ TypeOK /\ ExecutionInv /\ FoundInv
  BY DEF ChallengeBlock, Inv
<1>2. /\ answer' = [kind |-> "challenge", index |-> index] /\ pc' = "done"
      /\ answer'.kind = "challenge" /\ answer'.index = index /\ "challenge" \in Outcomes
      /\ verdict' = "none"
  BY <1>1 DEF Answer, Outcomes, FoundInv
<1>3. /\ index \in Nat /\ ~ RunsTo(index) /\ state = provePreviousStateRoot(index)
      /\ \A i \in 1..index - 1 : RunsTo(i)
      /\ Current.incoming <=> index <= header.incomingCount
      /\ Current.incoming => Current = Queue[Position(index)]
      /\ ~ Current.incoming => Current = leaves[index].tx
  BY <1>1, NextIs DEF ExecutionInv
<1>4. Current.to # Zero /\ state.code[Current.to]
  BY <1>1 DEF hasSimpleProvableError
<1>. DEFINE to == IF index <= header.incomingCount THEN Queue[Position(index)].to
                  ELSE leaves[index].tx.to
<1>5. to # Zero /\ provePreviousStateRoot(index).code[to]
  <2>1. to = Current.to
    BY <1>3
  <2>. QED
    BY <1>3, <1>4, <2>1
<1>6. /\ header' = header /\ leaves' = leaves
      /\ \A i : /\ RunsTo(i)' = RunsTo(i) /\ Position(i)' = Position(i)
               /\ provePreviousStateRoot(i)' = provePreviousStateRoot(i)
      /\ HonestButEarly' = HonestButEarly
  BY <1>1, AuditStep
<1>7. ~ HonestButEarly
  BY <1>1, <1>3 DEF HonestButEarly
<1>8. answer' \in [kind : Kinds, index : Nat]
  BY <1>2, <1>3 DEF Kinds
<1>9. TypeOK'
  BY <1>1, <1>2, <1>8 DEF TypeOK
<1>10. ExecutionInv' /\ FoundInv'
  BY <1>2 DEF ExecutionInv, FoundInv
<1>11. PassedInv'
  BY <1>2, <1>6, <1>7 DEF PassedInv
<1>12. ChallengeInv'
  <2>1. /\ ~ RunsTo(index)' /\ \A i \in 1..index - 1 : RunsTo(i)'
        /\ to' = to /\ (provePreviousStateRoot(index)').code[to']
    BY <1>1, <1>3, <1>5, <1>6
  <2>. QED
    BY <1>1, <1>2, <1>5, <2>1 DEF ChallengeInv
<1>. QED
  BY <1>9, <1>10, <1>11, <1>12 DEF Inv

\* What a prover computes of an incoming transaction is a state.
LEMMA SimpleIncomingTypes ==
  ASSUME NEW s \in States, NEW t \in Transactions
  PROVE  SimpleIncomingRoot(s, t) \in States
<1>1. t.from \in Addresses /\ t.to \in Addresses /\ t.value \in Nat
  BY TxTypes
<1>2. CASE t.to = Zero
  BY <1>1, <1>2 DEF SimpleIncomingRoot, setAccountCodeHash, States
<1>3. CASE t.to # Zero
  BY <1>1, <1>3 DEF SimpleIncomingRoot, increaseBalance, Credit, States
<1>. QED
  BY <1>2, <1>3

\* An incoming transaction that does not run has another root than that of
\* a transfer, or calls the child relay.
LEMMA auditIncomingTransactionInv ==
  ASSUME Inv, auditIncomingTransaction
  PROVE  Inv'
<1>1. /\ pc = "execute" /\ index \in Indices /\ Current.incoming
      /\ ~ auditTransaction /\ hasSimpleProvableError
      /\ state' = SimpleIncomingRoot(state, Current)
      /\ UNCHANGED <<block, queued, index, verdict>>
      /\ TypeOK /\ ExecutionInv /\ FoundInv
  BY DEF auditIncomingTransaction, Inv
<1>2. /\ HeaderIsGood /\ header.incomingIndex + header.incomingCount <= queued
      /\ index \in Nat /\ index <= header.incomingCount
      /\ state \in States /\ state # Wrong /\ state = provePreviousStateRoot(index)
      /\ \A a \in Creators : state.nonce[a] = 0
      /\ leaves[index].form = "root"
      /\ Current \in Transactions
      /\ Current = Queue[Position(index)] /\ Position(index) <= queued
      /\ ~ RunsTo(index)
  BY <1>1, NextIs
<1>3. Current.to = Zero \/ ~ state.code[Current.to]
  BY <1>1 DEF hasSimpleProvableError
<1>4. state' \in States
  BY <1>1, <1>2, SimpleIncomingTypes
<1>5. CASE state' = ClaimedRoot
  <2>1. pc' = "exits" /\ answer' = answer
    BY <1>5 DEF auditIncomingTransaction
  <2>2. Current.to = Relay
    <3>. SUFFICES ASSUME Current.to # Relay PROVE FALSE
      OBVIOUS
    <3>1. CanRun(state, Current) /\ runTx(state, Current) = SimpleIncomingRoot(state, Current)
      BY <1>1, <1>2, <1>3, SimpleIncomingHolds DEF Current
    <3>. QED
      BY <1>1, <1>5, <3>1 DEF auditTransaction
  <2>3. RelayTransfer
    BY <1>1, <1>2, <1>5, <2>2 DEF RelayTransfer, Current, ClaimedRoot
  <2>4. RelayTransfer' /\ HeaderIsGood' /\ LeavesAreGood'
    <3>1. LeavesAreGood
      BY <1>1 DEF ExecutionInv
    <3>. QED
      BY <1>1, <1>2, <2>3, <3>1, AuditStep
  <2>5. answer' = NoAnswer /\ answer'.kind = "none" /\ verdict' = "none"
    BY <1>1, <2>1 DEF FoundInv, NoAnswer
  <2>6. TypeOK'
    BY <1>1, <1>4, <2>1 DEF TypeOK
  <2>7. ExecutionInv'
    BY <2>1, <2>4 DEF ExecutionInv
  <2>. QED
    BY <2>1, <2>5, <2>6, <2>7 DEF Inv, FoundInv, PassedInv, ChallengeInv
<1>6. CASE state' # ClaimedRoot
  <2>1. Answer("SIMPLE_INCOMING_TX", index) /\ pc # "done"
    BY <1>1, <1>6 DEF auditIncomingTransaction
  <2>2. validateIncomingTransaction(index)
    BY <1>1, <1>2 DEF validateIncomingTransaction
  <2>3. proveSimpleIncomingTransactionExecutionError(index)
    BY <1>1, <1>2, <1>3, <1>6, <2>2 DEF proveSimpleIncomingTransactionExecutionError, ClaimedRoot
  <2>4. Accepts("SIMPLE_INCOMING_TX", index) /\ "SIMPLE_INCOMING_TX" \in BlockProofs \union LeafProofs
    BY <2>3 DEF Accepts, LeafProofs
  <2>5. ~ HonestButEarly
    BY <1>1, <1>2 DEF HonestButEarly
  <2>. QED
    BY <1>1, <1>2, <1>4, <2>1, <2>4, <2>5, ProofInv
<1>. QED
  BY <1>5, <1>6

\* A signed transaction that does not run, and needs no challenge, has a
\* proof.
LEMMA auditSignedTransactionInv ==
  ASSUME Inv, auditSignedTransaction
  PROVE  Inv'
<1>1. /\ pc = "execute" /\ pc # "done" /\ index \in Indices /\ ~ Current.incoming
      /\ ~ auditTransaction /\ hasSimpleProvableError
      /\ UNCHANGED <<block, queued, index, state, verdict>>
      /\ TypeOK
  BY DEF auditSignedTransaction, Inv
<1>2. /\ header.incomingIndex + header.incomingCount <= queued
      /\ index \in Nat /\ index > header.incomingCount
      /\ state \in States /\ state # Wrong /\ state = provePreviousStateRoot(index)
      /\ leaves[index].form = "signed" /\ leaves[index].tx.to # Zero
      /\ Current \in Transactions /\ Current = leaves[index].tx
      /\ ~ RunsTo(index)
  BY <1>1, NextIs
<1>3. ~ HonestButEarly
  BY <1>1, <1>2 DEF HonestButEarly
<1>4. /\ ProvableSigned(index) /\ proveAccountInState(index)
      /\ getSenderAddress(index) = leaves[index].tx.from
  BY <1>1, <1>2 DEF ProvableSigned, proveAccountInState, validateSignedTransaction,
     decodeTransaction, getSenderAddress
<1>5. ASSUME NEW kind \in LeafProofs, Answer(kind, index),
             Accepts(kind, index) \/ Excepted(kind, index)
      PROVE  Inv'
  <2>1. state' \in States /\ kind \in BlockProofs \union LeafProofs
    BY <1>1, <1>2
  <2>. QED
    BY <1>1, <1>2, <1>3, <1>5, <2>1, ProofInv
<1>6. /\ Current.gas \in Nat /\ getBaseFee(Current) \in Nat
      /\ getUpfrontCost(Current) \in Nat /\ state.balance[Current.from] \in Int
  <2>1. /\ Current.gas \in Nat /\ Current.price \in Nat /\ Current.value \in Nat
        /\ Current.data \in Nat /\ BaseGas \in Nat /\ DataGas \in Nat /\ Current.from \in Addresses
    BY <1>2, TxTypes
  <2>2. DataGas * Current.data \in Nat /\ Current.gas * Current.price \in Nat
    BY <2>1, Products
  <2>3. state.balance[Current.from] \in Int
    BY <1>2, <2>1, StateTypes, LedgerTypes
  <2>. QED
    BY <1>1, <2>1, <2>2, <2>3 DEF getBaseFee, getUpfrontCost
<1>7. CASE getBaseFee(Current) > Current.gas
  <2>1. Answer("INSUFFICIENT_GAS", index)
    BY <1>7 DEF auditSignedTransaction
  <2>2. leaves[index].tx.gas < getBaseFee(leaves[index].tx)
    BY <1>2, <1>6, <1>7
  <2>3. Accepts("INSUFFICIENT_GAS", index) /\ "INSUFFICIENT_GAS" \in LeafProofs
    BY <1>4, <2>2 DEF Accepts, proveInsufficientGasError, LeafProofs
  <2>. QED
    BY <1>5, <2>1, <2>3
<1>8. CASE ~ (getBaseFee(Current) > Current.gas) /\ Current.nonce # state.nonce[Current.from]
  <2>1. Answer("INVALID_NONCE", index)
    BY <1>8 DEF auditSignedTransaction
  <2>2. Accepts("INVALID_NONCE", index) /\ "INVALID_NONCE" \in LeafProofs
    BY <1>2, <1>4, <1>8 DEF Accepts, proveInvalidNonceError, LeafProofs
  <2>. QED
    BY <1>5, <2>1, <2>2
<1>9. CASE /\ ~ (getBaseFee(Current) > Current.gas) /\ Current.nonce = state.nonce[Current.from]
           /\ state.balance[Current.from] < getUpfrontCost(Current)
  <2>1. Answer("INSUFFICIENT_BALANCE", index)
    BY <1>9 DEF auditSignedTransaction
  <2>2. getUpfrontCost(leaves[index].tx) >
          provePreviousStateRoot(index).balance[leaves[index].tx.from]
    BY <1>2, <1>6, <1>9
  <2>3. Accepts("INSUFFICIENT_BALANCE", index) /\ "INSUFFICIENT_BALANCE" \in LeafProofs
    BY <1>4, <2>2 DEF Accepts, proveInsufficientBalanceError, LeafProofs
  <2>. QED
    BY <1>5, <2>1, <2>3
<1>10. CASE /\ ~ (getBaseFee(Current) > Current.gas) /\ Current.nonce = state.nonce[Current.from]
            /\ ~ (state.balance[Current.from] < getUpfrontCost(Current))
  <2>1. Answer("SIMPLE_SIGNED_TX", index)
    BY <1>10 DEF auditSignedTransaction
  <2>2. CanRun(state, leaves[index].tx) /\ ~ state.code[leaves[index].tx.to]
    <3>1. Current.gas >= getBaseFee(Current) /\ state.balance[Current.from] >= getUpfrontCost(Current)
      BY <1>6, <1>10
    <3>2. ~ (getUpfrontCost(Current) > state.balance[Current.from])
      BY <1>6, <3>1
    <3>. QED
      BY <1>1, <1>2, <1>10, <3>1, <3>2 DEF CanRun, hasSimpleProvableError
  <2>3. Accepts("SIMPLE_SIGNED_TX", index) \/ Excepted("SIMPLE_SIGNED_TX", index)
    <3>1. CASE Mischarged(index)
      BY <3>1 DEF Excepted
    <3>2. CASE ~ Mischarged(index)
      <4>1. /\ runTx(state, leaves[index].tx) =
                 SimpleSignedRoot(state, leaves[index].tx.from, leaves[index].tx)
            /\ state.balance[leaves[index].tx.from] >=
                 leaves[index].tx.value + BaseGas * leaves[index].tx.price
        BY <1>1, <1>2, <2>2, <3>2, SimpleSignedHolds
      <4>2. leaves[index].root # runTx(state, leaves[index].tx)
        BY <1>1, <1>2, <2>2 DEF auditTransaction, ClaimedRoot
      <4>3. proveSimpleSignedTransactionExecutionError(index)
        BY <1>2, <1>4, <2>2, <4>1, <4>2 DEF proveSimpleSignedTransactionExecutionError
      <4>. QED
        BY <4>3 DEF Accepts
    <3>. QED
      BY <3>1, <3>2
  <2>. QED
    BY <1>5, <2>1, <2>3 DEF LeafProofs
<1>. QED
  BY <1>7, <1>8, <1>9, <1>10

\* The exits end the audit: a block that is passed is honest, or escapes.
LEMMA auditExitRootInv ==
  ASSUME Inv, auditExitRoot
  PROVE  Inv'
<1>1. /\ pc = "exits" /\ pc # "done"
      /\ UNCHANGED <<block, queued, index, state, verdict>>
      /\ TypeOK /\ ExecutionInv /\ state' \in States
  BY DEF auditExitRoot, Inv, TypeOK
<1>2. HeaderIsGood
  BY <1>1 DEF ExecutionInv
<1>3. RelayTransfer \/ (header.stateRoot \in States /\ \A i \in Indices : RunsTo(i))
  BY <1>1 DEF ExecutionInv
<1>4. CASE header.exitsRoot # <<>>
  <2>1. Answer("BLOCK_EXIT_ROOT", 0)
    BY <1>4 DEF auditExitRoot, ExitsRead
  <2>2. Accepts("BLOCK_EXIT_ROOT", 0) \/ Excepted("BLOCK_EXIT_ROOT", 0)
    <3>1. CASE RelayTransfer \/ header.exitsRoot = header.stateRoot.exits
      BY <3>1 DEF Excepted
    <3>2. CASE ~ RelayTransfer /\ header.exitsRoot # header.stateRoot.exits
      <4>1. header.stateRoot # Wrong
        BY <1>3, <3>2, RootAssumption
      <4>. QED
        BY <3>2, <4>1 DEF Accepts, proveExitsRootError
    <3>. QED
      BY <3>1, <3>2
  <2>3. "BLOCK_EXIT_ROOT" \in BlockProofs \union LeafProofs /\ 0 \in Nat
    BY DEF BlockProofs
  <2>. QED
    BY <1>1, <1>4, <2>1, <2>2, <2>3, ProofInv
<1>5. CASE header.exitsRoot = <<>>
  <2>1. Answer("ok", 0)
    BY <1>5 DEF auditExitRoot, ExitsRead
  <2>2. Honest \/ Escapes
    <3>. SUFFICES ASSUME ~ Escapes PROVE Honest
      OBVIOUS
    <3>1. ~ RelayTransfer /\ ~ (header.incomingCount > Len(leaves))
      BY DEF Escapes
    <3>2. header.stateRoot # Wrong /\ \A i \in Indices : RunsTo(i)
      BY <1>3, <3>1, RootAssumption
    <3>3. header.exitsRoot = header.stateRoot.exits
      BY <1>5, <3>2 DEF Escapes
    <3>4. header.incomingCount <= Len(leaves)
      <4>1. header.incomingCount \in Nat /\ Len(leaves) \in Nat
        BY <1>1, BlockTypes
      <4>. QED
        BY <3>1, <4>1
    <3>. QED
      BY <1>2, <3>2, <3>3, <3>4 DEF Honest, HeaderIsGood
  <2>3. "ok" \in {"ok", "throws"} /\ 0 \in Nat
    OBVIOUS
  <2>. QED
    BY <1>1, <2>1, <2>2, <2>3, OutcomeInv
<1>. QED
  BY <1>4, <1>5

\* The peg rejects only what is excepted.
LEMMA proveErrorInv ==
  ASSUME Inv, proveError
  PROVE  Inv'
<1>1. /\ pc = "done" /\ pc' = pc /\ answer.kind \notin Outcomes
      /\ UNCHANGED <<block, queued, index, state, answer>>
      /\ verdict' = IF Accepts(answer.kind, answer.index) THEN "accepted" ELSE "rejected"
      /\ TypeOK /\ ExecutionInv /\ FoundInv /\ PassedInv
  BY DEF proveError, Inv
<1>2. /\ HonestButEarly' = HonestButEarly /\ header' = header
      /\ \A kind, i : Excepted(kind, i) => Excepted(kind, i)'
      /\ \A kind : \A i \in Nat :
           Accepts(kind, i) \/ Excepted(kind, i) => Accepts(kind, i)' \/ Excepted(kind, i)'
  BY <1>1, AuditStep
<1>3. answer.index \in Nat
  BY <1>1 DEF TypeOK
<1>4. Accepts(answer.kind, answer.index) \/ Excepted(answer.kind, answer.index)
  BY <1>1 DEF FoundInv
<1>5. TypeOK'
  BY <1>1 DEF TypeOK
<1>6. FoundInv'
  <2>1. Accepts(answer.kind, answer.index)' \/ Excepted(answer.kind, answer.index)'
    BY <1>1, <1>2, <1>3, <1>4
  <2>2. verdict' = "rejected" => Excepted(answer.kind, answer.index)'
    BY <1>1, <1>2, <1>4
  <2>. QED
    BY <1>1, <2>1, <2>2 DEF FoundInv
<1>7. ExecutionInv' /\ PassedInv' /\ ChallengeInv'
  <2>1. answer'.kind # "ok" /\ answer'.kind # "challenge"
    BY <1>1 DEF Outcomes
  <2>. QED
    BY <1>1, <1>2, <2>1 DEF ExecutionInv, PassedInv, ChallengeInv
<1>. QED
  BY <1>5, <1>6, <1>7 DEF Inv

\* The relay goes on queueing, and nothing of what is known becomes false.
LEMMA QueueInv ==
  ASSUME Inv, UNCHANGED <<block, pc, index, state, answer, verdict>>,
         queued' \in 0..Len(Queue), queued <= queued'
  PROVE  Inv'
<1>1. /\ TypeOK /\ ExecutionInv /\ FoundInv /\ PassedInv /\ ChallengeInv
      /\ block' = block /\ pc' = pc /\ index' = index /\ state' = state
      /\ answer' = answer /\ verdict' = verdict
      /\ queued' \in Nat /\ answer.index \in Nat
  BY DEF Inv, TypeOK
<1>2. /\ header' = header /\ parent' = parent /\ leaves' = leaves /\ Indices' = Indices
      /\ \A i : /\ Position(i)' = Position(i)
               /\ provePreviousStateRoot(i)' = provePreviousStateRoot(i)
               /\ RunsTo(i)' = RunsTo(i)
      /\ RelayTransfer' = RelayTransfer /\ Escapes' = Escapes
      /\ LeavesAreGood' = LeavesAreGood /\ HonestButEarly' = HonestButEarly
  BY <1>1, SameBlock
<1>3. /\ HeaderIsGood => HeaderIsGood'
      /\ Honest => Honest'
      /\ \A kind, i : Excepted(kind, i) => Excepted(kind, i)'
      /\ \A kind : \A i \in Nat :
           Accepts(kind, i) \/ Excepted(kind, i) => Accepts(kind, i)' \/ Excepted(kind, i)'
  BY <1>1, Later
<1>4. TypeOK'
  BY <1>1 DEF TypeOK
<1>5. ExecutionInv'
  BY <1>1, <1>2, <1>3 DEF ExecutionInv
<1>6. FoundInv'
  <2>1. /\ Accepts(answer.kind, answer.index) \/ Excepted(answer.kind, answer.index) =>
             Accepts(answer.kind, answer.index)' \/ Excepted(answer.kind, answer.index)'
        /\ Excepted(answer.kind, answer.index) => Excepted(answer.kind, answer.index)'
    BY <1>1, <1>3
  <2>. QED
    BY <1>1, <2>1 DEF FoundInv
<1>7. PassedInv'
  BY <1>1, <1>2, <1>3 DEF PassedInv
<1>8. ChallengeInv'
  BY <1>1, <1>2 DEF ChallengeInv
<1>. QED
  BY <1>4, <1>5, <1>6, <1>7, <1>8 DEF Inv

\* The invariant survives a transaction that the relay queues.
LEMMA addTransactionInv ==
  ASSUME Inv, addTransaction
  PROVE  Inv'
<1>1. queued \in Nat /\ Len(Queue) \in Nat /\ queued <= Len(Queue)
  BY QueueAssumption DEF Inv, TypeOK
<1>2. queued' \in 0..Len(Queue) /\ queued <= queued'
  BY <1>1 DEF addTransaction
<1>. QED
  BY <1>2, QueueInv DEF addTransaction

\* Every step keeps the invariant.
LEMMA NextInv == Inv /\ [Next]_vars => Inv'
<1>1. ASSUME Inv, UNCHANGED vars PROVE Inv'
  <2>1. /\ UNCHANGED <<block, pc, index, state, answer, verdict>> /\ queued' = queued
        /\ queued \in 0..Len(Queue) /\ queued <= queued
    BY <1>1 DEF vars, Inv, TypeOK
  <2>. QED
    BY <1>1, <2>1, QueueInv
<1>. QED
  BY <1>1, checkHeaderInv, decodeTransactionsInv, ExecuteNextInv, EndOfTransactionsInv,
     ChallengeBlockInv, auditIncomingTransactionInv, auditSignedTransactionInv,
     auditExitRootInv, proveErrorInv, addTransactionInv
     DEF Next

-----------------------------------------------------------------------------
(* The theorems. *)

\* The invariant holds in every state of an audit.
LEMMA Invariant == Spec => []Inv
BY InitInv, NextInv, PTL DEF Spec

\* TypeOK for all blocks and queues: the state of the auditor is always a
\* state of the chain.
THEOREM Types == Spec => []TypeOK
<1>1. Inv => TypeOK
  BY DEF Inv
<1>. QED
  BY <1>1, Invariant, PTL

\* ConvictedOnlyIfWrong for all blocks, states and queues: whoever brings a
\* proof against an honest block, and at whatever time, the peg accepts at
\* most a simple one of a transaction that the provers charge or execute in
\* another way than the VM.
THEOREM Convicted == Spec => []ConvictedOnlyIfWrong
<1>1. Inv => ConvictedOnlyIfWrong
  BY HonestIsNotConvicted DEF Inv, ConvictedOnlyIfWrong
<1>. QED
  BY <1>1, Invariant, PTL

\* RejectedOnlyIf for all blocks: what the auditor finds the peg accepts,
\* however the queue has grown meanwhile, with the exceptions that
\* RejectedOnlyIf names.
THEOREM Rejected == Spec => []RejectedOnlyIf
<1>1. Inv => RejectedOnlyIf
  BY DEF Inv, FoundInv, RejectedOnlyIf, Excepted
<1>. QED
  BY <1>1, Invariant, PTL

\* PassedIsHonest for all blocks: the auditor passes an honest block, or one
\* that escapes in the ways that Escapes names, and reports no honest one.
THEOREM Passed == Spec => []PassedIsHonest
<1>1. Honest => HonestButEarly
  BY DEF Honest, HonestButEarly
<1>2. Inv => PassedIsHonest
  BY <1>1 DEF Inv, PassedInv, PassedIsHonest
<1>. QED
  BY <1>2, Invariant, PTL

\* ChallengeStands for all blocks: a challenge is of the first root that the
\* VM does not confirm, and of a call, so that nobody can cancel it as one
\* of a simple transaction.
THEOREM Challenged == Spec => []ChallengeStands
<1>1. ASSUME ChallengeInv PROVE ChallengeStands
  <2>. SUFFICES ASSUME answer.kind = "challenge"
                PROVE  /\ ~ RunsTo(answer.index)
                       /\ \A i \in 1..answer.index - 1 : RunsTo(i)
                       /\ ~ cancelSimpleTransactionChallenge(answer.index)
    BY DEF ChallengeStands
  <2>. QED
    BY <1>1 DEF ChallengeInv, cancelSimpleTransactionChallenge
<1>2. Inv => ChallengeStands
  BY <1>1 DEF Inv
<1>. QED
  BY <1>2, Invariant, PTL
===============================================================================

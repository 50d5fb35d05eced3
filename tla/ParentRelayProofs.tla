-------------------------- MODULE ParentRelayProofs --------------------------
(***************************************************************************)
(* Proofs about ParentRelay for every value of its constants.              *)
(***************************************************************************)
EXTENDS ParentRelay, WellFoundedInduction, TLAPS

(* The states of the relay, those that a failure would bring back too.     *)
Worlds ==
  [balance : Nat, queue : Seq(RelayTransactions),
   deployed : SUBSET (Proxies \cup {ChildRelay}),
   roots : [Heights -> {leaves \in Seq(Leaves) : Len(leaves) =< MaxExits}],
   child : [height : 0 .. MaxHeight, included : Nat, supply : Nat],
   settled : [Slots -> Nat]]

(* An execution had a proof for its exit when it began.                    *)
Frames ==
  {f \in [sender : Accounts, exit : Exits, slot : Slots, paid : Nat, saved : Worlds] :
     /\ f.slot[2] \in DOMAIN f.saved.roots[f.slot[1]]
     /\ f.saved.roots[f.slot[1]][f.slot[2]] = f.exit}

TypeInv == Snapshot \in Worlds /\ calls \in Seq(Frames)

-----------------------------------------------------------------------------
\* The end of an execution takes the last frame off the stack.
LEMMA ReturnPops ==
  ASSUME calls \in Seq(Frames), calls # <<>>, Return
  PROVE  /\ Last(calls) \in Frames
         /\ calls' \in Seq(Frames)
         /\ Len(calls) \in Nat \ {0}
         /\ Len(calls') = Len(calls) - 1
         /\ \A k \in 1 .. Len(calls) - 1 : calls'[k] = calls[k]
<1>1. Len(calls) \in Nat \ {0} /\ DOMAIN calls = 1 .. Len(calls)
  OBVIOUS
<1>2. Last(calls) \in Frames
  BY <1>1 DEF Last
<1>3. calls' = SubSeq(calls, 1, Len(calls) - 1)
  BY DEF Return, Front
<1> QED BY <1>1, <1>2, <1>3

\* A queue grows at its end.
LEMMA QueueGrows ==
  ASSUME NEW q \in Seq(RelayTransactions), NEW tx \in RelayTransactions
  PROVE  Append(q, tx) \in Seq(RelayTransactions) /\ Len(Append(q, tx)) = Len(q) + 1
OBVIOUS

\* A leaf that is deleted leaves the root with the leaves it had otherwise.
LEMMA WithoutExitType ==
  ASSUME NEW roots \in [Heights -> Seq(Leaves)], NEW h \in Heights,
         NEW i \in DOMAIN roots[h]
  PROVE  LET w == WithoutExit(roots, h, i) IN
         /\ w \in [Heights -> Seq(Leaves)]
         /\ \A g \in Heights : DOMAIN w[g] = DOMAIN roots[g] /\ Len(w[g]) = Len(roots[g])
         /\ \A g \in Heights : \A j \in DOMAIN roots[g] :
               w[g][j] = IF g = h /\ j = i THEN Gone ELSE roots[g][j]
<1> DEFINE s == [roots[h] EXCEPT ![i] = Gone]
<1>1. s \in Seq(Leaves) /\ DOMAIN s = DOMAIN roots[h] /\ Len(s) = Len(roots[h])
  BY DEF Leaves
<1>2. WithoutExit(roots, h, i) = [roots EXCEPT ![h] = s]
  BY DEF WithoutExit
<1> HIDE DEF s
<1>3. \A g \in Heights : WithoutExit(roots, h, i)[g] = IF g = h THEN s ELSE roots[g]
  BY <1>2
<1>4. WithoutExit(roots, h, i) \in [Heights -> Seq(Leaves)]
  BY <1>1, <1>2
<1>5. \A j \in DOMAIN roots[h] : s[j] = IF j = i THEN Gone ELSE roots[h][j]
  BY DEF s
<1> QED BY <1>1, <1>3, <1>4, <1>5

\* The initial queue holds the deployment of the child relay alone.
LEMMA InitTyped == Init => TypeInv
BY AddressAssumption, BoundAssumption
   DEF Init, TypeInv, Snapshot, Worlds, RelayTransaction, RelayTransactions, Leaves, Slots

\* A transaction that is queued keeps the types.
LEMMA QueuedTyped ==
  ASSUME TypeInv, NEW tx \in RelayTransactions, _addTransaction(tx)
  PROVE  transactionHashes' \in Seq(RelayTransactions)
BY QueueGrows DEF _addTransaction, TypeInv, Snapshot, Worlds

\* A call of the relay that leaves the roots and the executions alone.
LEMMA PayableTyped ==
  ASSUME TypeInv, balance' \in Nat,
         transactionHashes' \in Seq(RelayTransactions),
         deployedContracts' \in SUBSET (Proxies \cup {ChildRelay}),
         UNCHANGED <<confirmedExitRoots, child, settled, calls>>
  PROVE  TypeInv'
BY DEF TypeInv, Snapshot, Worlds

\* The calls that let no other code run keep the types.
LEMMA CallsTyped ==
  ASSUME TypeInv, NEW sender \in Accounts, NEW value \in Nat,
         \/ \E to \in Receivers : addTransaction(sender, to, value)
         \/ \E proxy \in Proxies : \/ forwardFromProxy(sender, proxy, value)
                                   \/ deployContract(sender, proxy, value)
         \/ receive(sender, value)
  PROVE  TypeInv'
<1> USE DEF RelayTransaction, RelayTransactions
<1>0. balance \in Nat /\ transactionHashes \in Seq(RelayTransactions)
      /\ deployedContracts \in SUBSET (Proxies \cup {ChildRelay})
  BY DEF TypeInv, Snapshot, Worlds
<1>1. ASSUME NEW to \in Receivers, addTransaction(sender, to, value) PROVE TypeInv'
  <2>1. RelayTransaction(sender, to, value) \in RelayTransactions
    BY AddressAssumption
  <2>2. transactionHashes' \in Seq(RelayTransactions)
    BY <1>1, <2>1, QueuedTyped DEF addTransaction
  <2> QED BY <1>0, <1>1, <2>2, PayableTyped DEF addTransaction, Paid
<1>2. ASSUME NEW proxy \in Proxies, forwardFromProxy(sender, proxy, value) PROVE TypeInv'
  <2>1. RelayTransaction(sender, proxy, value) \in RelayTransactions
    OBVIOUS
  <2>2. transactionHashes' \in Seq(RelayTransactions)
    BY <1>2, <2>1, QueuedTyped DEF forwardFromProxy
  <2> QED BY <1>0, <1>2, <2>2, PayableTyped DEF forwardFromProxy, Paid
<1>3. ASSUME NEW proxy \in Proxies, deployContract(sender, proxy, value) PROVE TypeInv'
  <2>1. RelayTransaction(proxy, Null, 0) \in RelayTransactions
    OBVIOUS
  <2>2. transactionHashes' \in Seq(RelayTransactions)
    BY <1>3, <2>1, QueuedTyped DEF deployContract
  <2> QED BY <1>0, <1>3, <2>2, PayableTyped DEF deployContract, Paid
<1>4. CASE receive(sender, value)
  BY <1>0, <1>4, PayableTyped DEF receive, Paid
<1> QED BY <1>1, <1>2, <1>3, <1>4

\* A confirmed block has at most MaxExits exits, and its supply is a number.
LEMMA ConfirmTyped ==
  ASSUME TypeInv, NEW sender \in Accounts, NEW exits \in SeqOf(Exits, MaxExits),
         NEW n \in Int, putConfirmedBlock(sender, exits, n)
  PROVE  TypeInv'
<1>0. Snapshot \in Worlds
  BY DEF TypeInv
<1>1. exits \in {leaves \in Seq(Leaves) : Len(leaves) =< MaxExits}
  BY BoundAssumption DEF SeqOf, Leaves
<1>2. child' \in [height : 0 .. MaxHeight, included : Nat, supply : Nat]
  BY <1>0 DEF putConfirmedBlock, Heights, Snapshot, Worlds
<1>3. confirmedExitRoots' \in [Heights -> {leaves \in Seq(Leaves) : Len(leaves) =< MaxExits}]
  BY <1>0, <1>1 DEF putConfirmedBlock, Snapshot, Worlds
<1>4. Snapshot' \in Worlds
  BY <1>0, <1>2, <1>3 DEF putConfirmedBlock, Snapshot, Worlds
<1> QED BY <1>4 DEF putConfirmedBlock, TypeInv

\* An execution begins with a proof, and is paid for before it pays its target.
LEMMA ExecuteTyped ==
  ASSUME TypeInv, NEW sender \in Accounts, NEW h \in Heights, NEW i \in 1 .. MaxExits,
         NEW e \in Exits, NEW value \in Nat,
         executeOutgoingTransaction(sender, e, i, h, value)
  PROVE  TypeInv'
<1>0. Snapshot \in Worlds
  BY DEF TypeInv
<1>1. confirmedExitRoots' \in [Heights -> {leaves \in Seq(Leaves) : Len(leaves) =< MaxExits}]
  <2>1. confirmedExitRoots \in [Heights -> {leaves \in Seq(Leaves) : Len(leaves) =< MaxExits}]
    BY <1>0 DEF Snapshot, Worlds
  <2> QED BY <2>1, WithoutExitType
          DEF executeOutgoingTransaction, hasOutgoingTransaction
<1>2. balance' \in Nat
  BY <1>0, ExitAssumption DEF executeOutgoingTransaction, Snapshot, Worlds
<1>3. Snapshot' \in Worlds
  BY <1>0, <1>1, <1>2 DEF executeOutgoingTransaction, Snapshot, Worlds
<1>4. [sender |-> sender, exit |-> e, slot |-> <<h, i>>, paid |-> value,
       saved |-> Snapshot] \in Frames
  BY <1>0 DEF Frames, Slots, executeOutgoingTransaction, hasOutgoingTransaction, Snapshot
<1> QED BY <1>3, <1>4 DEF executeOutgoingTransaction, TypeInv

\* Settling an exit counts one up.
LEMMA SettledTyped ==
  ASSUME TypeInv, NEW s \in Slots, settled' = [settled EXCEPT ![s] = @ + 1]
  PROVE  settled' \in [Slots -> Nat]
BY DEF TypeInv, Snapshot, Worlds

\* However an execution ends, it leaves the relay in a state of its kind.
LEMMA EndTyped ==
  ASSUME TypeInv,
         \/ CallSucceeds
         \/ \E to \in Receivers : SelfCallSucceeds(to)
         \/ CallFails
         \/ TransferReverts
  PROVE  TypeInv'
<1> DEFINE f == Last(calls)
<1>0. Snapshot \in Worlds /\ f \in Frames /\ calls' \in Seq(Frames)
  BY ReturnPops DEF TypeInv, CallSucceeds, SelfCallSucceeds, CallFails, TransferReverts
<1>1. /\ f.saved \in Worlds /\ f.exit \in Exits /\ f.slot \in Slots /\ f.paid \in Nat
      /\ f.slot[2] \in DOMAIN f.saved.roots[f.slot[1]]
  BY <1>0 DEF Frames
<1> HIDE DEF f
<1>2. /\ f.exit.from \in Accounts \cup Proxies
      /\ f.exit.value \in Nat
      /\ f.exit.bounty \in Nat
  BY <1>1, ExitAssumption
<1>3. ASSUME CallSucceeds PROVE Snapshot' \in Worlds
  <2>1. balance' \in Nat
    BY <1>0, <1>2, <1>3 DEF CallSucceeds, Snapshot, Worlds, f
  <2>2. settled' \in [Slots -> Nat]
    BY <1>1, <1>3, SettledTyped DEF CallSucceeds, f
  <2> QED BY <1>0, <1>3, <2>1, <2>2 DEF CallSucceeds, Snapshot, Worlds
<1>4. ASSUME NEW to \in Receivers, SelfCallSucceeds(to) PROVE Snapshot' \in Worlds
  <2>1. RelayTransaction(IF f.exit.from \in deployedContracts THEN f.exit.from ELSE Relay,
                         to, f.exit.value) \in RelayTransactions
    BY <1>2, AddressAssumption DEF RelayTransaction, RelayTransactions
  <2>2. transactionHashes' \in Seq(RelayTransactions)
    BY <1>0, <1>4, <2>1, QueuedTyped DEF SelfCallSucceeds, Snapshot, Worlds, f
  <2>3. balance' \in Nat
    BY <1>0, <1>2, <1>4 DEF SelfCallSucceeds, Snapshot, Worlds, f
  <2>4. settled' \in [Slots -> Nat]
    BY <1>1, <1>4, SettledTyped DEF SelfCallSucceeds, f
  <2> QED BY <1>0, <1>4, <2>2, <2>3, <2>4 DEF SelfCallSucceeds, Snapshot, Worlds
<1>5. ASSUME CallFails PROVE Snapshot' \in Worlds
  <2>1. RelayTransaction(Null, f.exit.from, f.exit.value) \in RelayTransactions
    BY <1>2 DEF RelayTransaction, RelayTransactions
  <2>2. transactionHashes' \in Seq(RelayTransactions)
    BY <1>1, <1>5, <2>1, QueueGrows DEF CallFails, Worlds, f
  <2>3. confirmedExitRoots' \in [Heights -> {leaves \in Seq(Leaves) : Len(leaves) =< MaxExits}]
    <3>1. /\ f.slot[1] \in Heights
          /\ f.saved.roots \in [Heights -> {leaves \in Seq(Leaves) : Len(leaves) =< MaxExits}]
      BY <1>1 DEF Slots, Worlds
    <3>2. confirmedExitRoots' = WithoutExit(f.saved.roots, f.slot[1], f.slot[2])
      BY <1>5 DEF CallFails, f
    <3> QED BY <1>1, <3>1, <3>2, WithoutExitType
  <2>4. balance' \in Nat
    <3>1. f.saved.balance \in Nat
      BY <1>1 DEF Worlds
    <3> QED BY <1>1, <1>2, <1>5, <3>1 DEF CallFails, f
  <2>5. settled' \in [Slots -> Nat]
    BY <1>1, <1>5 DEF CallFails, Worlds, f
  <2>6. deployedContracts' = f.saved.deployed /\ child' = f.saved.child
    BY <1>5 DEF CallFails, f
  <2> QED BY <1>1, <2>2, <2>3, <2>4, <2>5, <2>6 DEF Snapshot, Worlds
<1>6. ASSUME TransferReverts PROVE Snapshot' \in Worlds
  BY <1>1, <1>6 DEF TransferReverts, Snapshot, Worlds, f
<1> QED BY <1>0, <1>3, <1>4, <1>5, <1>6 DEF TypeInv

-----------------------------------------------------------------------------
(* The exits of a state of the relay: those whose executions are open are  *)
(* out of the root but not settled, every other one is out of the root     *)
(* when it is settled, and heights that were not confirmed have none.      *)
Consistent(w, open) ==
  /\ open \subseteq Executed(w.roots)
  /\ \A s \in Slots : w.settled[s] = IF s \in Executed(w.roots) \ open THEN 1 ELSE 0
  /\ \A h \in Heights : h > w.child.height => w.roots[h] = <<>>

(* That has to hold of what a failure brings back, too, with the executions *)
(* that are still open then.                                               *)
ExitsInv ==
  /\ Consistent(Snapshot, Running(Len(calls)))
  /\ \A k \in 1 .. Len(calls) : Consistent(calls[k].saved, Running(k - 1))

\* Taking an exit out of a root executes this one exit.
LEMMA WithoutExitExecutes ==
  ASSUME NEW roots \in [Heights -> Seq(Leaves)], NEW h \in Heights,
         NEW i \in 1 .. MaxExits, i \in DOMAIN roots[h]
  PROVE  Executed(WithoutExit(roots, h, i)) = Executed(roots) \cup {<<h, i>>}
<1>1. \A g \in Heights : DOMAIN WithoutExit(roots, h, i)[g] = DOMAIN roots[g]
  BY WithoutExitType
<1>2. \A g \in Heights : \A j \in DOMAIN roots[g] :
         WithoutExit(roots, h, i)[g][j] = IF g = h /\ j = i THEN Gone ELSE roots[g][j]
  BY WithoutExitType
<1>3. \A s \in Slots : s[1] \in Heights /\ s = <<s[1], s[2]>>
  BY DEF Slots
<1>4. <<h, i>> \in Slots
  BY DEF Slots
<1>5. ASSUME NEW s \in Slots
      PROVE  s \in Executed(WithoutExit(roots, h, i)) <=> s \in Executed(roots) \/ s = <<h, i>>
  BY <1>1, <1>2, <1>3 DEF Executed
<1> QED BY <1>4, <1>5 DEF Executed

\* An execution that ends leaves those below it open.
LEMMA ReturnCloses ==
  ASSUME calls \in Seq(Frames), calls # <<>>, Return
  PROVE  /\ \A k \in 0 .. Len(calls) - 1 : Running(k)' = Running(k)
         /\ Running(Len(calls)) = Running(Len(calls) - 1) \cup {Last(calls).slot}
<1>1. Len(calls) \in Nat \ {0} /\ \A k \in 1 .. Len(calls) - 1 : calls'[k] = calls[k]
  BY ReturnPops
<1>2. \A k \in 0 .. Len(calls) - 1 : Running(k)' = Running(k)
  BY <1>1 DEF Running
<1>3. 1 .. Len(calls) = (1 .. Len(calls) - 1) \cup {Len(calls)}
  BY <1>1
<1> QED BY <1>1, <1>2, <1>3 DEF Running, Last

\* What is below the last execution stays consistent when that one ends.
LEMMA ReturnKeepsExits ==
  ASSUME calls \in Seq(Frames), calls # <<>>, Return, ExitsInv,
         Consistent(Snapshot', Running(Len(calls) - 1))
  PROVE  ExitsInv'
<1>1. /\ Len(calls) \in Nat \ {0} /\ Len(calls') = Len(calls) - 1
      /\ \A k \in 1 .. Len(calls) - 1 : calls'[k] = calls[k]
  BY ReturnPops
<1>2. \A k \in 0 .. Len(calls) - 1 : Running(k)' = Running(k)
  BY ReturnCloses
<1>3. Consistent(Snapshot', Running(Len(calls))')
  <2>1. Running(Len(calls))' = Running(Len(calls) - 1)
    BY <1>1 DEF Running
  <2> QED BY <2>1
<1>4. ASSUME NEW k \in 1 .. Len(calls')
      PROVE  Consistent(calls'[k].saved, Running(k - 1)')
  <2>1. k \in 1 .. Len(calls) /\ k - 1 \in 0 .. Len(calls) - 1 /\ calls'[k] = calls[k]
    BY <1>1
  <2>2. Consistent(calls[k].saved, Running(k - 1))
    BY <2>1 DEF ExitsInv
  <2> QED BY <1>2, <2>1, <2>2
<1> QED BY <1>3, <1>4 DEF ExitsInv, Consistent

\* The exit that a frame executes is the only one an end settles: its slot is
\* executed now, was not when the frame began, and is not open below it.
LEMMA EndKeepsExits ==
  ASSUME TypeInv, ExitsInv,
         \/ CallSucceeds
         \/ \E to \in Receivers : SelfCallSucceeds(to)
         \/ CallFails
         \/ TransferReverts
  PROVE  ExitsInv'
<1> DEFINE f == Last(calls)
           below == Running(Len(calls) - 1)
<1>0. calls \in Seq(Frames) /\ calls # <<>> /\ Return
  BY DEF TypeInv, CallSucceeds, SelfCallSucceeds, CallFails, TransferReverts
<1>1. /\ f \in Frames /\ Len(calls) \in Nat \ {0} /\ f = calls[Len(calls)]
      /\ Running(Len(calls)) = below \cup {f.slot}
  BY <1>0, ReturnPops, ReturnCloses DEF Last
<1>2. /\ Consistent(f.saved, below)
      /\ Consistent(Snapshot, below \cup {f.slot})
  BY <1>1 DEF ExitsInv
<1>3. /\ f.slot \in Slots /\ f.saved \in Worlds /\ f.exit \in Exits
      /\ f.slot[2] \in DOMAIN f.saved.roots[f.slot[1]]
      /\ f.slot \notin Executed(f.saved.roots)
  BY <1>1, AddressAssumption DEF Frames, Executed
<1>4. f.slot \notin below
  BY <1>2, <1>3 DEF Consistent
<1>5. Snapshot \in Worlds
  BY DEF TypeInv
<1> HIDE DEF f, below
<1>6. ASSUME settled' = [settled EXCEPT ![f.slot] = @ + 1],
             UNCHANGED <<confirmedExitRoots, child>>
      PROVE  Consistent(Snapshot', below)
  <2>1. settled \in [Slots -> Nat]
    BY <1>5 DEF Snapshot, Worlds
  <2>2. settled[f.slot] = 0 /\ f.slot \in Executed(confirmedExitRoots)
    BY <1>2, <1>3 DEF Consistent, Snapshot
  <2>3. \A s \in Slots :
           settled'[s] = IF s \in Executed(confirmedExitRoots) \ below THEN 1 ELSE 0
    BY <1>2, <1>3, <1>4, <1>6, <2>1, <2>2 DEF Consistent, Snapshot
  <2> QED BY <1>2, <1>6, <2>3 DEF Consistent, Snapshot
<1>7. CASE CallSucceeds \/ \E to \in Receivers : SelfCallSucceeds(to)
  BY <1>6, <1>7, <1>0, ReturnKeepsExits DEF CallSucceeds, SelfCallSucceeds, f, below
<1>8. CASE CallFails
  <2>1. /\ confirmedExitRoots' = WithoutExit(f.saved.roots, f.slot[1], f.slot[2])
        /\ settled' = [f.saved.settled EXCEPT ![f.slot] = @ + 1]
        /\ child' = f.saved.child
    BY <1>8 DEF CallFails, f
  <2>2. /\ f.slot[1] \in Heights /\ f.slot[2] \in 1 .. MaxExits
        /\ f.slot = <<f.slot[1], f.slot[2]>>
        /\ f.saved.roots \in [Heights -> Seq(Leaves)]
        /\ f.saved.settled \in [Slots -> Nat]
    BY <1>3 DEF Slots, Worlds
  <2>3. Executed(confirmedExitRoots') = Executed(f.saved.roots) \cup {f.slot}
    <3>1. Executed(WithoutExit(f.saved.roots, f.slot[1], f.slot[2]))
            = Executed(f.saved.roots) \cup {<<f.slot[1], f.slot[2]>>}
      BY <1>3, <2>2, WithoutExitExecutes
    <3> QED BY <2>1, <2>2, <3>1
  <2>4. f.saved.settled[f.slot] = 0
    BY <1>2, <1>3 DEF Consistent
  <2>5. \A s \in Slots :
           settled'[s] = IF s \in Executed(confirmedExitRoots') \ below THEN 1 ELSE 0
    BY <1>2, <1>3, <1>4, <2>1, <2>2, <2>3, <2>4 DEF Consistent
  <2>6. \A h \in Heights : h > child'.height => confirmedExitRoots'[h] = <<>>
    <3> SUFFICES ASSUME NEW h \in Heights, h > child'.height
                 PROVE  confirmedExitRoots'[h] = <<>>
      OBVIOUS
    <3>1. f.saved.roots[h] = <<>>
      BY <1>2, <2>1 DEF Consistent
    <3>2. h # f.slot[1]
      BY <1>3, <3>1
    <3> QED BY <2>1, <2>2, <3>1, <3>2 DEF WithoutExit
  <2>7. Consistent(Snapshot', below)
    BY <1>2, <2>3, <2>5, <2>6 DEF Consistent, Snapshot
  <2> QED BY <1>0, <2>7, ReturnKeepsExits DEF below
<1>9. CASE TransferReverts
  <2>1. Consistent(Snapshot', below)
    BY <1>2, <1>9 DEF TransferReverts, Consistent, Snapshot, f
  <2> QED BY <1>0, <2>1, ReturnKeepsExits DEF below
<1> QED BY <1>7, <1>8, <1>9

\* A new execution opens the exit it takes out of the root.
LEMMA ExecuteKeepsExits ==
  ASSUME TypeInv, ExitsInv, NEW sender \in Accounts, NEW h \in Heights,
         NEW i \in 1 .. MaxExits, NEW e \in Exits, NEW value \in Nat,
         executeOutgoingTransaction(sender, e, i, h, value)
  PROVE  ExitsInv'
<1> DEFINE n == Len(calls)
<1>1. n \in Nat /\ calls \in Seq(Frames) /\ confirmedExitRoots \in [Heights -> Seq(Leaves)]
  BY DEF TypeInv, Snapshot, Worlds
<1>2. /\ Len(calls') = n + 1
      /\ \A k \in 1 .. n : calls'[k] = calls[k]
      /\ calls'[n + 1].slot = <<h, i>>
      /\ calls'[n + 1].saved = Snapshot
  BY <1>1 DEF executeOutgoingTransaction
<1>3. \A k \in 0 .. n : Running(k)' = Running(k)
  BY <1>1, <1>2 DEF Running
<1>4. Running(Len(calls))' = Running(n) \cup {<<h, i>>}
  <2>1. 1 .. n + 1 = (1 .. n) \cup {n + 1}
    BY <1>1
  <2> QED BY <1>1, <1>2, <2>1 DEF Running
<1>5. Consistent(Snapshot, Running(n))
  BY DEF ExitsInv
<1>6. /\ confirmedExitRoots' = WithoutExit(confirmedExitRoots, h, i)
      /\ i \in DOMAIN confirmedExitRoots[h]
      /\ UNCHANGED <<child, settled>>
  BY DEF executeOutgoingTransaction, hasOutgoingTransaction
<1>7. <<h, i>> \in Slots /\ <<h, i>> \notin Executed(confirmedExitRoots)
  BY AddressAssumption DEF executeOutgoingTransaction, hasOutgoingTransaction, Executed, Slots
<1>8. Executed(confirmedExitRoots') = Executed(confirmedExitRoots) \cup {<<h, i>>}
  BY <1>1, <1>6, WithoutExitExecutes
<1>9. \A g \in Heights : g > child'.height => confirmedExitRoots'[g] = <<>>
  <2> SUFFICES ASSUME NEW g \in Heights, g > child.height
               PROVE  confirmedExitRoots'[g] = <<>>
    BY <1>6
  <2>1. confirmedExitRoots[g] = <<>>
    BY <1>5 DEF Consistent, Snapshot
  <2>2. g # h
    BY <1>6, <2>1
  <2> QED BY <1>1, <1>6, <2>1, <2>2 DEF WithoutExit
<1>10. Consistent(Snapshot', Running(n) \cup {<<h, i>>})
  BY <1>5, <1>6, <1>7, <1>8, <1>9 DEF Consistent, Snapshot
<1>11. ASSUME NEW k \in 1 .. n + 1
       PROVE  Consistent(calls'[k].saved, Running(k - 1)')
  <2>1. CASE k = n + 1
    <3>1. Running(k - 1)' = Running(n)
      BY <1>1, <1>3, <2>1
    <3> QED BY <1>2, <1>5, <2>1, <3>1
  <2>2. CASE k \in 1 .. n
    <3>1. Running(k - 1)' = Running(k - 1) /\ calls'[k] = calls[k]
      BY <1>1, <1>2, <1>3, <2>2
    <3>2. Consistent(calls[k].saved, Running(k - 1))
      BY <2>2 DEF ExitsInv
    <3> QED BY <3>1, <3>2
  <2> QED BY <1>1, <2>1, <2>2
<1> QED BY <1>2, <1>4, <1>10, <1>11 DEF ExitsInv, Consistent

\* A block is confirmed at a height that has no exits yet, and its own are
\* all to be executed.
LEMMA ConfirmKeepsExits ==
  ASSUME TypeInv, ExitsInv, NEW sender \in Accounts,
         NEW exits \in SeqOf(Exits, MaxExits), NEW n \in Int,
         putConfirmedBlock(sender, exits, n)
  PROVE  ExitsInv'
<1> DEFINE height == child.height + 1
           open == Running(Len(calls))
<1>1. /\ confirmedExitRoots \in [Heights -> Seq(Leaves)]
      /\ child.height \in Nat
  BY DEF TypeInv, Snapshot, Worlds
<1>2. /\ height \in Heights
      /\ confirmedExitRoots' = [confirmedExitRoots EXCEPT ![height] = exits]
      /\ child'.height = height
      /\ UNCHANGED <<settled, calls>>
  BY DEF putConfirmedBlock
<1>3. Consistent(Snapshot, open)
  BY DEF ExitsInv
<1>4. confirmedExitRoots[height] = <<>>
  BY <1>1, <1>2, <1>3 DEF Consistent, Snapshot
<1>5. \A j \in DOMAIN exits : exits[j] # Gone
  BY AddressAssumption, BoundAssumption DEF SeqOf
<1>6. ASSUME NEW s \in Slots
      PROVE  s \in Executed(confirmedExitRoots') <=> s \in Executed(confirmedExitRoots)
  <2>1. s[1] \in Heights
    BY DEF Slots
  <2>2. CASE s[1] = height
    BY <1>1, <1>2, <1>4, <1>5, <2>2 DEF Executed
  <2>3. CASE s[1] # height
    BY <1>1, <1>2, <2>1, <2>3 DEF Executed
  <2> QED BY <2>2, <2>3
<1>7. Executed(confirmedExitRoots') = Executed(confirmedExitRoots)
  BY <1>6 DEF Executed
<1>8. \A g \in Heights : g > child'.height => confirmedExitRoots'[g] = <<>>
  <2> SUFFICES ASSUME NEW g \in Heights, g > child'.height
               PROVE  confirmedExitRoots'[g] = <<>>
    OBVIOUS
  <2>1. g > child.height /\ g # height
    BY <1>1, <1>2 DEF Heights
  <2> QED BY <1>1, <1>2, <1>3, <2>1 DEF Consistent, Snapshot
<1>9. Consistent(Snapshot', open)
  BY <1>2, <1>3, <1>7, <1>8 DEF Consistent, Snapshot
<1>10. calls' = calls /\ \A k : Running(k)' = Running(k)
  BY <1>2 DEF Running
<1>11. Running(Len(calls))' = open
  BY <1>10 DEF Running
<1>12. \A k \in 1 .. Len(calls') : Consistent(calls'[k].saved, Running(k - 1)')
  BY <1>10 DEF ExitsInv
<1> QED BY <1>9, <1>11, <1>12 DEF ExitsInv, Consistent

\* Calls that touch neither a root nor an execution.
LEMMA OthersKeepExits ==
  ASSUME ExitsInv, UNCHANGED <<confirmedExitRoots, child, settled, calls>>
  PROVE  ExitsInv'
BY DEF ExitsInv, Running, Consistent, Snapshot

\* No exit is there at first.
LEMMA InitExits == Init => ExitsInv
<1> SUFFICES ASSUME Init PROVE ExitsInv
  OBVIOUS
<1>1. Len(calls) = 0 /\ 1 .. Len(calls) = {}
  BY DEF Init
<1>2. Running(Len(calls)) = {}
  BY <1>1 DEF Running
<1>3. \A h \in Heights : confirmedExitRoots[h] = <<>>
  BY DEF Init
<1>4. Executed(confirmedExitRoots) = {}
  BY <1>3 DEF Executed, Slots
<1>5. \A s \in Slots : settled[s] = 0
  BY DEF Init
<1> QED BY <1>1, <1>2, <1>3, <1>4, <1>5 DEF ExitsInv, Consistent, Snapshot

-----------------------------------------------------------------------------
(* Every state of the relay, those that a failure would bring back too,    *)
(* extends the queue of before the transaction, and its rollup chain has   *)
(* included nothing beyond it.                                             *)
Extends(w, queue) ==
  w.child.included =< Len(queue) /\ IsPrefix(queue, w.queue)

QueueInv ==
  /\ Extends(Snapshot, CommittedQueue)
  /\ \A k \in 1 .. Len(calls) : Extends(calls[k].saved, CommittedQueue)

FinalStep ==
  /\ IsPrefix(SubSeq(transactionHashes, 1, child'.included), transactionHashes')
  /\ IsPrefix(CommittedQueue, CommittedQueue')

\* A prefix is a shorter sequence with the same elements.
LEMMA PrefixByIndex ==
  ASSUME NEW s \in Seq(RelayTransactions), NEW t \in Seq(RelayTransactions)
  PROVE  IsPrefix(s, t) <=> Len(s) =< Len(t) /\ \A i \in 1 .. Len(s) : s[i] = t[i]
<1>1. SubSeq(s, 1, Len(s)) = s
  OBVIOUS
<1>2. ASSUME Len(s) =< Len(t), \A i \in 1 .. Len(s) : s[i] = t[i]
      PROVE  SubSeq(t, 1, Len(s)) = s
  BY <1>2
<1>3. ASSUME Len(s) =< Len(t), SubSeq(t, 1, Len(s)) = s
      PROVE  \A i \in 1 .. Len(s) : s[i] = t[i]
  <2>1. \A i \in 1 .. Len(s) : SubSeq(t, 1, Len(s))[i] = t[i]
    BY <1>3
  <2> QED BY <1>3, <2>1
<1> QED BY <1>1, <1>2, <1>3 DEF IsPrefix

\* Every queue extends itself.
LEMMA PrefixSelf ==
  ASSUME NEW s \in Seq(RelayTransactions) PROVE IsPrefix(s, s)
BY PrefixByIndex

\* What a queue extends it extends with one more transaction.
LEMMA PrefixGrows ==
  ASSUME NEW s \in Seq(RelayTransactions), NEW t \in Seq(RelayTransactions),
         NEW tx \in RelayTransactions, IsPrefix(s, t)
  PROVE  IsPrefix(s, Append(t, tx))
<1>1. Append(t, tx) \in Seq(RelayTransactions) /\ Len(Append(t, tx)) = Len(t) + 1
  BY QueueGrows
<1>2. \A i \in 1 .. Len(t) : Append(t, tx)[i] = t[i]
  OBVIOUS
<1>3. Len(s) =< Len(t) /\ \A i \in 1 .. Len(s) : s[i] = t[i]
  BY PrefixByIndex
<1> DEFINE grown == Append(t, tx)
<1>4. Len(s) =< Len(grown) /\ \A i \in 1 .. Len(s) : s[i] = grown[i]
  BY <1>1, <1>2, <1>3
<1> HIDE DEF grown
<1>5. IsPrefix(s, grown)
  BY <1>1, <1>4, PrefixByIndex DEF grown
<1> QED BY <1>5 DEF grown

\* Two queues with a common prefix agree on each shorter one.
LEMMA PrefixShared ==
  ASSUME NEW s \in Seq(RelayTransactions), NEW t \in Seq(RelayTransactions),
         NEW u \in Seq(RelayTransactions), IsPrefix(s, t), IsPrefix(s, u),
         NEW n \in Nat, n =< Len(s)
  PROVE  IsPrefix(SubSeq(t, 1, n), u)
<1>1. /\ Len(s) =< Len(t) /\ \A i \in 1 .. Len(s) : s[i] = t[i]
      /\ Len(s) =< Len(u) /\ \A i \in 1 .. Len(s) : s[i] = u[i]
  BY PrefixByIndex
<1>2. /\ SubSeq(t, 1, n) \in Seq(RelayTransactions)
      /\ Len(SubSeq(t, 1, n)) = n
      /\ \A i \in 1 .. n : SubSeq(t, 1, n)[i] = t[i]
  BY <1>1
<1> DEFINE short == SubSeq(t, 1, n)
<1>3. short \in Seq(RelayTransactions) /\ Len(short) =< Len(u)
      /\ \A i \in 1 .. Len(short) : short[i] = u[i]
  BY <1>1, <1>2
<1> HIDE DEF short
<1>4. IsPrefix(short, u)
  BY <1>3, PrefixByIndex
<1> QED BY <1>4 DEF short

\* What the rollup chain can read of the queue is a queue.
LEMMA CommittedTyped ==
  ASSUME TypeInv PROVE CommittedQueue \in Seq(RelayTransactions)
<1>1. calls # <<>> => calls[1] \in Frames
  BY DEF TypeInv
<1> QED BY <1>1 DEF TypeInv, CommittedQueue, Snapshot, Worlds, Frames

\* The shape that every step has: executions stay, one ends or one begins,
\* and the queue keeps what was committed.
LEMMA QueueStep ==
  ASSUME TypeInv, TypeInv', QueueInv,
         IsPrefix(CommittedQueue, transactionHashes'),
         child'.included =< Len(CommittedQueue),
         \/ UNCHANGED calls
         \/ calls # <<>> /\ Return
         \/ /\ \E f \in Frames : f.saved = Snapshot /\ calls' = Append(calls, f)
            /\ UNCHANGED transactionHashes
  PROVE  QueueInv' /\ FinalStep
<1> DEFINE C == CommittedQueue
<1>1. /\ C \in Seq(RelayTransactions)
      /\ transactionHashes \in Seq(RelayTransactions)
      /\ transactionHashes' \in Seq(RelayTransactions)
      /\ child'.included \in Nat
      /\ calls \in Seq(Frames) /\ calls' \in Seq(Frames)
  BY CommittedTyped DEF TypeInv, Snapshot, Worlds
<1>2. Extends(Snapshot, C) /\ IsPrefix(C, transactionHashes)
  BY DEF QueueInv, Extends, Snapshot
<1>3. /\ calls' = <<>> => C' = transactionHashes'
      /\ calls' # <<>> => C' = C
      /\ \A k \in 1 .. Len(calls') : Extends(calls'[k].saved, C)
  <2>1. CASE UNCHANGED calls
    BY <2>1 DEF CommittedQueue, QueueInv
  <2>2. CASE calls # <<>> /\ Return
    <3>1. /\ Len(calls) \in Nat \ {0} /\ Len(calls') = Len(calls) - 1
          /\ \A k \in 1 .. Len(calls) - 1 : calls'[k] = calls[k]
      BY <1>1, <2>2, ReturnPops
    <3>2. \A k \in 1 .. Len(calls') : k \in 1 .. Len(calls) /\ calls'[k] = calls[k]
      BY <3>1
    <3>3. calls' # <<>> => 1 \in 1 .. Len(calls')
      BY <1>1
    <3> QED BY <2>2, <3>2, <3>3 DEF CommittedQueue, QueueInv
  <2>3. ASSUME NEW f \in Frames, f.saved = Snapshot, calls' = Append(calls, f),
               UNCHANGED transactionHashes
        PROVE  /\ calls' # <<>> /\ C' = C
               /\ \A k \in 1 .. Len(calls') : Extends(calls'[k].saved, C)
    <3>1. /\ Len(calls) \in Nat /\ Len(calls') = Len(calls) + 1
          /\ \A k \in 1 .. Len(calls) : calls'[k] = calls[k]
          /\ calls'[Len(calls) + 1] = f
      BY <1>1, <2>3
    <3>2. calls' # <<>>
      BY <3>1
    <3>3. C' = C
      <4>1. CASE calls = <<>>
        <5>1. calls'[1] = f
          BY <3>1, <4>1
        <5> QED BY <2>3, <3>2, <4>1, <5>1 DEF CommittedQueue, Snapshot
      <4>2. CASE calls # <<>>
        <5>1. calls'[1] = calls[1]
          BY <1>1, <3>1, <4>2
        <5> QED BY <3>2, <4>2, <5>1 DEF CommittedQueue
      <4> QED BY <4>1, <4>2
    <3>4. \A k \in 1 .. Len(calls') : k \in 1 .. Len(calls) \/ k = Len(calls) + 1
      BY <3>1
    <3> QED BY <1>2, <2>3, <3>1, <3>2, <3>3, <3>4 DEF QueueInv
  <2> QED BY <2>1, <2>2, <2>3
<1>4. IsPrefix(C, C')
  BY <1>1, <1>3, PrefixSelf
<1>5. IsPrefix(SubSeq(transactionHashes, 1, child'.included), transactionHashes')
  BY <1>1, <1>2, PrefixShared
<1>6. Extends(Snapshot', C')
  <2>1. CASE calls' = <<>>
    <3>1. child'.included =< Len(transactionHashes')
      BY <1>1, PrefixByIndex
    <3> QED BY <1>1, <1>3, <2>1, <3>1, PrefixSelf DEF Extends, Snapshot
  <2>2. CASE calls' # <<>>
    BY <1>3, <2>2 DEF Extends, Snapshot
  <2> QED BY <2>1, <2>2
<1>7. \A k \in 1 .. Len(calls') : Extends(calls'[k].saved, C')
  <2> SUFFICES ASSUME NEW k \in 1 .. Len(calls')
               PROVE  calls' # <<>>
    BY <1>3
  <2> QED BY <1>1
<1> QED BY <1>4, <1>5, <1>6, <1>7 DEF QueueInv, FinalStep, Extends

(* The calls that let no other code run.                                   *)
Call ==
  \E sender \in Accounts, value \in 0 .. MaxPayment :
     \/ \E to \in Receivers : addTransaction(sender, to, value)
     \/ \E proxy \in Proxies : \/ forwardFromProxy(sender, proxy, value)
                               \/ deployContract(sender, proxy, value)
     \/ receive(sender, value)

Confirm ==
  \E sender \in Accounts, exits \in SeqOf(Exits, MaxExits), n \in 0 .. MaxQueue :
     putConfirmedBlock(sender, exits, n)

Execute ==
  \E sender \in Accounts, h \in Heights, i \in 1 .. MaxExits, e \in Exits,
     value \in 0 .. MaxPayment : executeOutgoingTransaction(sender, e, i, h, value)

End ==
  \/ CallSucceeds
  \/ \E to \in Receivers : SelfCallSucceeds(to)
  \/ CallFails
  \/ TransferReverts

\* The steps fall into four kinds.
LEMMA StepCases == [Next]_vars <=> Call \/ Confirm \/ Execute \/ End \/ UNCHANGED vars
BY DEF Next, Call, Confirm, Execute, End

\* The type invariant is inductive.
LEMMA TypeStep == TypeInv /\ [Next]_vars => TypeInv'
<1> SUFFICES ASSUME TypeInv, [Next]_vars PROVE TypeInv'
  OBVIOUS
<1>1. CASE Call
  BY <1>1, CallsTyped DEF Call
<1>2. CASE Confirm
  BY <1>2, ConfirmTyped DEF Confirm
<1>3. CASE Execute
  BY <1>3, ExecuteTyped DEF Execute
<1>4. CASE End
  BY <1>4, EndTyped DEF End
<1>5. CASE UNCHANGED vars
  BY <1>5 DEF TypeInv, Snapshot, vars, world
<1> QED BY <1>1, <1>2, <1>3, <1>4, <1>5, StepCases

\* The invariant of the exits is inductive, relative to the types.
LEMMA ExitsStep == TypeInv /\ ExitsInv /\ [Next]_vars => ExitsInv'
<1> SUFFICES ASSUME TypeInv, ExitsInv, [Next]_vars PROVE ExitsInv'
  OBVIOUS
<1>1. CASE Call
  <2>1. UNCHANGED <<confirmedExitRoots, child, settled, calls>>
    BY <1>1 DEF Call, addTransaction, forwardFromProxy, deployContract, receive
  <2> QED BY <2>1, OthersKeepExits
<1>2. CASE Confirm
  BY <1>2, ConfirmKeepsExits DEF Confirm
<1>3. CASE Execute
  BY <1>3, ExecuteKeepsExits DEF Execute
<1>4. CASE End
  BY <1>4, EndKeepsExits DEF End
<1>5. CASE UNCHANGED vars
  BY <1>5, OthersKeepExits DEF vars, world
<1> QED BY <1>1, <1>2, <1>3, <1>4, <1>5, StepCases

\* The calls that queue something queue it at the end of a queue that
\* extends the committed one.
LEMMA CallQueues ==
  ASSUME TypeInv, QueueInv, Call
  PROVE  /\ IsPrefix(CommittedQueue, transactionHashes')
         /\ UNCHANGED <<child, calls>>
<1>1. transactionHashes \in Seq(RelayTransactions) /\ CommittedQueue \in Seq(RelayTransactions)
  BY CommittedTyped DEF TypeInv, Snapshot, Worlds
<1>2. IsPrefix(CommittedQueue, transactionHashes)
  BY DEF QueueInv, Extends, Snapshot
<1>3. PICK sender \in Accounts, value \in 0 .. MaxPayment :
         \/ \E to \in Receivers : addTransaction(sender, to, value)
         \/ \E proxy \in Proxies : \/ forwardFromProxy(sender, proxy, value)
                                   \/ deployContract(sender, proxy, value)
         \/ receive(sender, value)
  BY DEF Call
<1>4. \/ UNCHANGED transactionHashes
      \/ \E tx \in RelayTransactions : transactionHashes' = Append(transactionHashes, tx)
  <2>1. ASSUME NEW to \in Receivers, addTransaction(sender, to, value)
        PROVE  \E tx \in RelayTransactions : transactionHashes' = Append(transactionHashes, tx)
    <3>1. RelayTransaction(sender, to, value) \in RelayTransactions
      BY AddressAssumption DEF RelayTransaction, RelayTransactions
    <3> QED BY <2>1, <3>1 DEF addTransaction, _addTransaction
  <2>2. ASSUME NEW proxy \in Proxies, forwardFromProxy(sender, proxy, value)
        PROVE  \E tx \in RelayTransactions : transactionHashes' = Append(transactionHashes, tx)
    <3>1. RelayTransaction(sender, proxy, value) \in RelayTransactions
      BY DEF RelayTransaction, RelayTransactions
    <3> QED BY <2>2, <3>1 DEF forwardFromProxy, _addTransaction
  <2>3. ASSUME NEW proxy \in Proxies, deployContract(sender, proxy, value)
        PROVE  \E tx \in RelayTransactions : transactionHashes' = Append(transactionHashes, tx)
    <3>1. RelayTransaction(proxy, Null, 0) \in RelayTransactions
      BY DEF RelayTransaction, RelayTransactions
    <3> QED BY <2>3, <3>1 DEF deployContract, _addTransaction
  <2> QED BY <1>3, <2>1, <2>2, <2>3 DEF receive
<1>5. UNCHANGED <<child, calls>>
  BY <1>3 DEF addTransaction, forwardFromProxy, deployContract, receive
<1> QED BY <1>1, <1>2, <1>4, <1>5, PrefixGrows

\* An execution that ends leaves the queue of one of two states, and may
\* queue one more transaction.
LEMMA EndQueues ==
  ASSUME TypeInv, QueueInv, End
  PROVE  /\ IsPrefix(CommittedQueue, transactionHashes')
         /\ child'.included =< Len(CommittedQueue)
         /\ calls # <<>> /\ Return
<1> DEFINE f == Last(calls)
           C == CommittedQueue
<1>0. calls # <<>> /\ Return
  BY DEF End, CallSucceeds, SelfCallSucceeds, CallFails, TransferReverts
<1>1. /\ f \in Frames /\ Len(calls) \in Nat \ {0} /\ f = calls[Len(calls)]
      /\ transactionHashes \in Seq(RelayTransactions) /\ C \in Seq(RelayTransactions)
  BY <1>0, ReturnPops, CommittedTyped DEF TypeInv, Last, Snapshot, Worlds
<1>2. Extends(f.saved, C) /\ Extends(Snapshot, C)
  BY <1>1 DEF QueueInv
<1>3. /\ f.saved.queue \in Seq(RelayTransactions)
      /\ f.exit.from \in Accounts \cup Proxies /\ f.exit.value \in Nat
  BY <1>1, ExitAssumption DEF Frames, Worlds
<1> HIDE DEF f, C
<1>4. /\ IsPrefix(C, transactionHashes) /\ child.included =< Len(C)
      /\ IsPrefix(C, f.saved.queue) /\ f.saved.child.included =< Len(C)
  BY <1>2 DEF Extends, Snapshot
<1>5. CASE CallSucceeds
  BY <1>0, <1>4, <1>5 DEF CallSucceeds, C
<1>6. ASSUME NEW to \in Receivers, SelfCallSucceeds(to)
      PROVE  IsPrefix(C, transactionHashes') /\ child'.included =< Len(C)
  <2>1. RelayTransaction(IF f.exit.from \in deployedContracts THEN f.exit.from ELSE Relay,
                         to, f.exit.value) \in RelayTransactions
    BY <1>3, AddressAssumption DEF RelayTransaction, RelayTransactions
  <2>2. \/ UNCHANGED transactionHashes
        \/ transactionHashes' = Append(transactionHashes, RelayTransaction(
              IF f.exit.from \in deployedContracts THEN f.exit.from ELSE Relay,
              to, f.exit.value))
    BY <1>6 DEF SelfCallSucceeds, _addTransaction, f
  <2> QED BY <1>1, <1>4, <1>6, <2>1, <2>2, PrefixGrows DEF SelfCallSucceeds
<1>7. CASE CallFails
  <2>1. RelayTransaction(Null, f.exit.from, f.exit.value) \in RelayTransactions
    BY <1>3 DEF RelayTransaction, RelayTransactions
  <2>2. transactionHashes' = Append(f.saved.queue,
                                    RelayTransaction(Null, f.exit.from, f.exit.value))
        /\ child' = f.saved.child
    BY <1>7 DEF CallFails, f
  <2> QED BY <1>0, <1>1, <1>3, <1>4, <2>1, <2>2, PrefixGrows DEF C
<1>8. CASE TransferReverts
  <2>1. transactionHashes' = f.saved.queue /\ child' = f.saved.child
    BY <1>8 DEF TransferReverts, f
  <2> QED BY <1>0, <1>4, <2>1 DEF C
<1> QED BY <1>0, <1>5, <1>6, <1>7, <1>8 DEF End, C

\* Every step keeps the invariant of the queue, and what is final in it.
LEMMA QueueNext == TypeInv /\ TypeInv' /\ QueueInv /\ Next => QueueInv' /\ FinalStep
<1> SUFFICES ASSUME TypeInv, TypeInv', QueueInv, Next PROVE QueueInv' /\ FinalStep
  OBVIOUS
<1>0. IsPrefix(CommittedQueue, transactionHashes) /\ child.included =< Len(CommittedQueue)
  BY DEF QueueInv, Extends, Snapshot
<1>1. CASE Call
  BY <1>0, <1>1, CallQueues, QueueStep
<1>2. CASE Confirm
  <2>1. /\ UNCHANGED <<transactionHashes, calls>>
        /\ child'.included =< Len(CommittedQueue)
    BY <1>2 DEF Confirm, putConfirmedBlock
  <2> QED BY <1>0, <2>1, QueueStep
<1>3. CASE Execute
  <2>1. \E f \in Frames : f.saved = Snapshot /\ calls' = Append(calls, f)
    <3>1. PICK f : f.saved = Snapshot /\ calls' = Append(calls, f)
      BY <1>3 DEF Execute, executeOutgoingTransaction
    <3>2. calls \in Seq(Frames) /\ calls' \in Seq(Frames)
      BY DEF TypeInv
    <3>3. f = calls'[Len(calls) + 1] /\ Len(calls') = Len(calls) + 1
      BY <3>1, <3>2
    <3>4. f \in Frames
      BY <3>2, <3>3
    <3> QED BY <3>1, <3>4
  <2>2. UNCHANGED <<transactionHashes, child>>
    BY <1>3 DEF Execute, executeOutgoingTransaction
  <2> QED BY <1>0, <2>1, <2>2, QueueStep
<1>4. CASE End
  BY <1>4, EndQueues, QueueStep
<1> QED BY <1>1, <1>2, <1>3, <1>4 DEF Next, Call, Confirm, Execute, End

\* A stutter keeps the invariant of the queue.
LEMMA QueueStutters == QueueInv /\ UNCHANGED vars => QueueInv'
BY DEF QueueInv, Extends, Snapshot, CommittedQueue, vars, world

\* At first the queue is committed as a whole.
LEMMA InitQueue == Init => QueueInv
<1> SUFFICES ASSUME Init PROVE QueueInv
  OBVIOUS
<1>1. transactionHashes \in Seq(RelayTransactions)
  BY InitTyped DEF TypeInv, Snapshot, Worlds
<1>2. calls = <<>> /\ CommittedQueue = transactionHashes /\ child.included = 0
  BY DEF Init, CommittedQueue
<1> QED BY <1>1, <1>2, PrefixSelf DEF QueueInv, Extends, Snapshot

-----------------------------------------------------------------------------
RelayInv == TypeInv /\ ExitsInv /\ QueueInv

\* The three invariants hold together in every behaviour.
LEMMA Invariance == Spec => []RelayInv
<1>1. Init => RelayInv
  BY InitTyped, InitExits, InitQueue DEF RelayInv
<1>2. RelayInv /\ [Next]_vars => RelayInv'
  <2> SUFFICES ASSUME RelayInv, [Next]_vars PROVE RelayInv'
    OBVIOUS
  <2>1. TypeInv' /\ ExitsInv'
    BY TypeStep, ExitsStep DEF RelayInv
  <2>2. QueueInv'
    BY <2>1, QueueNext, QueueStutters DEF RelayInv
  <2> QED BY <2>1, <2>2 DEF RelayInv
<1> QED BY <1>1, <1>2, PTL DEF Spec

\* The variables keep their types: no balance becomes negative, no root
\* outgrows its block, and the rollup chain includes no more than is queued.
THEOREM TypeCorrect == Spec => []TypeOK
<1>1. RelayInv => TypeOK
  <2> SUFFICES ASSUME RelayInv PROVE TypeOK
    OBVIOUS
  <2>1. /\ Snapshot \in Worlds /\ CommittedQueue \in Seq(RelayTransactions)
        /\ Extends(Snapshot, CommittedQueue)
    BY CommittedTyped DEF RelayInv, TypeInv, QueueInv
  <2>2. transactionHashes \in Seq(RelayTransactions)
    BY <2>1 DEF Snapshot, Worlds
  <2>3. child.included =< Len(transactionHashes)
    <3>1. Len(CommittedQueue) =< Len(transactionHashes)
      BY <2>1, <2>2, PrefixByIndex DEF Extends, Snapshot
    <3>2. child.included \in Nat /\ child.included =< Len(CommittedQueue)
      BY <2>1 DEF Extends, Snapshot, Worlds
    <3> QED BY <2>1, <2>2, <3>1, <3>2
  <2>4. child \in [height : 0 .. MaxHeight, included : 0 .. Len(transactionHashes), supply : Nat]
    BY <2>1, <2>2, <2>3 DEF Snapshot, Worlds
  <2> QED BY <2>1, <2>4 DEF TypeOK, Snapshot, Worlds
<1> QED BY <1>1, Invariance, PTL

\* Every exit is settled at most once, and exactly when it has left the root
\* and its execution has ended: executeOutgoingTransaction takes it out of
\* the root before the call, and a failure brings both back together.
THEOREM ExitsSettleOnce == Spec => []SettledOnce
<1>1. RelayInv => SettledOnce
  BY DEF RelayInv, ExitsInv, Consistent, Snapshot, SettledOnce
<1> QED BY <1>1, Invariance, PTL

\* No step changes the part of the queue that the rollup chain has included
\* or could read before the transaction began.
THEOREM IncludedStays == Spec => IncludedIsFinal
<1>1. RelayInv /\ RelayInv' /\ [Next]_vars => [FinalStep]_vars
  BY QueueNext DEF RelayInv
<1>2. [FinalStep]_vars =>
        [/\ IsPrefix(SubSeq(transactionHashes, 1, child'.included), transactionHashes')
         /\ IsPrefix(CommittedQueue, CommittedQueue')]_vars
  BY DEF FinalStep
<1> QED BY <1>1, <1>2, Invariance, PTL DEF Spec, IncludedIsFinal

-----------------------------------------------------------------------------
(* The order by which the lemmas on sums look for a least counterexample.  *)
Before == OpToRel(<, Nat)

\* A set of numbers that is not empty has a least one.
LEMMA Least ==
  ASSUME NEW T \in SUBSET Nat, T # {}
  PROVE  \E m \in T : \A n \in T : m <= n
<1>1. IsWellFoundedOn(Before, Nat)
  BY NatLessThanWellFounded DEF Before
<1>2. \A m, n \in Nat : m < n => <<m, n>> \in Before
  BY DEF Before, OpToRel
<1>3. \E m \in T : \A n \in T : ~ (<<n, m>> \in Before)
  BY <1>1, WFMin
<1>4. \A m, n \in T : ~ (n < m) => m <= n
  OBVIOUS
<1>. QED
  BY <1>2, <1>3, <1>4

(* F holds the sums of the first elements of v, up to k of them.           *)
IsSums(F, v, k) ==
   /\ F \in [0 .. k -> Int]
   /\ F[0] = 0
   /\ \A n \in 1 .. k : F[n] = F[n - 1] + v[n]

\* A sequence of numbers has sums: their least missing one would follow one
\* that is there.
LEMMA SumsExist ==
  ASSUME NEW v \in Seq(Int), NEW k \in 0 .. Len(v)
  PROVE  \E F : IsSums(F, v, k)
<1>. DEFINE Bad == {n \in 0 .. Len(v) : ~ \E F : IsSums(F, v, n)}
<1>1. Bad = {}
  <2>. SUFFICES ASSUME Bad # {} PROVE FALSE
    OBVIOUS
  <2>1. Len(v) \in Nat /\ Bad \in SUBSET Nat
    OBVIOUS
  <2>2. PICK n \in Bad : \A m \in Bad : n <= m
    BY <2>1, Least
  <2>3. n \in Nat /\ n <= Len(v) /\ ~ \E F : IsSums(F, v, n)
    BY <2>2
  <2>4. CASE n = 0
    <3>1. IsSums([m \in 0 .. 0 |-> 0], v, 0)
      BY DEF IsSums
    <3>. QED
      BY <2>3, <2>4, <3>1
  <2>5. CASE n # 0
    <3>1. n - 1 \in 0 .. Len(v) /\ ~ (n <= n - 1) /\ n \in 1 .. Len(v)
      BY <2>1, <2>3, <2>5
    <3>2. n - 1 \notin Bad
      BY <2>2, <3>1
    <3>3. PICK F : IsSums(F, v, n - 1)
      BY <3>1, <3>2
    <3>. DEFINE G == [m \in 0 .. n |-> IF m = n THEN F[n - 1] + v[n] ELSE F[m]]
    <3>4. v[n] \in Int /\ F[n - 1] \in Int
      BY <2>3, <3>1, <3>3 DEF IsSums
    <3>5. G \in [0 .. n -> Int] /\ G[0] = 0
      BY <2>3, <2>5, <3>3, <3>4 DEF IsSums
    <3>6. ASSUME NEW m \in 1 .. n PROVE G[m] = G[m - 1] + v[m]
      <4>1. CASE m = n
        BY <2>3, <2>5, <4>1
      <4>2. CASE m # n
        <5>1. m \in 1 .. n - 1 /\ m \in 0 .. n /\ m - 1 \in 0 .. n /\ m - 1 # n
          BY <2>3, <4>2
        <5>. QED
          BY <3>3, <4>2, <5>1 DEF IsSums
      <4>. QED
        BY <4>1, <4>2
    <3>7. IsSums(G, v, n)
      BY <3>5, <3>6 DEF IsSums
    <3>. QED
      BY <2>3, <3>7
  <2>. QED
    BY <2>4, <2>5
<1>. QED
  BY <1>1

\* The recursive function that SumTo names exists, and holds the sums.
LEMMA SumToIs ==
  ASSUME NEW v \in Seq(Int)
  PROVE  IsSums(SumTo(v), v, Len(v))
<1>. DEFINE Step(f) == [n \in 0 .. Len(v) |-> IF n = 0 THEN 0 ELSE f[n - 1] + v[n]]
            G == SumTo(v)
<1>1. Len(v) \in Nat
  OBVIOUS
<1>2. G = CHOOSE f : f = Step(f)
  BY DEF SumTo
<1>3. \E f : f = Step(f)
  <2>1. PICK F : IsSums(F, v, Len(v))
    BY <1>1, SumsExist
  <2>2. \A n \in 0 .. Len(v) : F[n] = Step(F)[n]
    BY <1>1, <2>1 DEF IsSums
  <2>3. F = Step(F)
    BY <2>1, <2>2 DEF IsSums
  <2>. QED
    BY <2>3
<1>. HIDE DEF G
<1>4. G = Step(G)
  BY <1>2, <1>3
<1>5. /\ DOMAIN G = 0 .. Len(v) /\ G = [n \in 0 .. Len(v) |-> G[n]]
      /\ \A n \in 0 .. Len(v) : G[n] = IF n = 0 THEN 0 ELSE G[n - 1] + v[n]
  BY <1>4
<1>6. \A n \in 0 .. Len(v) : G[n] \in Int
  <2>. DEFINE Bad == {n \in 0 .. Len(v) : G[n] \notin Int}
  <2>. SUFFICES ASSUME Bad # {} PROVE FALSE
    OBVIOUS
  <2>1. Bad \in SUBSET Nat
    BY <1>1
  <2>2. PICK n \in Bad : \A m \in Bad : n <= m
    BY <2>1, Least
  <2>0. G[0] = 0
    BY <1>1, <1>5
  <2>3. n \in Nat /\ n # 0 /\ n \in 1 .. Len(v)
    <3>1. n \in 0 .. Len(v) /\ G[n] \notin Int
      BY <2>2
    <3>2. n # 0
      BY <2>0, <3>1
    <3>. QED
      BY <1>1, <3>1, <3>2
  <2>4. n - 1 \in 0 .. Len(v) /\ ~ (n <= n - 1)
    BY <2>3
  <2>5. G[n - 1] \in Int /\ v[n] \in Int
    BY <2>2, <2>3, <2>4
  <2>6. G[n] = G[n - 1] + v[n]
    BY <1>5, <2>2, <2>3
  <2>7. G[n] \in Int
    BY ONLY <2>5, <2>6
  <2>. QED
    BY <2>2, <2>7
<1>7. G \in [0 .. Len(v) -> Int] /\ G[0] = 0
  BY <1>1, <1>5, <1>6
<1>8. \A n \in 1 .. Len(v) : n \in 0 .. Len(v) /\ n # 0
  BY <1>1
<1>9. \A n \in 1 .. Len(v) : G[n] = G[n - 1] + v[n]
  BY <1>5, <1>8
<1>. QED
  BY <1>7, <1>9 DEF IsSums, G

\* Whatever satisfies the equations of the sums is the sums.
LEMMA SumIsLast ==
  ASSUME NEW v \in Seq(Int), NEW F, IsSums(F, v, Len(v))
  PROVE  Sum(v) = F[Len(v)] /\ \A n \in 0 .. Len(v) : SumTo(v)[n] = F[n]
<1>. DEFINE G == SumTo(v)
            Bad == {n \in 0 .. Len(v) : G[n] # F[n]}
<1>1. Len(v) \in Nat /\ IsSums(G, v, Len(v))
  BY SumToIs
<1>. HIDE DEF G
<1>2. Bad = {}
  <2>. SUFFICES ASSUME Bad # {} PROVE FALSE
    OBVIOUS
  <2>1. Bad \in SUBSET Nat
    BY <1>1
  <2>2. PICK n \in Bad : \A m \in Bad : n <= m
    BY <2>1, Least
  <2>3. n \in Nat /\ n # 0 /\ n \in 1 .. Len(v)
    BY <1>1 DEF IsSums
  <2>4. n - 1 \in 0 .. Len(v) /\ ~ (n <= n - 1)
    BY <2>3
  <2>5. G[n - 1] = F[n - 1]
    BY <2>2, <2>4
  <2>. QED
    BY <1>1, <2>3, <2>5 DEF IsSums
<1>. QED
  BY <1>1, <1>2 DEF G, Sum

\* One more element adds itself to the sum and leaves the earlier sums alone.
LEMMA SumGrows ==
  ASSUME NEW v \in Seq(Int), NEW w \in Seq(Int), Len(w) = Len(v) + 1,
         \A i \in 1 .. Len(v) : w[i] = v[i]
  PROVE  /\ Sum(v) \in Int
         /\ Sum(w) = Sum(v) + w[Len(w)]
         /\ \A n \in 0 .. Len(v) : SumTo(w)[n] = SumTo(v)[n] /\ SumTo(v)[n] \in Int
<1>. DEFINE F == SumTo(w)
<1>1. Len(v) \in Nat /\ Len(w) \in Nat
  OBVIOUS
<1>2. IsSums(F, w, Len(w))
  BY SumToIs
<1>. HIDE DEF F
<1>. DEFINE G == [n \in 0 .. Len(v) |-> F[n]]
<1>3. \A n \in 0 .. Len(v) : n \in 0 .. Len(w) /\ F[n] \in Int
  <2>1. \A n \in 0 .. Len(v) : n \in 0 .. Len(w)
    BY <1>1
  <2>2. \A n \in 0 .. Len(w) : F[n] \in Int
    BY <1>2 DEF IsSums
  <2>. QED
    BY <2>1, <2>2
<1>4. \A n \in 1 .. Len(v) : n \in 1 .. Len(w) /\ n \in 0 .. Len(v) /\ n - 1 \in 0 .. Len(v)
  BY <1>1
<1>5. G \in [0 .. Len(v) -> Int] /\ \A n \in 0 .. Len(v) : G[n] = F[n]
  BY <1>3
<1>6. G[0] = 0
  BY <1>1, <1>2, <1>5 DEF IsSums
<1>7. \A n \in 1 .. Len(v) : F[n] = F[n - 1] + w[n]
  BY <1>2, <1>4 DEF IsSums
<1>. HIDE DEF G
<1>8. IsSums(G, v, Len(v))
  BY <1>4, <1>5, <1>6, <1>7 DEF IsSums
<1>9. Sum(v) = G[Len(v)] /\ \A n \in 0 .. Len(v) : SumTo(v)[n] = G[n]
  BY <1>8, SumIsLast
<1>10. F[Len(w)] = F[Len(v)] + w[Len(w)]
  <2>1. Len(w) \in 1 .. Len(w) /\ Len(w) - 1 = Len(v)
    BY <1>1
  <2>. QED
    BY <1>2, <2>1 DEF IsSums
<1>11. Len(v) \in 0 .. Len(v)
  BY <1>1
<1>12. Sum(v) = F[Len(v)] /\ F[Len(v)] \in Int
  BY <1>3, <1>5, <1>9, <1>11
<1>. QED
  BY <1>3, <1>5, <1>9, <1>10, <1>12 DEF F, Sum

\* Two sequences that differ in one element differ in their sums by as much.
LEMMA SumDiffers ==
  ASSUME NEW v \in Seq(Int), NEW w \in Seq(Int), Len(w) = Len(v),
         NEW i \in 1 .. Len(v), \A j \in 1 .. Len(v) : j # i => w[j] = v[j]
  PROVE  Sum(v) \in Int /\ Sum(w) = Sum(v) - v[i] + w[i]
<1>. DEFINE F == SumTo(v)
<1>1. Len(v) \in Nat /\ v[i] \in Int /\ w[i] \in Int
  OBVIOUS
<1>2. IsSums(F, v, Len(v))
  BY SumToIs
<1>. HIDE DEF F
<1>. DEFINE d == w[i] - v[i]
            G == [n \in 0 .. Len(v) |-> IF n < i THEN F[n] ELSE F[n] + d]
<1>3. d \in Int
  BY <1>1
<1>4. \A n \in 0 .. Len(v) : F[n] \in Int
  BY <1>1, <1>2 DEF IsSums
<1>. HIDE DEF d
<1>5. G \in [0 .. Len(v) -> Int]
  BY <1>1, <1>3, <1>4
<1>6. G[0] = 0
  BY <1>1, <1>2 DEF IsSums
<1>7. ASSUME NEW n \in 1 .. Len(v) PROVE G[n] = G[n - 1] + w[n]
  <2>1. n \in 0 .. Len(v) /\ n - 1 \in 0 .. Len(v) /\ n \in Int /\ i \in Int
    BY <1>1
  <2>2. F[n] = F[n - 1] + v[n]
    BY <1>2 DEF IsSums
  <2>3. /\ G[n] = IF n < i THEN F[n] ELSE F[n] + d
        /\ G[n - 1] = IF n - 1 < i THEN F[n - 1] ELSE F[n - 1] + d
    BY <2>1
  <2>4. F[n - 1] \in Int /\ v[n] \in Int /\ w[n] \in Int
    BY <1>4, <2>1
  <2>. HIDE DEF G
  <2>5. CASE n = i
    <3>1. G[n] = F[n] + d /\ G[n - 1] = F[n - 1]
      BY <2>1, <2>3, <2>5
    <3>2. d = w[n] - v[n]
      BY <2>5 DEF d
    <3>. QED
      BY <2>2, <2>4, <3>1, <3>2
  <2>6. CASE n < i
    <3>1. G[n] = F[n] /\ G[n - 1] = F[n - 1] /\ w[n] = v[n]
      BY <2>1, <2>3, <2>6
    <3>. QED
      BY <2>2, <3>1
  <2>7. CASE n > i
    <3>1. G[n] = F[n] + d /\ G[n - 1] = F[n - 1] + d /\ w[n] = v[n]
      BY <2>1, <2>3, <2>7
    <3>. QED
      BY <1>3, <2>2, <2>4, <3>1
  <2>. QED
    BY <2>1, <2>5, <2>6, <2>7
<1>8. Len(v) \in 0 .. Len(v) /\ ~ (Len(v) < i)
  BY <1>1
<1>9. G[Len(v)] = F[Len(v)] + d
  BY <1>8
<1>. HIDE DEF G
<1>10. IsSums(G, w, Len(w))
  BY <1>5, <1>6, <1>7 DEF IsSums
<1>11. Sum(w) = G[Len(v)]
  BY <1>10, SumIsLast
<1>12. Sum(v) = F[Len(v)] /\ F[Len(v)] \in Int
  BY <1>4, <1>8 DEF F, Sum
<1>. QED
  BY <1>1, <1>9, <1>11, <1>12 DEF d

\* Zeros sum up to nothing.
LEMMA SumOfZeros ==
  ASSUME NEW v \in Seq(Int), \A i \in 1 .. Len(v) : v[i] = 0
  PROVE  Sum(v) = 0 /\ \A n \in 0 .. Len(v) : SumTo(v)[n] = 0
<1>. DEFINE F == [n \in 0 .. Len(v) |-> 0]
<1>1. Len(v) \in Nat /\ IsSums(F, v, Len(v))
  BY DEF IsSums
<1>2. \A n \in 0 .. Len(v) : F[n] = 0
  OBVIOUS
<1>. HIDE DEF F
<1>3. Len(v) \in 0 .. Len(v)
  BY <1>1
<1>. QED
  BY <1>1, <1>2, <1>3, SumIsLast

\* No leaf costs less than nothing.
LEMMA CostType == \A e \in Leaves : Cost(e) \in Nat
BY ExitAssumption DEF Leaves, Cost

\* The values of a queue are numbers.
LEMMA ValuesType ==
  ASSUME NEW q \in Seq(RelayTransactions)
  PROVE  /\ Values(q) \in Seq(Int) /\ Len(Values(q)) = Len(q) /\ Len(q) \in Nat
         /\ \A i \in 1 .. Len(q) : Values(q)[i] = q[i].value
<1>1. \A tx \in RelayTransactions : tx.value \in Int
  BY DEF RelayTransactions
<1>. QED
  BY <1>1 DEF Values

\* A queued transaction adds its value to what waits.
LEMMA DepositsGrow ==
  ASSUME NEW q \in Seq(RelayTransactions), NEW tx \in RelayTransactions,
         NEW n \in 0 .. Len(q)
  PROVE  /\ Deposits(q, n, Len(q)) \in Int
         /\ Deposits(Append(q, tx), n, Len(Append(q, tx))) = Deposits(q, n, Len(q)) + tx.value
<1>. DEFINE v == Values(q)
            w == Values(Append(q, tx))
<1>1. /\ Len(Append(q, tx)) = Len(q) + 1 /\ Append(q, tx)[Len(q) + 1] = tx
      /\ \A i \in 1 .. Len(q) : Append(q, tx)[i] = q[i]
      /\ Append(q, tx) \in Seq(RelayTransactions)
  OBVIOUS
<1>2. \A t \in RelayTransactions : t.value \in Int
  BY DEF RelayTransactions
<1>. DEFINE longer == Append(q, tx)
<1>3. /\ v \in Seq(Int) /\ Len(v) = Len(q)
      /\ \A i \in 1 .. Len(q) : v[i] = q[i].value
  BY ValuesType
<1>4. /\ w \in Seq(Int) /\ Len(w) = Len(v) + 1
      /\ \A i \in 1 .. Len(v) : w[i] = v[i]
      /\ w[Len(w)] = tx.value
  <2>1. /\ longer \in Seq(RelayTransactions) /\ Len(longer) = Len(q) + 1
        /\ longer[Len(q) + 1] = tx /\ \A i \in 1 .. Len(q) : longer[i] = q[i]
    BY <1>1
  <2>. HIDE DEF longer
  <2>2. /\ Values(longer) \in Seq(Int) /\ Len(Values(longer)) = Len(q) + 1 /\ Len(q) \in Nat
        /\ \A i \in 1 .. Len(q) + 1 : Values(longer)[i] = longer[i].value
    BY <2>1, ValuesType
  <2>3. \A i \in 1 .. Len(q) : i \in 1 .. Len(q) + 1
    BY <2>2
  <2>4. Len(q) + 1 \in 1 .. Len(q) + 1
    BY <2>2
  <2>5. \A i \in 1 .. Len(q) : Values(longer)[i] = q[i].value
    BY <2>1, <2>2, <2>3
  <2>6. Values(longer)[Len(q) + 1] = tx.value
    BY <2>1, <2>2, <2>4
  <2>. QED
    BY <1>3, <2>2, <2>5, <2>6 DEF longer
<1>. HIDE DEF v, w
<1>5. /\ Sum(v) \in Int
      /\ Sum(w) = Sum(v) + tx.value
      /\ \A m \in 0 .. Len(v) : SumTo(w)[m] = SumTo(v)[m] /\ SumTo(v)[m] \in Int
  BY <1>3, <1>4, SumGrows
<1>6. /\ Deposits(q, n, Len(q)) = Sum(v) - SumTo(v)[n]
      /\ Deposits(Append(q, tx), n, Len(Append(q, tx))) = Sum(w) - SumTo(w)[n]
  BY <1>1, <1>3, <1>4 DEF Deposits, Sum, v, w
<1>7. SumTo(w)[n] = SumTo(v)[n] /\ SumTo(v)[n] \in Int
  BY <1>3, <1>5
<1>8. tx.value \in Int
  BY <1>2
<1>. QED
  BY <1>5, <1>6, <1>7, <1>8

\* What is included no longer waits.
LEMMA DepositsMove ==
  ASSUME NEW q \in Seq(RelayTransactions), NEW n \in 0 .. Len(q), NEW m \in 0 .. Len(q)
  PROVE  /\ Deposits(q, n, Len(q)) \in Int
         /\ Deposits(q, n, m) \in Int
         /\ Deposits(q, m, Len(q)) = Deposits(q, n, Len(q)) - Deposits(q, n, m)
<1>. DEFINE v == Values(q)
            F == SumTo(v)
<1>1. v \in Seq(Int) /\ Len(v) = Len(q) /\ Len(q) \in Nat
  BY ValuesType
<1>. HIDE DEF v
<1>2. IsSums(F, v, Len(v))
  BY <1>1, SumToIs
<1>. HIDE DEF F
<1>3. F[n] \in Int /\ F[m] \in Int /\ F[Len(q)] \in Int
  <2>1. F \in [0 .. Len(q) -> Int]
    BY <1>1, <1>2 DEF IsSums
  <2>2. Len(q) \in 0 .. Len(q)
    BY <1>1
  <2>. QED
    BY <2>1, <2>2
<1>. QED
  BY <1>3 DEF Deposits, F, v

\* The costs below a root are a number.
LEMMA CostsType ==
  ASSUME NEW leaves \in Seq(Leaves)
  PROVE  Costs(leaves) \in Int
<1>. DEFINE v == [i \in DOMAIN leaves |-> Cost(leaves[i])]
            F == SumTo(v)
<1>1. v \in Seq(Int) /\ Len(v) \in Nat
  BY CostType
<1>. HIDE DEF v
<1>2. IsSums(F, v, Len(v))
  BY <1>1, SumToIs
<1>. HIDE DEF F
<1>3. F[Len(v)] \in Int
  BY <1>1, <1>2 DEF IsSums
<1>. QED
  BY <1>3 DEF Costs, Sum, F, v

\* An exits root without leaves costs nothing.
LEMMA NoCosts == Costs(<<>>) = 0
<1>. DEFINE v == [i \in DOMAIN <<>> |-> Cost(<<>>[i])]
<1>1. v \in Seq(Int) /\ Len(v) = 0 /\ 1 .. Len(v) = {}
  OBVIOUS
<1>. HIDE DEF v
<1>2. Sum(v) = 0
  BY <1>1, SumOfZeros
<1>. QED
  BY <1>2 DEF Costs, v

\* What is owed is a number.
LEMMA OwedType ==
  ASSUME NEW roots \in [Heights -> Seq(Leaves)]
  PROVE  Owed(roots) \in Int
<1>. DEFINE v == [h \in Heights |-> Costs(roots[h])]
            F == SumTo(v)
<1>1. v \in Seq(Int) /\ Len(v) \in Nat
  <2>1. MaxHeight \in Nat /\ Heights = 1 .. MaxHeight
    BY BoundAssumption DEF Heights
  <2>2. \A h \in Heights : Costs(roots[h]) \in Int
    BY CostsType
  <2>. QED
    BY <2>1, <2>2
<1>. HIDE DEF v
<1>2. IsSums(F, v, Len(v))
  BY <1>1, SumToIs
<1>. HIDE DEF F
<1>3. F[Len(v)] \in Int
  BY <1>1, <1>2 DEF IsSums
<1>. QED
  BY <1>3 DEF Owed, Sum, F, v

\* A root that takes the place of another changes what is owed by its costs.
LEMMA OwedDiffers ==
  ASSUME NEW roots \in [Heights -> Seq(Leaves)], NEW new \in [Heights -> Seq(Leaves)],
         NEW h \in Heights, \A g \in Heights : g # h => new[g] = roots[g]
  PROVE  Owed(roots) \in Int /\ Owed(new) = Owed(roots) - Costs(roots[h]) + Costs(new[h])
<1>. DEFINE v == [g \in Heights |-> Costs(roots[g])]
            w == [g \in Heights |-> Costs(new[g])]
<1>1. MaxHeight \in Nat /\ Heights = 1 .. MaxHeight
  BY BoundAssumption DEF Heights
<1>2. /\ v \in Seq(Int) /\ w \in Seq(Int) /\ Len(v) = MaxHeight /\ Len(w) = MaxHeight
      /\ \A g \in 1 .. MaxHeight : v[g] = Costs(roots[g]) /\ w[g] = Costs(new[g])
  BY <1>1, CostsType
<1>. HIDE DEF v, w
<1>3. Sum(v) \in Int /\ Sum(w) = Sum(v) - v[h] + w[h]
  <2>1. Len(w) = Len(v) /\ h \in 1 .. Len(v)
    BY <1>1, <1>2
  <2>2. \A g \in 1 .. Len(v) : g # h => w[g] = v[g]
    BY <1>1, <1>2
  <2>. QED
    BY <1>2, <2>1, <2>2, SumDiffers
<1>. QED
  BY <1>1, <1>2, <1>3 DEF Owed, v, w

\* An exit that leaves its root is no longer owed.
LEMMA OwedWithout ==
  ASSUME NEW roots \in [Heights -> Seq(Leaves)], NEW h \in Heights,
         NEW i \in DOMAIN roots[h]
  PROVE  /\ Owed(roots) \in Int
         /\ Owed(WithoutExit(roots, h, i)) = Owed(roots) - Cost(roots[h][i])
<1>. DEFINE new == WithoutExit(roots, h, i)
            old == roots[h]
            v == [j \in DOMAIN old |-> Cost(old[j])]
            w == [j \in DOMAIN new[h] |-> Cost(new[h][j])]
<1>1. /\ new \in [Heights -> Seq(Leaves)]
      /\ DOMAIN new[h] = DOMAIN old /\ Len(new[h]) = Len(old)
      /\ \A j \in DOMAIN old : new[h][j] = IF j = i THEN Gone ELSE old[j]
  BY WithoutExitType
<1>2. \A g \in Heights : g # h => new[g] = roots[g]
  BY DEF WithoutExit
<1>3. old \in Seq(Leaves) /\ new[h] \in Seq(Leaves) /\ DOMAIN old = 1 .. Len(old)
  BY <1>1
<1>. HIDE DEF new, old
<1>4. /\ v \in Seq(Int) /\ w \in Seq(Int) /\ Len(v) = Len(old) /\ Len(w) = Len(v)
      /\ \A j \in 1 .. Len(v) : j # i => w[j] = v[j]
      /\ i \in 1 .. Len(v) /\ v[i] = Cost(old[i]) /\ w[i] = 0
  <2>1. /\ i \in DOMAIN old /\ DOMAIN new[h] = 1 .. Len(old)
        /\ \A e \in Leaves : Cost(e) \in Int
    BY <1>1, <1>3, CostType DEF old
  <2>2. \A j \in 1 .. Len(old) : old[j] \in Leaves /\ new[h][j] \in Leaves
    BY <1>1, <1>3
  <2>3. v \in Seq(Int) /\ w \in Seq(Int) /\ Len(v) = Len(old) /\ Len(w) = Len(old)
    BY <1>1, <1>3, <2>1, <2>2
  <2>4. \A j \in 1 .. Len(old) : v[j] = Cost(old[j]) /\ w[j] = Cost(new[h][j])
    BY <1>3, <2>1
  <2>5. Cost(Gone) = 0
    BY DEF Cost
  <2>. HIDE DEF v, w
  <2>. QED
    BY <1>1, <1>3, <2>1, <2>3, <2>4, <2>5
<1>5. Sum(v) = Costs(old) /\ Sum(w) = Costs(new[h])
  BY DEF Costs
<1>. HIDE DEF v, w
<1>6. Sum(v) \in Int /\ Sum(w) = Sum(v) - v[i] + w[i]
  BY <1>4, SumDiffers
<1>7. Owed(roots) \in Int /\ Owed(new) = Owed(roots) - Costs(old) + Costs(new[h])
  BY <1>1, <1>2, OwedDiffers DEF old
<1>8. Cost(old[i]) \in Int
  <2>1. old[i] \in Leaves
    BY <1>3, <1>4
  <2>. QED
    BY <2>1, CostType
<1>9. Owed(new) = Owed(roots) - Cost(old[i])
  <2>1. Costs(old) \in Int /\ Costs(new[h]) = Costs(old) - Cost(old[i])
    BY <1>4, <1>5, <1>6, <1>8
  <2>. QED
    BY <1>7, <1>8, <2>1
<1>. QED
  BY <1>7, <1>9 DEF new, old

\* The reimbursements are numbers, one for each execution.
LEMMA ReimbursementsType ==
  ASSUME NEW stack \in Seq(Frames)
  PROVE  /\ Reimbursements(stack) \in Seq(Int) /\ Len(Reimbursements(stack)) = Len(stack)
         /\ \A k \in 1 .. Len(stack) : Reimbursements(stack)[k] = Cost(stack[k].exit)
<1>1. \A g \in Frames : Cost(g.exit) \in Int
  BY CostType DEF Frames, Leaves
<1>. QED
  BY <1>1 DEF Reimbursements

\* An execution that begins adds its own reimbursement.
LEMMA ReimbursementsGrow ==
  ASSUME NEW stack \in Seq(Frames), NEW longer \in Seq(Frames),
         Len(longer) = Len(stack) + 1,
         \A k \in 1 .. Len(stack) : longer[k] = stack[k]
  PROVE  LET v == Reimbursements(stack)
             w == Reimbursements(longer)
         IN /\ Sum(v) \in Int
            /\ Sum(w) = Sum(v) + Cost(longer[Len(longer)].exit)
            /\ \A k \in 0 .. Len(stack) : SumTo(w)[k] = SumTo(v)[k] /\ SumTo(v)[k] \in Int
<1>. DEFINE v == Reimbursements(stack)
            w == Reimbursements(longer)
<1>1. /\ v \in Seq(Int) /\ Len(v) = Len(stack)
      /\ \A k \in 1 .. Len(stack) : v[k] = Cost(stack[k].exit)
  BY ReimbursementsType
<1>2. /\ w \in Seq(Int) /\ Len(w) = Len(longer)
      /\ \A k \in 1 .. Len(longer) : w[k] = Cost(longer[k].exit)
  BY ReimbursementsType
<1>3. Len(stack) \in Nat
  OBVIOUS
<1>. HIDE DEF v, w
<1>4. \A k \in 1 .. Len(v) : w[k] = v[k]
  <2>1. \A k \in 1 .. Len(stack) : k \in 1 .. Len(longer)
    BY <1>3
  <2>. QED
    BY <1>1, <1>2, <2>1
<1>5. w[Len(w)] = Cost(longer[Len(longer)].exit)
  <2>1. Len(longer) \in 1 .. Len(longer)
    BY <1>3
  <2>. QED
    BY <1>2, <2>1
<1>6. Len(w) = Len(v) + 1
  BY <1>1, <1>2
<1>7. /\ Sum(v) \in Int
      /\ Sum(w) = Sum(v) + w[Len(w)]
      /\ \A n \in 0 .. Len(v) : SumTo(w)[n] = SumTo(v)[n] /\ SumTo(v)[n] \in Int
  BY <1>1, <1>2, <1>4, <1>6, SumGrows
<1>. QED
  BY <1>1, <1>5, <1>7 DEF v, w

-----------------------------------------------------------------------------
(* What a state of the relay owes, the executions that run aside.          *)
Claims(w) ==
  w.child.supply + Deposits(w.queue, w.child.included, Len(w.queue)) + Owed(w.roots)

Solvency(w, running) == w.balance >= Claims(w) + running

(* The states that a failure would bring back are solvent too, with the    *)
(* executions that still run then.                                         *)
SolventInv ==
  /\ Solvency(Snapshot, Sum(Reimbursements(calls)))
  /\ \A k \in 1 .. Len(calls) :
        Solvency(calls[k].saved, SumTo(Reimbursements(calls))[k - 1])

(* States whose rollup chain has included no more than is queued.          *)
Sound == {w \in Worlds : w.child.included =< Len(w.queue)}

\* The invariants make the relay sound in every state a failure may bring back.
LEMMA SoundWorlds ==
  ASSUME TypeInv, QueueInv
  PROVE  Snapshot \in Sound /\ \A k \in 1 .. Len(calls) : calls[k].saved \in Sound
<1>1. /\ Snapshot \in Worlds /\ \A k \in 1 .. Len(calls) : calls[k].saved \in Worlds
      /\ CommittedQueue \in Seq(RelayTransactions)
  BY CommittedTyped DEF TypeInv, Frames
<1>2. ASSUME NEW w \in Worlds, Extends(w, CommittedQueue) PROVE w \in Sound
  <2>1. w.queue \in Seq(RelayTransactions) /\ w.child.included \in Nat
    BY DEF Worlds
  <2>2. Len(CommittedQueue) =< Len(w.queue)
    BY <1>1, <1>2, <2>1, PrefixByIndex DEF Extends
  <2>3. w.child.included =< Len(w.queue)
    BY <1>1, <1>2, <2>1, <2>2 DEF Extends
  <2>. QED
    BY <2>3 DEF Sound
<1>. QED
  BY <1>1, <1>2 DEF QueueInv

SoundNow == Snapshot \in Sound

\* A step that keeps the invariants leaves a sound state.
LEMMA SoundNext == TypeInv' /\ QueueInv' => SoundNow'
<1>1. TypeInv /\ QueueInv => SoundNow
  BY SoundWorlds DEF SoundNow
<1>. QED
  BY <1>1, PTL

\* What a sound state consists of.
LEMMA SoundParts ==
  ASSUME NEW w \in Sound
  PROVE  /\ w.queue \in Seq(RelayTransactions)
         /\ w.child.included \in 0 .. Len(w.queue)
         /\ w.child.supply \in Nat
         /\ w.balance \in Nat
         /\ w.roots \in [Heights -> Seq(Leaves)]
BY DEF Sound, Worlds

\* The claims are a number.
LEMMA ClaimsType ==
  ASSUME NEW w \in Sound
  PROVE  Claims(w) \in Int
<1>1. Owed(w.roots) \in Int
  BY SoundParts, OwedType
<1>2. Deposits(w.queue, w.child.included, Len(w.queue)) \in Int
  BY SoundParts, DepositsMove
<1>. QED
  BY <1>1, <1>2, SoundParts DEF Claims

\* A queued transaction claims its value.
LEMMA ClaimsQueued ==
  ASSUME NEW w \in Sound, NEW x \in Sound, NEW tx \in RelayTransactions,
         x.child = w.child, x.roots = w.roots, x.queue = Append(w.queue, tx)
  PROVE  Claims(x) = Claims(w) + tx.value
<1>. DEFINE old == Deposits(w.queue, w.child.included, Len(w.queue))
            new == Deposits(x.queue, x.child.included, Len(x.queue))
<1>1. old \in Int /\ new = old + tx.value
  BY SoundParts, DepositsGrow
<1>2. Claims(w) = w.child.supply + old + Owed(w.roots)
  BY DEF Claims
<1>3. Claims(x) = w.child.supply + new + Owed(w.roots)
  BY DEF Claims
<1>. HIDE DEF old, new
<1>4. w.child.supply \in Int /\ tx.value \in Int /\ Owed(w.roots) \in Int
  BY SoundParts, OwedType DEF RelayTransactions
<1>. QED
  BY <1>1, <1>2, <1>3, <1>4

\* An exit taken out of its root is no claim any more.
LEMMA ClaimsWithout ==
  ASSUME NEW w \in Sound, NEW x \in Sound, NEW h \in Heights, NEW i \in DOMAIN w.roots[h],
         x.child = w.child, x.queue = w.queue, x.roots = WithoutExit(w.roots, h, i)
  PROVE  Claims(x) = Claims(w) - Cost(w.roots[h][i])
<1>. DEFINE waiting == Deposits(w.queue, w.child.included, Len(w.queue))
            cost == Cost(w.roots[h][i])
<1>1. Owed(w.roots) \in Int /\ Owed(x.roots) = Owed(w.roots) - cost
  BY SoundParts, OwedWithout
<1>2. waiting \in Int /\ w.child.supply \in Int
  BY SoundParts, DepositsMove
<1>3. cost \in Int
  <2>1. w.roots[h][i] \in Leaves
    BY SoundParts
  <2>. QED
    BY <2>1, CostType
<1>4. Claims(w) = w.child.supply + waiting + Owed(w.roots)
  BY DEF Claims
<1>5. Claims(x) = w.child.supply + waiting + Owed(x.roots)
  BY DEF Claims
<1>. HIDE DEF waiting, cost
<1>6. Claims(x) = Claims(w) - cost
  BY <1>1, <1>2, <1>3, <1>4, <1>5
<1>. QED
  BY <1>6 DEF cost

\* A confirmed block turns deposits into supply, and supply into exits.
LEMMA ClaimsConfirmed ==
  ASSUME NEW w \in Sound, NEW x \in Sound, NEW h \in Heights, w.roots[h] = <<>>,
         NEW exits \in Seq(Leaves), NEW n \in 0 .. Len(w.queue),
         x.queue = w.queue, x.roots = [w.roots EXCEPT ![h] = exits],
         x.child.included = n,
         x.child.supply = w.child.supply + Deposits(w.queue, w.child.included, n) - Costs(exits)
  PROVE  Claims(x) = Claims(w)
<1>. DEFINE old == Deposits(w.queue, w.child.included, Len(w.queue))
            new == Deposits(w.queue, n, Len(w.queue))
            moved == Deposits(w.queue, w.child.included, n)
            paid == Costs(exits)
<1>1. old \in Int /\ moved \in Int /\ new = old - moved
  BY SoundParts, DepositsMove
<1>2. Owed(w.roots) \in Int /\ Owed(x.roots) = Owed(w.roots) + paid
  <2>1. /\ w.roots \in [Heights -> Seq(Leaves)] /\ x.roots \in [Heights -> Seq(Leaves)]
        /\ x.roots[h] = exits /\ \A g \in Heights : g # h => x.roots[g] = w.roots[g]
    BY SoundParts
  <2>2. Owed(w.roots) \in Int /\ Owed(x.roots) = Owed(w.roots) - Costs(w.roots[h]) + Costs(x.roots[h])
    BY <2>1, OwedDiffers
  <2>3. Costs(w.roots[h]) = 0 /\ Costs(x.roots[h]) = paid /\ paid \in Int
    BY <2>1, NoCosts, CostsType
  <2>. HIDE DEF paid
  <2>. QED
    BY <2>2, <2>3
<1>3. w.child.supply \in Int /\ paid \in Int
  BY SoundParts, CostsType
<1>4. Claims(w) = w.child.supply + old + Owed(w.roots)
  BY DEF Claims
<1>5. Claims(x) = w.child.supply + moved - paid + new + Owed(x.roots)
  BY DEF Claims
<1>. HIDE DEF old, new, moved, paid
<1>. QED
  BY <1>1, <1>2, <1>3, <1>4, <1>5

\* An execution that ends takes its own reimbursement off.
LEMMA ReturnReimburses ==
  ASSUME calls \in Seq(Frames), calls # <<>>, Return
  PROVE  LET old == Reimbursements(calls)
             new == Reimbursements(calls')
         IN /\ Sum(new) \in Int
            /\ Sum(new) = SumTo(old)[Len(calls) - 1]
            /\ Sum(old) = Sum(new) + Cost(Last(calls).exit)
            /\ \A k \in 0 .. Len(calls') : SumTo(new)[k] = SumTo(old)[k]
<1>1. /\ calls' \in Seq(Frames) /\ Len(calls) \in Nat \ {0}
      /\ Len(calls) = Len(calls') + 1 /\ Last(calls) = calls[Len(calls)]
      /\ \A k \in 1 .. Len(calls') : calls[k] = calls'[k]
  BY ReturnPops DEF Last
<1>. DEFINE short == calls'
            old == Reimbursements(calls)
            new == Reimbursements(short)
<1>2. short \in Seq(Frames) /\ Len(calls) = Len(short) + 1
      /\ \A k \in 1 .. Len(short) : calls[k] = short[k]
  BY <1>1
<1>. HIDE DEF short
<1>3. /\ Sum(new) \in Int
      /\ Sum(old) = Sum(new) + Cost(calls[Len(calls)].exit)
      /\ \A k \in 0 .. Len(short) : SumTo(old)[k] = SumTo(new)[k]
  BY <1>2, ReimbursementsGrow
<1>4. Len(new) = Len(short) /\ Len(short) \in Nat
  BY <1>2, ReimbursementsType
<1>5. Sum(new) = SumTo(old)[Len(calls) - 1]
  <2>1. Len(short) \in 0 .. Len(short) /\ Len(calls) - 1 = Len(short)
    BY <1>2, <1>4
  <2>2. Sum(new) = SumTo(new)[Len(short)]
    BY <1>4 DEF Sum
  <2>. QED
    BY <1>3, <2>1, <2>2
<1>. QED
  BY <1>1, <1>3, <1>5 DEF short

-----------------------------------------------------------------------------
\* The relay stays solvent when its balance grows by no less than the claims.
LEMMA Remains ==
  ASSUME NEW w \in Sound, NEW x \in Sound, NEW r \in Int, NEW s \in Int,
         Solvency(w, r), x.balance - w.balance >= Claims(x) - Claims(w) + s - r
  PROVE  Solvency(x, s)
<1>1. Claims(w) \in Int /\ Claims(x) \in Int /\ w.balance \in Int /\ x.balance \in Int
  BY ClaimsType, SoundParts
<1>. QED
  BY <1>1 DEF Solvency

\* What the running executions reimburse is a number.
LEMMA ReimbursedType ==
  ASSUME NEW stack \in Seq(Frames)
  PROVE  Sum(Reimbursements(stack)) \in Int
<1>. DEFINE v == Reimbursements(stack)
            F == SumTo(v)
<1>1. v \in Seq(Int) /\ Len(v) \in Nat
  BY ReimbursementsType
<1>. HIDE DEF v
<1>2. IsSums(F, v, Len(v))
  BY <1>1, SumToIs
<1>. HIDE DEF F
<1>3. F[Len(v)] \in Int
  BY <1>1, <1>2 DEF IsSums
<1>. QED
  BY <1>3 DEF Sum, F, v

\* The states a failure would bring back are solvent while no execution begins.
LEMMA SameStack ==
  ASSUME SolventInv, UNCHANGED calls, Solvency(Snapshot', Sum(Reimbursements(calls)))
  PROVE  SolventInv'
<1>1. Sum(Reimbursements(calls))' = Sum(Reimbursements(calls))
  OBVIOUS
<1>2. \A k \in 1 .. Len(calls) : Solvency(calls[k].saved, SumTo(Reimbursements(calls))[k - 1])
  BY DEF SolventInv
<1>. QED
  BY <1>1, <1>2 DEF SolventInv, Solvency

\* A call pays for what it queues.
LEMMA CallKeepsSolvent ==
  ASSUME TypeInv, TypeInv', QueueInv, QueueInv', SolventInv, Call
  PROVE  SolventInv'
<1>. DEFINE w == Snapshot
            x == Snapshot'
            r == Sum(Reimbursements(calls))
<1>1. w \in Sound /\ x \in Sound /\ r \in Int /\ Solvency(w, r)
  BY SoundWorlds, SoundNext, ReimbursedType DEF TypeInv, SolventInv, SoundNow
<1>2. PICK sender \in Accounts, value \in 0 .. MaxPayment :
         \/ \E to \in Receivers : addTransaction(sender, to, value)
         \/ \E proxy \in Proxies : \/ forwardFromProxy(sender, proxy, value)
                                   \/ deployContract(sender, proxy, value)
         \/ receive(sender, value)
  BY DEF Call
<1>3. /\ x.child = w.child /\ x.roots = w.roots /\ UNCHANGED calls
      /\ x.balance = w.balance + value
  BY <1>2 DEF addTransaction, forwardFromProxy, deployContract, receive, Paid, Snapshot
<1>4. \/ x.queue = w.queue
      \/ \E tx \in RelayTransactions : x.queue = Append(w.queue, tx) /\ tx.value =< value
  <2>. USE DEF RelayTransaction, RelayTransactions, _addTransaction, Snapshot
  <2>1. ASSUME NEW to \in Receivers, addTransaction(sender, to, value)
        PROVE  \E tx \in RelayTransactions : x.queue = Append(w.queue, tx) /\ tx.value =< value
    <3>1. RelayTransaction(sender, to, value) \in RelayTransactions
      BY AddressAssumption
    <3>. QED
      BY <2>1, <3>1 DEF addTransaction
  <2>2. ASSUME NEW proxy \in Proxies, forwardFromProxy(sender, proxy, value)
        PROVE  \E tx \in RelayTransactions : x.queue = Append(w.queue, tx) /\ tx.value =< value
    <3>1. RelayTransaction(sender, proxy, value) \in RelayTransactions
      OBVIOUS
    <3>. QED
      BY <2>2, <3>1 DEF forwardFromProxy
  <2>3. ASSUME NEW proxy \in Proxies, deployContract(sender, proxy, value)
        PROVE  \E tx \in RelayTransactions : x.queue = Append(w.queue, tx) /\ tx.value =< value
    <3>1. RelayTransaction(proxy, Null, 0) \in RelayTransactions
      OBVIOUS
    <3>. QED
      BY <2>3, <3>1 DEF deployContract
  <2>4. CASE receive(sender, value)
    BY <2>4 DEF receive
  <2>. QED
    BY <1>2, <2>1, <2>2, <2>3, <2>4
<1>. HIDE DEF w, x, r
<1>5. Claims(w) \in Int /\ w.balance \in Int /\ value \in Int /\ 0 =< value
  BY <1>1, ClaimsType, SoundParts
<1>6. Claims(x) \in Int /\ Claims(x) =< Claims(w) + value
  <2>1. CASE x.queue = w.queue
    <3>1. Claims(x) = Claims(w)
      BY <1>3, <2>1 DEF Claims
    <3>. QED
      BY <1>5, <3>1
  <2>2. ASSUME NEW tx \in RelayTransactions, x.queue = Append(w.queue, tx), tx.value =< value
        PROVE  Claims(x) \in Int /\ Claims(x) =< Claims(w) + value
    <3>1. Claims(x) = Claims(w) + tx.value
      BY <1>1, <1>3, <2>2, ClaimsQueued
    <3>2. tx.value \in Int
      BY DEF RelayTransactions
    <3>. QED
      BY <1>5, <2>2, <3>1, <3>2
  <2>. QED
    BY <1>4, <2>1, <2>2
<1>7. Solvency(x, r)
  <2>1. x.balance - w.balance >= Claims(x) - Claims(w) + r - r
    BY <1>1, <1>3, <1>5, <1>6
  <2>. QED
    BY <1>1, <2>1, Remains
<1>. QED
  BY <1>3, <1>7, SameStack DEF x, r

\* A confirmed block claims nothing new.
LEMMA ConfirmKeepsSolvent ==
  ASSUME TypeInv, TypeInv', QueueInv, QueueInv', ExitsInv, SolventInv, Confirm
  PROVE  SolventInv'
<1>. DEFINE w == Snapshot
            x == Snapshot'
            r == Sum(Reimbursements(calls))
            h == child.height + 1
<1>1. w \in Sound /\ x \in Sound /\ r \in Int /\ Solvency(w, r)
  BY SoundWorlds, SoundNext, ReimbursedType DEF TypeInv, SolventInv, SoundNow
<1>2. PICK sender \in Accounts, exits \in SeqOf(Exits, MaxExits), n \in 0 .. MaxQueue :
         putConfirmedBlock(sender, exits, n)
  BY DEF Confirm
<1>3. /\ UNCHANGED calls /\ h \in Heights
      /\ x.balance = w.balance /\ x.queue = w.queue
      /\ x.roots = [w.roots EXCEPT ![h] = exits]
      /\ x.child.included = n
      /\ x.child.supply = w.child.supply + Deposits(w.queue, w.child.included, n) - Costs(exits)
  BY <1>2 DEF putConfirmedBlock, Snapshot
<1>4. exits \in Seq(Leaves)
  BY BoundAssumption DEF SeqOf, Leaves
<1>5. w.roots[h] = <<>>
  <2>1. h > child.height
    BY <1>1, SoundParts DEF Sound, Worlds, Snapshot
  <2>. QED
    BY <1>3, <2>1 DEF ExitsInv, Consistent, Snapshot
<1>6. n \in 0 .. Len(w.queue)
  <2>1. x.child.included \in 0 .. Len(x.queue)
    BY <1>1, SoundParts
  <2>. QED
    BY <1>3, <2>1
<1>. HIDE DEF w, x, r, h
<1>7. Claims(x) = Claims(w)
  BY <1>1, <1>3, <1>4, <1>5, <1>6, ClaimsConfirmed
<1>8. Solvency(x, r)
  BY <1>1, <1>3, <1>7 DEF Solvency
<1>. QED
  BY <1>3, <1>8, SameStack DEF x, r

\* An execution that begins is paid for by its caller, who is to be reimbursed
\* out of what the exit had claimed.
LEMMA ExecuteKeepsSolvent ==
  ASSUME TypeInv, TypeInv', QueueInv, QueueInv', SolventInv, Execute
  PROVE  SolventInv'
<1>. DEFINE w == Snapshot
            x == Snapshot'
            longer == calls'
            old == Reimbursements(calls)
            new == Reimbursements(longer)
<1>1. /\ w \in Sound /\ x \in Sound /\ Sum(old) \in Int /\ Solvency(w, Sum(old))
      /\ calls \in Seq(Frames) /\ longer \in Seq(Frames)
  BY SoundWorlds, SoundNext, ReimbursedType DEF TypeInv, SolventInv, SoundNow
<1>2. PICK sender \in Accounts, h \in Heights, i \in 1 .. MaxExits, e \in Exits,
           value \in 0 .. MaxPayment : executeOutgoingTransaction(sender, e, i, h, value)
  BY DEF Execute
<1>. DEFINE f == [sender |-> sender, exit |-> e, slot |-> <<h, i>>, paid |-> value,
                  saved |-> w]
<1>3. /\ longer = Append(calls, f) /\ i \in DOMAIN w.roots[h] /\ w.roots[h][i] = e
      /\ value >= e.value /\ x.balance = w.balance + value - e.value
      /\ x.child = w.child /\ x.queue = w.queue /\ x.roots = WithoutExit(w.roots, h, i)
  BY <1>2 DEF executeOutgoingTransaction, hasOutgoingTransaction, Snapshot
<1>4. f.exit = e /\ f.saved = w
  OBVIOUS
<1>5. e.value \in Int /\ Cost(e) \in Int /\ value \in Int
  BY ExitAssumption, CostType DEF Leaves
<1>. HIDE DEF w, x, f
<1>6. /\ Len(longer) = Len(calls) + 1 /\ longer[Len(calls) + 1] = f /\ Len(calls) \in Nat
      /\ \A k \in 1 .. Len(calls) : longer[k] = calls[k]
  BY <1>1, <1>3
<1>. HIDE DEF longer
<1>7. /\ Sum(new) = Sum(old) + Cost(e)
      /\ \A k \in 0 .. Len(calls) : SumTo(new)[k] = SumTo(old)[k]
  BY <1>1, <1>4, <1>6, ReimbursementsGrow
<1>8. Claims(x) = Claims(w) - Cost(e)
  BY <1>1, <1>3, ClaimsWithout
<1>9. Solvency(x, Sum(new))
  <2>1. Claims(w) \in Int /\ w.balance \in Int
    BY <1>1, ClaimsType, SoundParts
  <2>. HIDE DEF old, new
  <2>2. x.balance - w.balance >= Claims(x) - Claims(w) + Sum(new) - Sum(old)
    BY <1>1, <1>3, <1>5, <1>7, <1>8, <2>1
  <2>3. Sum(new) \in Int
    BY <1>1, <1>5, <1>7
  <2>. QED
    BY <1>1, <2>2, <2>3, Remains
<1>10. ASSUME NEW k \in 1 .. Len(longer) PROVE Solvency(longer[k].saved, SumTo(new)[k - 1])
  <2>1. k - 1 \in 0 .. Len(calls) /\ SumTo(new)[k - 1] = SumTo(old)[k - 1]
    BY <1>6, <1>7
  <2>2. CASE k = Len(calls) + 1
    <3>1. Len(old) = Len(calls) /\ k - 1 = Len(calls)
      BY <1>1, <1>6, <2>2, ReimbursementsType
    <3>2. SumTo(old)[k - 1] = Sum(old)
      BY <3>1 DEF Sum
    <3>. QED
      BY <1>1, <1>4, <1>6, <2>1, <2>2, <3>2
  <2>3. CASE k # Len(calls) + 1
    <3>1. k \in 1 .. Len(calls)
      BY <1>6, <2>3
    <3>2. Solvency(calls[k].saved, SumTo(old)[k - 1])
      BY <3>1 DEF SolventInv
    <3>. QED
      BY <1>6, <2>1, <3>1, <3>2
  <2>. QED
    BY <2>2, <2>3
<1>. QED
  BY <1>9, <1>10 DEF SolventInv, x, longer, Solvency

\* An execution that ends pays what was reserved for it, a failure leaves the
\* value with the relay and a claim to it in the queue.
LEMMA EndKeepsSolvent ==
  ASSUME TypeInv, TypeInv', QueueInv, QueueInv', SolventInv, End
  PROVE  SolventInv'
<1>. DEFINE f == Last(calls)
            w == Snapshot
            x == Snapshot'
            old == Reimbursements(calls)
            short == calls'
            new == Reimbursements(short)
            r == Sum(new)
<1>0. calls # <<>> /\ Return /\ calls \in Seq(Frames)
  BY DEF End, CallSucceeds, SelfCallSucceeds, CallFails, TransferReverts, TypeInv
<1>1. /\ r \in Int /\ r = SumTo(old)[Len(calls) - 1] /\ Sum(old) = r + Cost(f.exit)
      /\ \A k \in 0 .. Len(short) : SumTo(new)[k] = SumTo(old)[k]
  BY <1>0, ReturnReimburses
<1>2. /\ f \in Frames /\ f = calls[Len(calls)] /\ Len(calls) \in Nat \ {0}
      /\ Len(short) = Len(calls) - 1
      /\ \A k \in 1 .. Len(calls) - 1 : short[k] = calls[k]
  BY <1>0, ReturnPops DEF Last
<1>3. /\ w \in Sound /\ x \in Sound /\ f.saved \in Sound
      /\ Solvency(w, r + Cost(f.exit)) /\ Solvency(f.saved, r)
  <2>1. Len(calls) \in 1 .. Len(calls)
    BY <1>2
  <2>. QED
    BY <1>1, <1>2, <2>1, SoundWorlds, SoundNext DEF SolventInv, SoundNow
<1>4. /\ f.exit.value \in Nat /\ f.exit.bounty \in Nat /\ f.paid \in Nat
      /\ f.exit.from \in Accounts \cup Proxies /\ f.exit \in Exits
      /\ f.slot[1] \in Heights /\ f.slot[2] \in DOMAIN f.saved.roots[f.slot[1]]
      /\ f.saved.roots[f.slot[1]][f.slot[2]] = f.exit
  BY <1>2, ExitAssumption DEF Frames, Slots
<1>5. Cost(f.exit) = f.exit.value + f.exit.bounty
  BY <1>4, AddressAssumption DEF Cost
<1>. HIDE DEF f, old, short, new, r
<1>6. /\ Claims(w) \in Int /\ w.balance \in Int
      /\ Claims(f.saved) \in Int /\ f.saved.balance \in Int
  BY <1>3, ClaimsType, SoundParts
<1>7. Solvency(x, r)
  <2>1. CASE CallSucceeds
    <3>1. /\ x.balance = w.balance - (f.exit.bounty + f.exit.value)
          /\ x.queue = w.queue /\ x.child = w.child /\ x.roots = w.roots
      BY <2>1 DEF CallSucceeds, Snapshot, f
    <3>. HIDE DEF w, x
    <3>2. Claims(x) = Claims(w)
      BY <3>1 DEF Claims
    <3>3. x.balance - w.balance >= Claims(x) - Claims(w) + r - (r + Cost(f.exit))
      BY <1>1, <1>4, <1>5, <1>6, <3>1, <3>2
    <3>. QED
      BY <1>1, <1>3, <1>4, <1>5, <3>3, Remains
  <2>2. ASSUME NEW to \in Receivers, SelfCallSucceeds(to) PROVE Solvency(x, r)
    <3>. DEFINE tx == RelayTransaction(
                         IF f.exit.from \in deployedContracts THEN f.exit.from ELSE Relay,
                         to, f.exit.value)
    <3>1. /\ x.balance = w.balance - f.exit.bounty
          /\ x.child = w.child /\ x.roots = w.roots
          /\ x.queue = w.queue \/ x.queue = Append(w.queue, tx)
      BY <2>2 DEF SelfCallSucceeds, _addTransaction, Snapshot, f
    <3>2. tx \in RelayTransactions /\ tx.value = f.exit.value
      BY <1>4, AddressAssumption DEF RelayTransaction, RelayTransactions
    <3>. HIDE DEF w, x, tx
    <3>3. Claims(x) \in Int /\ Claims(x) =< Claims(w) + f.exit.value
      <4>1. CASE x.queue = w.queue
        <5>1. Claims(x) = Claims(w)
          BY <3>1, <4>1 DEF Claims
        <5>. QED
          BY <1>4, <1>6, <5>1
      <4>2. CASE x.queue = Append(w.queue, tx)
        <5>1. Claims(x) = Claims(w) + tx.value
          BY <1>3, <3>1, <3>2, <4>2, ClaimsQueued
        <5>. QED
          BY <1>4, <1>6, <3>2, <5>1
      <4>. QED
        BY <3>1, <4>1, <4>2
    <3>4. x.balance - w.balance >= Claims(x) - Claims(w) + r - (r + Cost(f.exit))
      <4>1. /\ w.balance \in Int /\ Claims(w) \in Int /\ Claims(x) \in Int /\ r \in Int
            /\ f.exit.value \in Int /\ f.exit.bounty \in Int
        BY <1>1, <1>4, <1>6, <3>3
      <4>2. /\ x.balance = w.balance - f.exit.bounty
            /\ Claims(x) =< Claims(w) + f.exit.value
            /\ Cost(f.exit) = f.exit.value + f.exit.bounty
        BY <1>5, <3>1, <3>3
      <4>. QED
        BY ONLY <4>1, <4>2
    <3>. QED
      BY <1>1, <1>3, <1>4, <1>5, <3>4, Remains
  <2>3. CASE CallFails
    <3>. DEFINE tx == RelayTransaction(Null, f.exit.from, f.exit.value)
                left == [f.saved EXCEPT !.roots = WithoutExit(f.saved.roots, f.slot[1], f.slot[2])]
    <3>1. /\ x.balance = f.saved.balance + f.paid - f.exit.bounty
          /\ x.child = f.saved.child /\ x.queue = Append(f.saved.queue, tx)
          /\ x.roots = WithoutExit(f.saved.roots, f.slot[1], f.slot[2])
      BY <2>3 DEF CallFails, Snapshot, f
    <3>2. tx \in RelayTransactions /\ tx.value = f.exit.value
      BY <1>4 DEF RelayTransaction, RelayTransactions
    <3>3. /\ left \in Sound
          /\ left.child = f.saved.child /\ left.queue = f.saved.queue
          /\ left.roots = WithoutExit(f.saved.roots, f.slot[1], f.slot[2])
      <4>1. f.saved \in Worlds /\ f.saved.child.included =< Len(f.saved.queue)
        BY <1>3 DEF Sound
      <4>2. x.roots \in [Heights -> {leaves \in Seq(Leaves) : Len(leaves) =< MaxExits}]
        BY <1>3 DEF Sound, Worlds
      <4>3. left \in Worlds
        BY <3>1, <4>1, <4>2 DEF Worlds
      <4>. QED
        BY <4>1, <4>3 DEF Sound, Worlds
    <3>. HIDE DEF w, x, tx, left
    <3>4. Claims(left) = Claims(f.saved) - Cost(f.exit)
      BY <1>3, <1>4, <3>3, ClaimsWithout
    <3>5. Claims(x) = Claims(left) + tx.value
      BY <1>3, <3>1, <3>2, <3>3, ClaimsQueued
    <3>6. x.balance - f.saved.balance >= Claims(x) - Claims(f.saved) + r - r
      <4>1. /\ f.saved.balance \in Int /\ Claims(f.saved) \in Int /\ r \in Int
            /\ f.exit.value \in Int /\ f.exit.bounty \in Int /\ f.paid \in Nat
        BY <1>1, <1>4, <1>6
      <4>2. /\ x.balance = f.saved.balance + f.paid - f.exit.bounty
            /\ Claims(x) = Claims(f.saved) - (f.exit.value + f.exit.bounty) + f.exit.value
        BY <1>5, <3>1, <3>2, <3>4, <3>5
      <4>. QED
        BY ONLY <4>1, <4>2
    <3>. QED
      BY <1>1, <1>3, <3>6, Remains
  <2>4. CASE TransferReverts
    <3>1. /\ x.balance = f.saved.balance /\ x.child = f.saved.child
          /\ x.queue = f.saved.queue /\ x.roots = f.saved.roots
      BY <2>4 DEF TransferReverts, Snapshot, f
    <3>. HIDE DEF x
    <3>. QED
      BY <1>3, <3>1 DEF Solvency, Claims
  <2>. QED
    BY <2>1, <2>2, <2>3, <2>4 DEF End
<1>8. ASSUME NEW k \in 1 .. Len(short) PROVE Solvency(short[k].saved, SumTo(new)[k - 1])
  <2>1. k \in 1 .. Len(calls) /\ k \in 1 .. Len(calls) - 1 /\ k - 1 \in 0 .. Len(short)
    BY <1>2
  <2>2. Solvency(calls[k].saved, SumTo(old)[k - 1])
    BY <2>1 DEF SolventInv, old
  <2>. QED
    BY <1>1, <1>2, <2>1, <2>2
<1>. QED
  BY <1>7, <1>8 DEF SolventInv, Solvency, short, new, r

\* At first nobody has a claim.
LEMMA InitSolvent == Init => SolventInv
<1>. SUFFICES ASSUME Init PROVE SolventInv
  OBVIOUS
<1>1. /\ Reimbursements(calls) \in Seq(Int) /\ Len(Reimbursements(calls)) = 0
      /\ Len(calls) = 0
  BY DEF Init, Reimbursements
<1>2. Sum(Reimbursements(calls)) = 0
  <2>1. 1 .. Len(Reimbursements(calls)) = {}
    BY <1>1
  <2>. QED
    BY <1>1, <2>1, SumOfZeros
<1>3. Owed(confirmedExitRoots) = 0
  <2>. DEFINE v == [h \in Heights |-> Costs(confirmedExitRoots[h])]
  <2>1. \A h \in Heights : Costs(confirmedExitRoots[h]) = 0
    BY NoCosts DEF Init
  <2>2. v \in Seq(Int) /\ \A h \in 1 .. Len(v) : v[h] = 0
    BY <2>1, BoundAssumption DEF Heights
  <2>. HIDE DEF v
  <2>3. Sum(v) = 0
    BY <2>2, SumOfZeros
  <2>. QED
    BY <2>3 DEF Owed, v
<1>4. Deposits(transactionHashes, 0, Len(transactionHashes)) = 0
  <2>. DEFINE v == Values(transactionHashes)
  <2>1. /\ transactionHashes \in Seq(RelayTransactions) /\ Len(transactionHashes) = 1
        /\ transactionHashes[1].value = 0
    BY AddressAssumption DEF Init, RelayTransaction, RelayTransactions
  <2>2. /\ v \in Seq(Int) /\ Len(v) = 1
        /\ \A i \in 1 .. Len(v) : v[i] = 0
    BY <2>1, ValuesType
  <2>. HIDE DEF v
  <2>3. SumTo(v)[0] = 0 /\ SumTo(v)[1] = 0
    BY <2>2, SumOfZeros
  <2>. QED
    BY <2>1, <2>3 DEF Deposits, v
<1>5. Claims(Snapshot) = 0 /\ Snapshot.balance = 0
  BY <1>3, <1>4 DEF Init, Claims, Snapshot
<1>. QED
  BY <1>1, <1>2, <1>5 DEF SolventInv, Solvency

\* Every step keeps the relay solvent.
LEMMA SolventStep ==
  ASSUME TypeInv, TypeInv', QueueInv, QueueInv', ExitsInv, SolventInv, [Next]_vars
  PROVE  SolventInv'
<1>1. CASE Call
  BY <1>1, CallKeepsSolvent
<1>2. CASE Confirm
  BY <1>2, ConfirmKeepsSolvent
<1>3. CASE Execute
  BY <1>3, ExecuteKeepsSolvent
<1>4. CASE End
  BY <1>4, EndKeepsSolvent
<1>5. CASE UNCHANGED vars
  BY <1>5 DEF SolventInv, Solvency, Snapshot, vars, world
<1>. QED
  BY <1>1, <1>2, <1>3, <1>4, <1>5, StepCases

\* What the relay holds covers every claim on it: no exit of a confirmed block
\* and no reimbursement of executeOutgoingTransaction is stuck for lack of
\* ether, whatever the targets call and whether they fail.
THEOREM StaysSolvent == Spec => []Solvent
<1>1. RelayInv /\ RelayInv' /\ SolventInv /\ [Next]_vars => SolventInv'
  BY SolventStep DEF RelayInv
<1>2. SolventInv => Solvent
  BY DEF SolventInv, Solvency, Claims, Snapshot, Solvent
<1>. QED
  BY <1>1, <1>2, InitSolvent, Invariance, PTL DEF Spec
=============================================================================

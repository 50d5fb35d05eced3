----------------------------- MODULE ParentRelay -----------------------------
(***************************************************************************)
(* The relay contract on the parent chain, contracts/relay/ParentRelay.sol:*)
(* the queue of incoming transactions that the rollup chain has to         *)
(* process, and the execution of the exits of confirmed blocks.  An exit   *)
(* hands control to its target, which may call the relay again before the  *)
(* first call has ended and whose failure undoes all that it did: calls is *)
(* the stack of the executions that have not ended.                        *)
(*                                                                         *)
(* An exits root is the sequence of the leaves below it, an index whose    *)
(* leaf was replaced by the empty one holds Gone.  Hashes are injective.   *)
(* The rollup chain is the environment: child is what it owes its          *)
(* accounts, how many queued transactions its confirmed blocks have        *)
(* included and the last confirmed height.                                 *)
(*                                                                         *)
(* A definition under a comment line that begins with \* is a mistaken     *)
(* form of the one after it, which no specification uses: it shows which   *)
(* property notices which mistake.                                         *)
(***************************************************************************)
EXTENDS Integers, SequencesExt

CONSTANTS
    Contracts,   \* accounts of the parent chain with code, which may call on
    Users,       \* accounts without code
    Proxies,     \* the addresses deployContract creates
    ChildRelay,  \* childRelayContract
    Relay,       \* the relay itself, a possible target of an exit
    Null,        \* address(0)
    Gone,        \* the leaf that replaces an executed exit
    Exits,       \* the exits that blocks of the rollup chain may hold
    Receivers,   \* the receivers that deposits may name
    MaxPayment,  \* bound on the value of a call to the relay
    MaxHeight,   \* bound on confirmed heights
    MaxExits,    \* bound on the exits of a block
    MaxQueue,    \* bound on the queue of incoming transactions
    MaxBalance,  \* bound on the relay's balance in calls that pay it
    MaxDepth     \* bound on nested executions

Accounts == Contracts \union Users
Heights == 1 .. MaxHeight
Slots == Heights \X (1 .. MaxExits)

ASSUME AddressAssumption ==
    /\ Gone \notin Exits
    /\ ChildRelay \notin Proxies
    /\ Null \notin Proxies \union {ChildRelay} \union Accounts
    /\ Relay \notin Accounts
    /\ Receivers \subseteq Accounts \union Proxies

ASSUME ExitAssumption ==
    \A e \in Exits :
        /\ e.from \in Accounts \union Proxies
        /\ e.to \in Accounts \union {Relay}
        /\ e.value \in Nat
        /\ e.bounty \in Nat

ASSUME BoundAssumption == {MaxHeight, MaxExits} \subseteq Nat

VARIABLES
    balance,             \* the ether the relay holds
    transactionHashes,   \* the queue of incoming transactions
    deployedContracts,   \* childRelayContract and the deployed proxies
    confirmedExitRoots,  \* height -> the leaves of its exits root
    child,               \* the rollup chain: height, included, supply
    settled,             \* slot -> how often its exit was paid or refunded
    calls                \* the executions that have not ended, outermost first

world == <<balance, transactionHashes, deployedContracts, confirmedExitRoots,
           child, settled>>
vars == <<world, calls>>

(* What a revert of the parent chain brings back.                          *)
Snapshot ==
    [balance |-> balance, queue |-> transactionHashes,
     deployed |-> deployedContracts, roots |-> confirmedExitRoots,
     child |-> child, settled |-> settled]

(* The queue before the transaction that is being executed: what the       *)
(* rollup chain can have seen of it.                                       *)
CommittedQueue ==
    IF calls = <<>> THEN transactionHashes ELSE calls[1].saved.queue

(* The sums of the first elements of a sequence of numbers, by their count.*)
SumTo(v) ==
    LET upTo[n \in 0 .. Len(v)] == IF n = 0 THEN 0 ELSE upTo[n - 1] + v[n]
    IN upTo

Sum(v) == SumTo(v)[Len(v)]

(* The value of the queued transactions from included + 1 up to last.      *)
Values(queue) == [n \in DOMAIN queue |-> queue[n].value]
Deposits(queue, included, last) ==
    SumTo(Values(queue))[last] - SumTo(Values(queue))[included]

(* What the exits below the roots cost the relay: the value that it passes *)
(* on and the bounty for the caller.                                       *)
Cost(e) == IF e = Gone THEN 0 ELSE e.value + e.bounty
Costs(leaves) == Sum([i \in DOMAIN leaves |-> Cost(leaves[i])])
Owed(roots) == Sum([h \in Heights |-> Costs(roots[h])])

(* What running executions have paid for or still will.                    *)
Reimbursements(stack) == [k \in DOMAIN stack |-> Cost(stack[k].exit)]

RelayTransaction(from, to, value) == [from |-> from, to |-> to, value |-> value]

-----------------------------------------------------------------------------
(* initialize queues the deployment of the child relay.                    *)
Init ==
    /\ balance = 0
    /\ transactionHashes = <<RelayTransaction(ChildRelay, Null, 0)>>
    /\ deployedContracts = {ChildRelay}
    /\ confirmedExitRoots = [h \in Heights |-> <<>>]
    /\ child = [height |-> 0, included |-> 0, supply |-> 0]
    /\ settled = [s \in Slots |-> 0]
    /\ calls = <<>>

(* Any account starts a transaction of its own; inside an execution only   *)
(* the target runs, if it has code.                                        *)
InControl(a) ==
    IF calls = <<>> THEN a \in Accounts ELSE a = Last(calls).exit.to /\ a \in Contracts

Paid(value) == balance + value =< MaxBalance /\ balance' = balance + value

_addTransaction(tx) ==
    /\ Len(transactionHashes) < MaxQueue
    /\ transactionHashes' = Append(transactionHashes, tx)

addTransaction(sender, to, value) ==
    /\ InControl(sender)
    /\ to \notin {Null, ChildRelay}
    /\ Paid(value)
    /\ _addTransaction(RelayTransaction(sender, to, value))
    /\ UNCHANGED <<deployedContracts, confirmedExitRoots, child, settled, calls>>

(* The call to a proxy, which passes its caller on.                        *)
forwardFromProxy(sender, proxy, value) ==
    /\ InControl(sender)
    /\ proxy \in deployedContracts \ {ChildRelay}
    /\ Paid(value)
    /\ _addTransaction(RelayTransaction(sender, proxy, value))
    /\ UNCHANGED <<deployedContracts, confirmedExitRoots, child, settled, calls>>

\* The caller is registered instead of the proxy.
DeployRegistersCaller(sender, proxy, value) ==
    /\ InControl(sender)
    /\ proxy \notin deployedContracts
    /\ Paid(value)
    /\ deployedContracts' = deployedContracts \union {sender}
    /\ _addTransaction(RelayTransaction(proxy, Null, 0))
    /\ UNCHANGED <<confirmedExitRoots, child, settled, calls>>

(* deployContract keeps the ether it is sent and queues no value.          *)
deployContract(sender, proxy, value) ==
    /\ InControl(sender)
    /\ proxy \notin deployedContracts
    /\ Paid(value)
    /\ deployedContracts' = deployedContracts \union {proxy}
    /\ _addTransaction(RelayTransaction(proxy, Null, 0))
    /\ UNCHANGED <<confirmedExitRoots, child, settled, calls>>

receive(sender, value) ==
    /\ InControl(sender)
    /\ value > 0
    /\ Paid(value)
    /\ UNCHANGED <<transactionHashes, deployedContracts, confirmedExitRoots,
                   child, settled, calls>>

-----------------------------------------------------------------------------
(* The next block of the rollup chain is confirmed by a call of the peg,   *)
(* which anyone may make, also the target of an exit.  Its exits were paid *)
(* for out of the supply of the rollup chain; it has included queued       *)
(* transactions up to included.  The peg confirms a height once and in     *)
(* order.                                                                  *)
putConfirmedBlock(sender, exits, included) ==
    LET height == child.height + 1
        supply == child.supply
                  + Deposits(transactionHashes, child.included, included)
                  - Costs(exits)
    IN /\ InControl(sender)
       /\ height \in Heights
       /\ included \in child.included .. Len(CommittedQueue)
       /\ supply \in Nat
       /\ confirmedExitRoots' = [confirmedExitRoots EXCEPT ![height] = exits]
       /\ child' = [height |-> height, included |-> included, supply |-> supply]
       /\ UNCHANGED <<balance, transactionHashes, deployedContracts, settled, calls>>

-----------------------------------------------------------------------------
(* Merkle.verifyAndUpdate: a proof for the leaf at an index, and the root  *)
(* without it.                                                             *)
hasOutgoingTransaction(e, i, h) ==
    i \in DOMAIN confirmedExitRoots[h] /\ confirmedExitRoots[h][i] = e

WithoutExit(roots, h, i) == [roots EXCEPT ![h][i] = Gone]

\* No check of msg.value.
ExecuteUnpaid(sender, e, i, h, paid) ==
    /\ InControl(sender)
    /\ Len(calls) < MaxDepth
    /\ hasOutgoingTransaction(e, i, h)
    /\ balance + paid =< MaxBalance
    /\ calls' = Append(calls, [sender |-> sender, exit |-> e, slot |-> <<h, i>>,
                               paid |-> paid, saved |-> Snapshot])
    /\ confirmedExitRoots' = WithoutExit(confirmedExitRoots, h, i)
    /\ balance' = balance + paid - e.value
    /\ UNCHANGED <<transactionHashes, deployedContracts, child, settled>>

(* executeOutgoingTransaction up to the call of the target: the exit is    *)
(* taken out of the root before control leaves the relay.                  *)
executeOutgoingTransaction(sender, e, i, h, paid) ==
    /\ InControl(sender)
    /\ Len(calls) < MaxDepth
    /\ hasOutgoingTransaction(e, i, h)
    /\ paid >= e.value
    /\ balance + paid =< MaxBalance
    /\ calls' = Append(calls, [sender |-> sender, exit |-> e, slot |-> <<h, i>>,
                               paid |-> paid, saved |-> Snapshot])
    /\ confirmedExitRoots' = WithoutExit(confirmedExitRoots, h, i)
    /\ balance' = balance + paid - e.value
    /\ UNCHANGED <<transactionHashes, deployedContracts, child, settled>>

Return == calls' = Front(calls)

(* The call of the target, or of the proxy that calls it, succeeded.       *)
CallSucceeds ==
    /\ calls # <<>>
    /\ LET f == Last(calls) IN
       /\ f.exit.to # Relay
       /\ balance >= f.exit.bounty + f.exit.value
       /\ balance' = balance - (f.exit.bounty + f.exit.value)
       /\ settled' = [settled EXCEPT ![f.slot] = @ + 1]
    /\ Return
    /\ UNCHANGED <<transactionHashes, deployedContracts, confirmedExitRoots, child>>

(* An exit whose target is the relay: without data the relay keeps the     *)
(* value, with the data of addTransaction it queues a deposit of its own.  *)
SelfCallSucceeds(to) ==
    /\ calls # <<>>
    /\ LET f == Last(calls) IN
       /\ f.exit.to = Relay
       /\ balance >= f.exit.bounty
       /\ balance' = balance - f.exit.bounty
       /\ settled' = [settled EXCEPT ![f.slot] = @ + 1]
       /\ \/ UNCHANGED transactionHashes
          \/ _addTransaction(RelayTransaction(
                IF f.exit.from \in deployedContracts THEN f.exit.from ELSE Relay,
                to, f.exit.value))
    /\ Return
    /\ UNCHANGED <<deployedContracts, confirmedExitRoots, child>>

\* The root is updated inside the call and comes back with it.
CallFailsKeepsExit ==
    /\ calls # <<>>
    /\ LET f == Last(calls) IN
       /\ f.exit.to \in Contracts \union {Relay}
       /\ f.saved.balance + f.paid >= f.exit.bounty
       /\ Len(f.saved.queue) < MaxQueue
       /\ transactionHashes' =
             Append(f.saved.queue, RelayTransaction(Null, f.exit.from, f.exit.value))
       /\ balance' = f.saved.balance + f.paid - f.exit.bounty
       /\ confirmedExitRoots' = f.saved.roots
       /\ settled' = [f.saved.settled EXCEPT ![f.slot] = @ + 1]
       /\ deployedContracts' = f.saved.deployed
       /\ child' = f.saved.child
    /\ Return

\* The refund takes the place of the last queued transaction.
CallFailsOverwrites ==
    /\ calls # <<>>
    /\ LET f == Last(calls) IN
       /\ f.exit.to \in Contracts \union {Relay}
       /\ f.saved.balance + f.paid >= f.exit.bounty
       /\ Len(f.saved.queue) < MaxQueue
       /\ transactionHashes' =
             [f.saved.queue EXCEPT ![Len(f.saved.queue)] =
                 RelayTransaction(Null, f.exit.from, f.exit.value)]
       /\ balance' = f.saved.balance + f.paid - f.exit.bounty
       /\ confirmedExitRoots' = WithoutExit(f.saved.roots, f.slot[1], f.slot[2])
       /\ settled' = [f.saved.settled EXCEPT ![f.slot] = @ + 1]
       /\ deployedContracts' = f.saved.deployed
       /\ child' = f.saved.child
    /\ Return

(* The target failed: what it did is undone, the value stays with the      *)
(* relay, the refund is queued for the account that made the exit and the  *)
(* caller gets the bounty.                                                 *)
CallFails ==
    /\ calls # <<>>
    /\ LET f == Last(calls) IN
       /\ f.exit.to \in Contracts \union {Relay}
       /\ f.saved.balance + f.paid >= f.exit.bounty
       /\ Len(f.saved.queue) < MaxQueue
       /\ transactionHashes' =
             Append(f.saved.queue, RelayTransaction(Null, f.exit.from, f.exit.value))
       /\ balance' = f.saved.balance + f.paid - f.exit.bounty
       /\ confirmedExitRoots' = WithoutExit(f.saved.roots, f.slot[1], f.slot[2])
       /\ settled' = [f.saved.settled EXCEPT ![f.slot] = @ + 1]
       /\ deployedContracts' = f.saved.deployed
       /\ child' = f.saved.child
    /\ Return

(* The transfer to the caller fails, because a contract does not take it   *)
(* or the relay cannot pay it: the whole execution is undone.              *)
TransferReverts ==
    /\ calls # <<>>
    /\ LET f == Last(calls) IN
       /\ \/ f.sender \in Contracts
          \/ balance < f.exit.bounty + f.exit.value
       /\ balance' = f.saved.balance
       /\ transactionHashes' = f.saved.queue
       /\ deployedContracts' = f.saved.deployed
       /\ confirmedExitRoots' = f.saved.roots
       /\ child' = f.saved.child
       /\ settled' = f.saved.settled
    /\ Return

Next ==
    \/ \E sender \in Accounts, value \in 0 .. MaxPayment :
        \/ \E to \in Receivers : addTransaction(sender, to, value)
        \/ \E proxy \in Proxies :
            \/ forwardFromProxy(sender, proxy, value)
            \/ deployContract(sender, proxy, value)
        \/ receive(sender, value)
        \/ \E h \in Heights, i \in 1 .. MaxExits, e \in Exits :
            executeOutgoingTransaction(sender, e, i, h, value)
    \/ \E sender \in Accounts, exits \in SeqOf(Exits, MaxExits), n \in 0 .. MaxQueue :
        putConfirmedBlock(sender, exits, n)
    \/ CallSucceeds
    \/ \E to \in Receivers : SelfCallSucceeds(to)
    \/ CallFails
    \/ TransferReverts

Spec == Init /\ [][Next]_vars

-----------------------------------------------------------------------------
RelayTransactions ==
    [from : Accounts \union Proxies \union {ChildRelay, Relay, Null},
     to : Accounts \union Proxies \union {Null}, value : Nat]

Leaves == Exits \union {Gone}

(* The shape of the state: amounts are natural numbers, a root has at most *)
(* MaxExits leaves, the rollup chain has included no more than is queued.  *)
TypeOK ==
    /\ balance \in Nat
    /\ transactionHashes \in Seq(RelayTransactions)
    /\ deployedContracts \subseteq Proxies \union {ChildRelay}
    /\ confirmedExitRoots \in [Heights -> Seq(Leaves)]
    /\ \A h \in Heights : Len(confirmedExitRoots[h]) =< MaxExits
    /\ child \in [height : 0 .. MaxHeight, included : 0 .. Len(transactionHashes),
                  supply : Nat]
    /\ settled \in [Slots -> Nat]

Executed(roots) ==
    {s \in Slots : s[2] \in DOMAIN roots[s[1]] /\ roots[s[1]][s[2]] = Gone}

Running(depth) == {calls[k].slot : k \in 1 .. depth}

(* An exit leaves the exits root exactly when it is settled, once: it was  *)
(* paid to its target or refunded to its sender, or its execution is still *)
(* running.  A target that calls the relay again, with the same exit or    *)
(* another, and fails or not, settles nothing twice and loses nothing.     *)
SettledOnce ==
    \A s \in Slots :
        settled[s] = IF s \in Executed(confirmedExitRoots) \ Running(Len(calls))
                     THEN 1 ELSE 0

(* What the relay holds covers every claim on it: the exits that were not  *)
(* executed, the supply of the rollup chain, the deposits and refunds it   *)
(* has not included yet, and the reimbursements of the executions that are *)
(* running.  No exit is stuck for lack of ether.                           *)
Solvent ==
    balance >= child.supply
               + Deposits(transactionHashes, child.included, Len(transactionHashes))
               + Owed(confirmedExitRoots)
               + Sum(Reimbursements(calls))

(* What a confirmed block has included stays where it is in the queue, so  *)
(* that the indices by which the blocks of the rollup chain name incoming  *)
(* transactions stay right, whatever the calls in between undo.            *)
IncludedIsFinal ==
    [][/\ IsPrefix(SubSeq(transactionHashes, 1, child'.included), transactionHashes')
       /\ IsPrefix(CommittedQueue, CommittedQueue')]_vars
=============================================================================

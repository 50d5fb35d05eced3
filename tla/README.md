# A TLA+ verification of interstatejs

interstatejs is an optimistic rollup. An operator executes the transactions of
the rollup chain off-chain, publishes each block to contracts on a parent
chain, and puts up a bond. Anybody may challenge a transaction of a published
block; the operator answers with a *message witness* of the transaction's
execution; anybody may prove an error in the block or the witness, which
reverts the block. A block that survives the confirmation period is confirmed
and its exits may be executed on the parent chain.

Paths are relative to `packages/` of the repository; `contracts/…` is short for
`packages/contracts/contracts/…`.

## 1. Inventory

| Component | State | Operations | Interacts with |
|---|---|---|---|
| Peg: `peg/ChainPeg.sol`, `common/ChainStateLib.sol` | `confirmedBlocks`, `pendingBlocks[parent][i]`, `revertedBlocks`, `challengesByBlock`, owner, ether | `initialize`, `submitBlock`, `confirmBlock`, seven delegatecall entry points | runs the manager and the provers in its own storage; writes exits roots to the relay |
| Challenges: `challenge/*.sol` | per block: coinbase, counter of open challenges, challenge and witness hash per transaction | `challengeTransaction`, `respondToChallenge`, `challengeTimeout`, `reclaimChallengeBond` | by delegatecall in the peg's storage |
| Payments and periods: `common/config/ConfigLib.sol` | the ether of the peg | receive, repay, reward, burn | called by all of the above |
| Fraud provers: `fraud-proofs/*.sol` | none of their own | 40 proofs; `cancelSimpleTransactionChallenge` | read blocks, witnesses and relay; `markFraudulentBlock` |
| Proof libraries: `fraud-proofs/lib` | none | account, storage, prior-state and exit proofs | sparse Merkle tree, codecs |
| Relay: `relay/ParentRelay.sol`, proxies, archives | queue of incoming transaction hashes, exits root per block, deployed proxies | `addTransaction`, `deployContract`, `forwardFromProxy`, `putConfirmedBlock`, `executeOutgoingTransaction` | peg, arbitrary receivers |
| Child relay: `relay/ChildRelay.sol`, `utils` | exits of a block on the rollup chain | add an exit, root of the exits | VM |
| Merkle trees: `common/rollup/*.sol`, `sparse-merkle-tree/src` | node database, root | get, update, delete, proofs, checkpoints | state manager, provers |
| Tree database: `sparse-merkle-tree/src/db` | stack of write caches over a bucketed store | checkpoint, commit, revert, get, put, del, bucket | tree |
| State manager: `vm/lib/state/manager.ts` | tree, storage tries, touched sets, checkpoint count, cached child relay | accounts, storage, checkpoint, commit, revert, set root | tree, VM |
| VM: `runBlock`, `runTx`, `evm/*`, `witness/*` | message stack, gas, witness under construction | run a block, a transaction, a message | state manager |
| Listeners: `monitor/src/parent-listeners` | position per event, subscription | replay, subscribe, handle | parent chain, databases, auditor |
| Databases: `monitor/src/db` | blocks, hashes by height and parent, challenges, incoming transactions, positions | get-modify-put sequences over LevelDB | listeners, auditor |
| Auditor, challenge monitor, adapters: `monitor/src` | none beyond the databases | audit a block or a witness, challenge, prove, answer | listeners, peg |
| Types and codecs: `block`, `tx`, `account`, `utils` | none | encode, decode, hash | all |
| Hypervisor | none | replays a witness in the parent chain's EVM | witness prover |

**What is hard, and what correctness means.**

* *Peg and challenges.* Each call is atomic, but the order of the calls of
  producer, challengers and provers is free. Correct means: a block is
  confirmed only as the first good child of the last confirmed block and only
  without open challenges; every dispute ends in favour of one side after its
  period; each bond is paid exactly once; a good block is never reverted.
* *Relay.* The external call of an exit can fail or call back. Each exit is
  executed at most once; its value ends at the receiver or in one refund.
* *Tree, database, state manager, VM.* Any nesting of checkpoints, reads that
  fill caches, several tries over one database. After a revert the state is
  that of the checkpoint; a commit loses nothing.
* *Node.* JavaScript interleaves at every `await`: event handlers overlap,
  databases are changed by read-modify-write over two awaits, the process may
  stop between two writes and replays events when it returns. No event may be
  lost, effects of repeated events must not be repeated, blocks must be audited
  against their parents.

`PROJECT.json` lists the hazards line by line.

## 2. What is built, and what is left

| Part | Modules | State |
|---|---|---|
| Peg | `ChainState`, `ChainPeg`, `ChainPegProofs` | checked and proved |
| Relay on the parent chain | `ParentRelay`, `ParentRelayProofs` | checked and proved |
| Database of a tree | `SnapshotStack`, `CheckpointDB`, `CheckpointDBProofs` | refinement checked and proved |
| Sparse tree and Merkle proofs | `MerkleTrees`, `SparseTree` | checked |
| State manager, blocks, transactions, messages | `StateManager`, `VM`, `VMProofs` | checked and proved |
| Instructions | `Words`, `Machine` | checked |
| Block audit against the proofs of the peg | `Execution`, `FraudProofs`, `BlockAudit`, `BlockAuditProofs` | checked and proved, with liveness checked |
| Messages, their witnesses, proofs about these and their audit | `Interpreter`, `WitnessProofs`, `WitnessAudit`, `WitnessInvariants`, `WitnessAuditProofs` | checked; what holds of honest witnesses, of cached balances and of what the auditor reports proved |
| Node that audits submitted blocks | `Monitor`, `MonitorProofs` | checked and proved, with liveness checked |
| Node that answers challenges | `ChallengeMonitor`, `ChallengeMonitorProofs` | checked and proved, with liveness checked |

How they build on each other: `FraudProofs` EXTENDS `Execution` (what the
transactions of a block do) and `BlockAudit` EXTENDS `FraudProofs`;
`WitnessProofs` EXTENDS `Interpreter` and `WitnessAudit` EXTENDS
`WitnessProofs`, so that each audit runs against the execution and against
every proof the peg accepts. `WitnessInvariants` EXTENDS `WitnessAudit` with
the invariants that `WitnessAuditProofs` proves of it. `SparseTree` EXTENDS `MerkleTrees`, the verifier
of its proofs. `VM` EXTENDS `StateManager`; both take from `CheckpointDBProofs`
that the database is a stack of snapshots. `Machine` EXTENDS `Words`. `ChainPeg`
takes the verdict of a proof as a constant, which `FraudProofs` and
`WitnessProofs` explain; the two monitors take the peg as a log of events.

Left, in this order: a proof of `PassedStands` of `WitnessAudit`; an abstract
dispute over one transaction that `ChainPeg` implements; the node's list of
incoming transactions; contract creation with witnesses.

## 3. The modules

**`ChainState`** declares the constants with their assumptions, the variables,
`TypeOK`, `Init` and the helpers of `ChainStateLib`, `ChallengeLib` and
`ConfigLib`. **`ChainPeg`** has one action per public function of `ChainPeg`
and `ChallengeManager`, and one per shape of proof. It begins with mistaken
forms of some operations: no specification uses them, they show which property
notices which mistake. **`MCChainPeg`** and the `Peg*.cfg` files
are the instances for TLC. **`ChainPegProofs`** holds the proofs.

| Model | Code |
|---|---|
| a block hash | the header it hashes: hashes do not collide |
| `pendingBlocks[p][i]`, from 1 | `pendingBlocks[p][i-1]`, a commitment hash, as the commitment's distinguishing fields `submittedAt` and `blockHash` (the other two are functions of the header) |
| `challenges[h][t]`, `witnessHashes[h][t]` | the two mappings of `BlockChallengeState` |
| `coinbase[h]` | recorded at the first challenge; it equals `owner` because `checkBlockIntegrity` requires `coinbase == msg.sender` and `onlyApproved` requires the owner |
| `balance` | the ether the peg holds, in units of 0.0025 ether so that quarters of the rollup bond are whole |
| `submitted`, `passedChecks` | the events emitted, and a history of the successful checks of `confirmBlock` |
| `Tick` | a new parent-chain block; every other action is one call within the current block |

A call that reverts changes nothing and is no step. `ConfirmBlock` is the
exception: its checks succeed and its write is out of bounds, so that the whole
call reverts. The step keeps the state and records in `passedChecks` that the
checks succeeded, which is what `ConfirmableInOrder` and `CheckedIsConfirmed`
speak about; the other branch is what the code would do if the index were legal.

`ProveHeaderError` stands for the proofs of `BlockErrorProver`,
`TransactionErrorProver`, `ExecutionErrorProver` and the three header proofs of
`EncodingErrorProver`; `ProveWitnessError` for those of `AccessErrorProver`,
`WitnessErrorProver` and the access-record and exit proofs. Whether a proof
succeeds depends on data that no operation changes, so it is a constant:
`FaultyHeaders` have an error provable without a witness, `FaultyWitnesses` one
that needs the witness, `SimpleTx[h]` are the transactions of `h` without a
contract as receiver. Callers are externally owned accounts: transfers to them
succeed.

**`SnapshotStack`** is the abstract database with checkpoints: a stack of
contents, of which every call reads or changes the top. **`CheckpointDB`** is
the code: `base` is what LevelDB holds, `layers` are the maps of the `Cache`
objects from the lowest to the highest, `call` the last call with its answer. A
bucket (`isBucket`) has one more `Cache` at the bottom, which is no checkpoint,
over the container's database; its keys are the container's with a prefix. A
`get` descends through the caches to the first that has an entry and copies the
value into all above it, on its way back (`Filled`). A flush to a cache is one
step, since it is synchronous; a flush to LevelDB is one write per key, and
`StopInCommit` ends the process between two of them. Errors of LevelDB are left
out. **`CheckpointDBProofs`** holds its proofs; its instance is, together with
that of `Machine`, **`MCVMParts`**: one behaviour is of a tree's database, of a
bucket or of the interpreter, and the others rest.

**`ParentRelay`** is the relay with the transactions of the parent chain that
call it. The target of an exit gets control in the middle of
`executeOutgoingTransaction` and may call the relay again: `calls` is the stack
of executions that have not ended, each with what the relay would get back if
its target failed (`saved`), and while it is not empty only the target on top
acts. An exits root is the sequence of its leaves, since a Merkle proof for a
leaf exists exactly when the leaf is there and hashes do not collide; the empty
leaf that replaces an executed exit is `Gone`. Three points of the code that a
reader may trip over are kept as they are: `deployContract` keeps the ether
that it is sent and queues none of it; the value that a forwarder puts in for
an exit that fails stays with the relay and pays for the refund
(`ParentRelay.sol:213-216` says so); an exit may name the relay itself, which
then keeps the value, or queues it as a deposit of its own if the exit's data
says `addTransaction` (calls of the relay's other functions by itself are left
out). The rollup chain is the environment: `putConfirmedBlock` lets it confirm
any block whose exits its supply can pay for, after including any number of
queued transactions. What the peg promises is assumed here: heights are
confirmed in order, each once. (By `GenesisOnly` the peg of this commit confirms
nothing at all.) `settled` is a history of payments and refunds, undone with
the rest when a call is.

**`Monitor`** is the part of the node that follows `BlockSubmitted`. JavaScript
runs one handler at a time up to its next `await`, so that each step is one
operation on a database, or one call to the parent chain, with the code up to
the next. `tasks` holds a record per delivered event, and `pc` names the operation it
does next; `read` is the list that was read before an `await` and is written
after it. The latest height and the list of that height are two operations
(`SetLatest`, `WriteHashes`), since `update` awaits each of its puts.

| Model | Code |
|---|---|
| `log` | the `BlockSubmitted` events in order, each in a parent block of its own |
| `listener.phase` | `start`: position not looked up yet, no past events, past events in hand, subscribed |
| `blocksDB`, `blockHashes`, `childHashes`, `latest` | `BlockDatabase`; the lists by height and by parent and `_latest` of `BlockHashDatabase` |
| `Verdict[b]` | the outcome of the audit of `b` on the state of its parent: none of the code after `checkHeader` reads anything that changes |
| `Ended` | how a handler ended: stored, challenged, error proven, or an unexpected error logged (`lost`) |

`getPastEvents` is taken to return every past event, as the comment at
`incoming-transaction-listener.ts:74-81` and its use there imply. The databases
are in memory: given a path, `BlockDatabase` and `BlockHashDatabase` would open
the same LevelDB directory `blocks`, and the second open fails on the lock.
So `Restart` begins with genesis alone. For the same reason the position that the
listener stores is read only where there is none, and is left out.

**`ChallengeMonitor`** is the node of an operator, after the same manner: peg
and mempool are its environment, `listener` has the two `EventListener`s
(that of responses starts when the other has subscribed), `records` is
`ChallengeDatabase`, and a handler of `tasks` reads the record of a block
(`Get`), writes it back (`Put`) and, for a challenge, goes on to execute the
block and send the witness (`handleChallenge`, `Answer`). A handler is named by
its event and by the phase of the listener that started it, since the last past
event comes once more through the subscription. What the model found along the
way, and keeps: a block that the node does not have is `null` and throws, and
its challenge is never answered; nor is one of a transaction whose execution, or
that of one before it, throws in `runTx` (`Throwing`, as a transaction straight to a
precompile does, `evm.ts:239`) or gives no witness (`Unwitnessed`,
`challenge-monitor/index.ts:58`); a challenge that is delivered twice is recorded
as pending again after its answer, and answered twice, where the second answer
reverts and nothing catches that; a response whose challenge is not in the
record throws, and as a past event makes `startListeners` fail; two handlers of
one block lose one another's update. `ResponseThrowsOnlyIfNew` says which of
these never meet.

**`MerkleTrees`** has the verifier of the contracts (`SparseMerkleTree.sol`,
`MerkleProofLib.sol`, `MerkleTreeLib.sol`) and the lists of `utils/merkle.ts`;
a hash is the tuple of what was hashed, and `NoBytes` the leaf of no bytes that
`verify` refuses. **`SparseTree`** is `base-tree.ts` and
`checkpoint-tree.ts`: a root, the set of hashes under which the database has a
node, and `contents`, what the root should stand for. `verifyAndStore` does not
await its puts (`base-tree.ts:435`). In a checkpoint and in a bucket the value is in
a map when `put` returns, and in a database in memory, too; a database on disk
without a checkpoint is left out.

**`StateManager`** and **`VM`** separate the storage trie that the manager has
cached from what the account's storage root stands for. A frame is a block, a
transaction or a message that has opened a checkpoint. `expected` is what the
state should be, kept by the operations of a database that loses nothing.
Three histories record where the code is known to differ (below): `forgotten`
has the contracts of which a trie was dropped, `stale` says that the cached relay
may have exits of before or undone ones, `leaked` counts the checkpoints that
precompiles left behind. A block ends in one of three ways: given up in a
transaction (`ThrowTx`, reverted), completed (`EndBlock`), or rejected for its
roots after the commit (`RejectBlock`: `BlockStateRootError`,
`BlockExitsRootError`, `TransactionStateError`, or a `getStateRoot` that throws).

**`Words`** translates the arithmetic instructions of `opFns.ts` on unbounded
integers and, beside it, the definition of each on words of any width;
**`Machine`** is `interpreter.ts` with stack, memory, jumps and the data of the
call. Gas of memory and copies is missing in the code itself (`subMemUsage`
says it was modified to do nothing), so that offsets are limited only by what
a JavaScript number and array hold (`MaxNumber`).

**`Execution`** is `runTx` for one transaction, **`FraudProofs`** the proofs
that need no witness, **`BlockAudit`** the auditor with a relay that goes on
queueing. A leaf of a block has a *form*, which says who can decode it.

**`Interpreter`** executes a transaction step by step, with the message stack,
gas, and the witness that each instruction extends; the code of a contract is a
set of instructions of which any may be next. `SetupAssumption` says where it
begins: the gas covers the base fee and the sender of a signed transaction can
pay for all of it, since `runTx` throws otherwise (`runTx.ts:110-123`; only tests
give `skipBalance`); the gas of an incoming transaction has no price, since no
field of `IncomingTransaction` gives one (`incoming.ts:81-117`). **`WitnessProofs`** is what the
peg accepts as a proof that a witness is wrong, **`WitnessAudit`** changes the
witness in one place, or not, and audits it. A Merkle proof is the state it was
made from. Proofs are made from the exact states of the execution and from the
auditor's own state. That state is `Reverted`: the auditor opens one checkpoint,
executes the transaction and reverts one checkpoint, its own unless messages
left more than one open.

## 4. The runs

All runs use `CHECK_DEADLOCK FALSE`: a contract is passive, and
so is a node that waits for events; an audit, a call of the interpreter and a
sequence of blocks end; when the bounds
are used up nothing is left to do. In the runs of the peg accounts are
interchangeable (no constant names one), so that `SYMMETRY` over them is sound;
it is used with safety properties only.

| Run | Instance | Shows |
|---|---|---|
| `peg` | two siblings, both faulty, submitted up to twice under one parent; one has two transactions (one simple), the other none; two witnesses (one faulty), 5 parent blocks, period 2 | events name slots; zeroed slots are frauds; a witness is final; every payment uses up its claim; challenges run their period; the counter covers the challenges; confirmability is in order |
| `peg_unanswered`, `peg_unconfirmed`, `peg_unreleased` | the smallest instances with the case | the disagreements below |
| `sparse_tree` | height 3, keys 0, 1 and 6, a value of 32 bytes, one of 64 and none, a foreign tree, one checkpoint, lists of up to 6 leaves | root and contents agree, which updates fail, the contracts accept exactly the proofs of what is there |
| `vm_state` | two contracts (one to be created), one slot, two blocks, messages nested twice, one checkpoint left behind | checkpoints match frames but for those left behind, a cached trie matches its account, headers have the exits of their block, what is left of a block that ends |
| `vm_parts` | a database, of a tree or of a bucket: two keys, one value, up to three checkpoints, stops inside a flush; the interpreter: words of three bytes of two bits, every instruction on all words (nine each for three operands), codes of up to five jumps and pushes, three stack and two memory instructions | reads answer from a stack of snapshots (`ImplementsSnapshots`), the database beneath sees only the last commit; results are those of the definitions, no jump into data, memory is counted |
| `relay_exits` | two heights of up to two exits (a call with a bounty, one of a proxy, one to the relay), executions nested twice, queue of 4, balance up to 3 | an exit is settled once and leaves the root when it is (`SettledOnce`); the relay can pay all it owes (`Solvent`); the queue the rollup chain has read is final |
| `audit_blocks` | some 3,700 blocks of up to three transactions, seven accounts, a queue of four | who is convicted, rejected, passed and challenged rightly, and the exceptions by name |
| `witness_audit` | 169 beginnings: transfers, exits, looks, stores into two slots, calls, what follows a call that fails, precompiles called in up to three messages, with up to three records in a message and one in a nested one; every witness of up to two records with one change of a field, the last record, or the length | which honest witnesses stand, which passed ones, and which reports the peg rejects |
| `monitor_audit` | three submissions out of two good siblings, a faulty one and a child that needs a challenge; two handlers at once, one restart | what is listed is there or comes, also the list of the latest height; no event is skipped by a node that found past ones; what the node can judge it judges in the end |
| `challenges_answered` | one block of the operator, three transactions of which the last throws, two challenges (also the same again after a timeout), one restart | a challenge heard after its block was stored is answered in the end if its transaction gives a witness; which responses throw |

Bounds: `MaxL1Block` lets a challenge be raised, answered and run out twice
(`ChallengePeriod` 2 instead of 512, `ConfirmationPeriod` 1 as in the code).
`MaxUint` 7 stands for 2^256 - 1: the counter wraps below zero but never
above, since `MaxOpenChallenges` stops new challenges first; in the code it
would take 2^256 of them.
The bonds keep their ratio of 100 to 1. `MaxChildren` bounds submissions only,
and the properties relate at most two siblings.

For the tree database three layers are enough to have a commit into a cache that
itself has one below, and a read that fills two caches; `Implementation` proves
the result for every number, of trees and of buckets (`isBucket`), whose lowest
cache is no checkpoint. Two keys tell a write from a read of another key and let
a flush stop half-way. Keys, and values, are interchangeable.

For the relay, two executions deep is the least in which a target executes
another exit, or the same one, and then succeeds or fails on its own; one more
level repeats the relation between two neighbours. Two heights let a block be
confirmed inside an execution, whose failure takes the confirmation back. The
queue of 4 holds the first deployment, a deposit and two refunds.
For the monitor, two handlers suffice for a lost update, and three events for a
block to come twice, as past event and through the subscription, while another
is handled; a third handler would have to interleave with both.

For the challenges, two are the least with which two handlers of one block
overlap, and a third would have to overlap with both; a timeout after the last
challenge is left out since nobody listens to it. With a single block every
challenge is of the operator; handlers of other blocks end at the comparison
with `from`, before anything is sent.
For the sparse tree, height 3 is the least with a node that is neither root nor
next to a leaf, and keys 0, 1 and 6 share all, some and no levels (6 is cut to
2); `MaxNodes` 8 bounds the database. For the VM, messages nested twice show a
commit into a frame that then fails, and two blocks a relay cached from an
earlier height. `MaxLeaks` 1 lets one checkpoint be left behind, in the first
block and before it has made exits (`CanLeak`); after it the VM completes no
block, which `AllOrNothing` says, so that what follows are messages and
blocks that are given up or rejected. Words of six bits are the least with bytes on both sides of the
one an instruction picks and a sign bit apart from them. For witnesses, two
slots are the least with a store beside another one, and one record in a nested
message suffices for a root that changes between two records; three records in the first message put one before, at and behind
the change; one change of a witness keeps the cause of a report unique. Gas is in
units chosen so that each instruction can run out of it.

**Fairness and liveness.** `Monitor` has weak fairness of its listener and of
each handler: the event loop runs every callback whose operation has ended, and
no handler of this code can keep another from being run. `ChallengeMonitor`
makes do with less, of its listeners together and of its handlers together (some
listener and some handler goes on): each handler has a bounded number of
steps. It also assumes that an answer that was sent is mined
(`respondToChallenge`), which is what the node waits for. Nothing else is
assumed about the parent chain: blocks and challenges may come or not, and the
node restarts or not. `JudgedIfParentKnown` and `AnsweredIfStored` rest on it.
`BlockAudit` has weak fairness of the audit's steps and of the proof it sends,
for `WrongIsAnswered`, not of the relay; in `Machine` the interpreter goes on with
its call.
For the peg and the relay there is no liveness. Nothing in the contracts acts on
its own, and the node calls `challengeTimeout`, `reclaimChallengeBond` and
`confirmBlock` nowhere by itself (`monitor/src/contract-adapters` only offers
them). Fairness of these calls would be an assumption about people, so the
specification has none.

### Where code and documentation disagree

*An unanswered challenge does not revert the block* (run `peg_unanswered`).
`ChallengeManager.sol:90` rewards the challenger and deletes the challenge; nothing
writes `RevertReason.TIMEOUT`, of which `ChainStateLib.sol:40` says "Reverted due
to lack of challenge response".

*No block is confirmed* (run `peg_unconfirmed`). `ConfigLib.sol:24-28` says of the
confirmation period that a block may be confirmed after it, and
`ChainStateLib.sol:22` that "we also want to select the first good block at a
given height". A block that passes every check of `confirmBlock` is not
confirmed: `ChainStateLib.sol:153` writes one past the end of the array, so that
the call reverts. `GenesisOnly` proves that this is so for every block.

*A block whose challenges were answered stays refused* (run `peg_unreleased`).
`ChainStateLib.sol:126-129` refuses a block because "Block has pending challenges.";
`ChallengeManager.sol:93` decrements the counter of a memory copy, so that an
answered challenge that has run out is counted for good. `UncountedIsUntouched`
proves how far this goes: without simple transactions the counter never returns
to zero.

### What the models keep of the code that a reader may not expect

*Peg.* An answer is accepted where nobody raised a challenge
(`ChallengeLib.sol:101`). The entry that it makes has no challenger and was not
counted; if its transaction is simple it can be cancelled
(`ExecutionErrorProver.sol:365`), and that decrement is one too many and wraps at
zero. `PendingIsCounted` leaves blocks with such an entry out and says of all
others that the counter is never below the challenges with a bond. A block proven
fraudulent passes the checks if its header is submitted again.

*Tree and database.* What is committed in a bucket stays in a cache that nothing
flushes (`checkpoint-db.ts:62`). Keys are cut to one bit less than the height; the
verifier looks at no path bit above the last sibling; a leaf of 64 bytes has no
proof that is accepted; a tree created with a root it has no node of is empty
without an error; `EMPTY_ROOT` itself is not in the database at the start; `verifyAndStore`
does not await its `put`; a proof of a key whose leaf alone is missing throws a
`TypeError`. The comment of `MerkleProofLib.verify` speaks of leaves longer than 32
bytes, its check of empty ones.

*State manager and VM.* A revert empties the cache of storage tries
(`manager.ts:343`); a trie that is opened again reads through a new bucket, finds
no node and is empty, so that all storage, also that of earlier messages, reads as
empty after any revert, until the next store writes a root that has nothing else.
`StorageIsKept` states what remains, with `forgotten` for the contracts concerned.
The child relay is cached for good, with exits of earlier heights and undone ones:
`ExitsAreKept` says that the header of a block has all its exits in their order, and
no others unless such were cached (`stale`). With `produceWitness` a call of a precompile throws between checkpoint
and commit (`evm.ts:239`); the checkpoint that is left behind makes `getStateRoot`
throw from then on, and frames around it revert and commit the wrong one.
`runBlock` commits before it compares roots (`runBlock.ts:113`), so that a block
rejected for them leaves its effects (`RejectBlock`, and `AllOrNothing` says so). `setStateRoot` compares with the empty root by identity of
buffers. The set of touched accounts is read by nothing. A PUSH at the end of the
code pads on the left; the gas of SSTORE tests `found.length` of an object.

*Blocks and their proofs* (exceptions named in `BlockAudit`). Prover and
auditor charge 21000 for a simple signed transaction with data, `runTx` charges the
data as well (`ExecutionErrorProver.sol:256`); child relay and precompiles have no
code and yet execute; `ChildRelay.create` reads a key of the height's bytes and
writes one of 32 bytes; forms of encodings and signatures that the
node's libraries refuse and the contract reads are reported and rejected; a
header may count more incoming transactions than it has; a report that
transactions are not queued yet is overtaken by the queue; an incoming call of the
relay claimed as a transfer passes, and what follows it is not audited; an
empty block makes the audit throw; the proof of an insufficient balance looks at
the state after the transaction.

*Witnesses* (exceptions named in `WitnessAudit`). `HonestStands` names what can
be proved wrong of an honest witness. In every case: its context
(`MessageWitnessLib.sol:50` inverts `isStatic`) and its encoding
(`tryDecodeMessageWitness` is called under a name that does not exist). In some:
BLOCKHASH records, which the peg does not decode; a zero COINBASE; EXTCODEHASH of an empty
account and EXTCODESIZE of code that is not archived; SLOAD and SSTORE of short
leaves, read from the left, and of storage that was not cached; a CALL of a
contract that succeeded, or of a target that is not allowed; exits that failed, that carry more bytes
than an exit, or that were made after a call to a contract; where the code calls a
precompile, also what follows a message that failed: its checkpoint is one too
high, the revert undoes nothing, and the copies of balances that the callers
hold, and CALL records, no longer agree with the state; the input root of a transfer of nothing to an
absent account or of an incoming transaction to the relay; refunds of nested messages and of
failed ones; the root of a signed transaction that failed in a precompile. Never:
HEADER, EXTCODECOPY, STATICCALL, the output root, the gas of an exit call, the
root of a transaction that succeeded, and too much gas; BALANCE and SELFBALANCE
only after a message that failed in a precompile. `PassedStands` says that
what the auditor passes cannot be proved wrong outside the same list. It leaves
out incoming messages to the child relay: their auditor has no check of exits,
so that a witness with another gas or root would pass, but the parent relay
queues none (`ParentRelay.sol:121`). The auditor
itself reports some honest witnesses: `checkCall` takes the caller for the
receiver and keeps the debit of a call that failed, which makes all that follows
wrong (`DebitKept`); storage tries opened in a fresh bucket read as empty, so that a store beside
another slot is reported; the exits root is
compared with the input root; `OUTPUT_STATE_ROOT` is unknown to
`function-map.ts`; a list without a root makes `checkOutputRoot` throw; zero
balances are stored as no bytes; an incoming sender other than zero; and where
more than one checkpoint was left open, its one revert leaves it with the state of
a message, so that nearly every check may fail (`RevertMissed`). And the peg
rejects some of its reports (`ReportedAndRejectedOnlyIf`): every CALL error, whose
proof is of the contract where the prover expects the sender of the transaction; SSTORE errors
on storage that is not empty; exit errors when the block has exits already; encoding errors of lax data.

## 5. The proofs

`ChainPegProofs` proves, for all values of the constants under the assumptions
of `ChainState`, every property that the run `peg` checks, and how far the
disagreements of two other runs go:

* `TypeCorrect`: `TypeOK` is inductive; most of the work is the sequences of
  slots and the range of the counter.
* `GenesisOnly`: the checks require `Len(confirmedBlocks) = n`, which refutes
  `InBounds` (lemma `ConfirmOutOfBounds`), so `confirmedBlocks` and `exitRoots`
  never change.
* `AnswersOnRecord`, `BondsHaveChallenges`: from the inductive `RecordsOK`,
  which relates the challenge and the witness of one transaction. Neither
  property is inductive alone: that a pending challenge has a challenger is
  needed to know that an answer keeps one. Lemma `DisputeSteps` sorts the
  actions by what they do to a dispute and is shared by all proofs here.
* `WitnessIsFinal`, `PayoutsAreFinal`, `PeriodIsRespected`: action properties.
  The second needs `RecordsOK`, since `reclaimChallengeBond` tests the
  challenger and the property speaks of the step.
* `UncountedIsUntouched`: from `CountedInv`, which adds that the counter is at
  most `MaxOpenChallenges`; without it the increment might wrap to zero.
* `PendingAreCounted`: from `BackedInv`, which adds the same bound of the counter:
  the bound keeps the increment from wrapping, the challenges held keep the
  decrement from it. That cancellations are of challenges that were counted
  follows from `RecordsOK`.
* `EventsNameSlots`, `OnlyFraudIsDeleted`: together inductive as `SlotsInv`; the
  second needs the first to know which block was announced for a slot.
* `ConfirmableSelectsFirst`: from `SlotsInv` and `EventsNameParents`.

`CheckpointDBProofs` proves, for every set of keys and values and any number of
checkpoints:

* `TypeCorrect` (its `TypeOK` is in no run: the refinement's run shows more), and
  from it `BaseIsIsolated`.
* `Implementation`: `CheckpointDB` implements `SnapshotStack`, step by step,
  under the mapping `snaps <- Stack(base, layers)`. The view through `n` layers
  is defined by the one layer that answers for a key instead of by recursion.
  Lemma `ViewAbove` relates it to the view through `n - 1` layers, and every
  call changes only the top of the stack (`WrittenViews`) or no view at all
  (`FilledViews`, for the copies a read leaves in the caches), so that no
  induction over the layers is needed. The type invariant is the only
  invariant the refinement rests on.

`ParentRelayProofs` proves, for all accounts, exits, heights and any depth of
nested executions, the properties of `relay_exits`:

* `TypeCorrect`, from `TypeInv`, which types every frame of the stack and the
  state saved in it, and `QueueInv`.
* `ExitsSettleOnce`: `SettledOnce` speaks of the current state, but a failure
  makes a saved state current. `ExitsInv` therefore states of each saved state,
  with the executions open below it (`Consistent`), what `SettledOnce` states
  of the current one; and that heights not yet confirmed have no exits, so that
  a confirmation inside an execution adds none that were executed. A frame's
  own exit was still in the saved root (`Frames`), which is why it differs from
  all exits open below and is settled for the first time when the frame ends.
* `IncludedStays`: `QueueInv` says that all saved states extend the queue of
  before the transaction and have included nothing beyond it. Every step has
  one of three shapes (`QueueStep`): executions stay, one ends, or one begins.
* `StaysSolvent`: `SolventInv` says the same of the current state and of every
  saved one, each with the reimbursements of the executions that still run when
  it comes back. The claims are sums over the queue, the roots and the supply.
  What a recursive function computes would take an induction, which the provers
  here cannot be given; the lemmas about sums take instead the least number at
  which a claim fails, since the order of the natural numbers is well-founded.

`VMProofs` proves, for all contracts, slots, values, heights, any nesting and any
number of checkpoints left behind, the properties of `vm_state` (`Types`,
`Checkpoints`, `Storage`, `Exits`, and `Ended`, of steps). A revert makes a
snapshot the state, and a checkpoint that was left behind makes it the wrong one,
so that the invariants need one another. `Inv` relates every frame with the
snapshot and the expectation it began with: frames are nested (`Nested`), with
their checkpoints (`FramesOwnCheckpoints`); as long as none was left behind, what
is not `forgotten` agrees in every snapshot, and no trie holds what nobody wrote
(`StorageInv`); the cached relay has the exits that are
expected, or will be again when a frame is undone, in their order, with others
between them only when it is `stale` (`RelayInv`); and before the first block is
completed the state has those of its height (`FirstInv`).

`BlockAuditProofs` proves, for all blocks, states, queues and prices of gas, the
four invariants of `audit_blocks`. All rest on one equation
(`SimpleIncomingIsRun`, `SimpleSignedIsRun`): a transaction that a prover may
treat as simple is run by the VM to the state that the prover computes, but for
the exceptions that the property names. `Convicted` follows for every proof and
every time. For `Rejected`, `Passed` and `Challenged` the invariant follows the
audit: the transactions before `index` run to the roots that they claim, and the
auditor has the state before the next (`ExecutionInv`); what was found is
accepted however the queue grows (`FoundInv`, since the queue keeps what it
has); `PassedInv` and `ChallengeInv` say what the answers mean.

`MonitorProofs` proves for any number of blocks, handlers and restarts `Listed`,
`Skipped` and `Latest`, the invariants of `monitor_audit`, and `Judged`, which it
does not check: what is judged good or challenged is stored, with its ancestors. A
handler writes back a list that it read some steps ago, so that `ListsInv` speaks
of the lists that handlers hold as well as of those in the database;
`ListenerInv` says that the events before the listener's position have been
handled.

`ChallengeMonitorProofs` proves `Responses`, the invariant of
`challenges_answered`, and `PastIsRecorded`, for any number of blocks and
challenges. Two handlers of one block may lose each other's update; what keeps
the challenges found at the start from this is that while they are handled only
one handler runs (`HandlersInv`), and that every handler that runs afterwards
has read a record that has them (`ReadInv`).

`WitnessAuditProofs` proves, for any code, any depth of messages, any balances
and gas:

* `Types` and `BalanceIsCurrent`. `Current` says, besides the property, that the
  copy of every contract that waits for a call agrees with the state that would
  come back if the call failed.
* `HonestIsNotConvicted`, that is `HonestStands`. The invariant
  `HonestInv` says of every record of the transaction's message what it says of
  the root before it (`GoodRecord`, in `ListInv`), how the gas of a message
  relates to that of its caller (`GasInv`), where the checkpoints are, also after
  one was left open (`CheckpointInv`), and what the witness says of the message
  and the root of the block of the witness (`WitnessInv`). The proof then goes
  through the errors of the peg one by one (`WitnessStands`,
  `RecordStands`). It found exceptions that the instances had not met: balances
  copied before a message that fails after calling a precompile. They are in the
  run `witness_audit` now (`Leaks`).
* `ReportsOnlyWhere`, that is `ReportedAndRejectedOnlyIf`: what the auditor
  reports of any witness that may be sent, and of the honest one. `HonestInv` says
  nothing of a witness that was changed, nor where the auditor is. `AuditInv`
  says both: what every such witness claims in its records (`ClaimedOf`: which
  of the changes keep a record's fields in their sets, and that a root that was
  written holds what was stored or one less), which checks are left and what
  those found that are not (`AuditAt`), and how the auditor's tree relates to the
  roots of the records (`Tracks`: once the input root was found right, whatever the
  revert left, it is the root before the next record, until the debit of a call that
  failed is kept). When a check fails `FailedAt` remembers
  which, in which state. From there two case distinctions over the checks and records lead to the property:
  an error is accepted, misreported or sent with proofs that cannot convince
  (`ReportsConvince`), and in an honest witness it is misreported
  (`HonestReports`).

**Assumptions.** Of the peg: sentinels differ from values, header data has its
type, `MaxOpenChallenges < MaxUint`, bonds are positive. Of the relay: special
addresses differ, exits name accounts or proxies and carry natural numbers
(`AddressAssumption`, `ExitAssumption`). Of audits of blocks: the auditor has a
state of the parent, in which those who only create contracts, by a
deployment through the relay, have sent nothing (`ParentAssumption`), and no
signed transaction has one of them or the zero address as sender, since nobody
has a key of these (`SignerAssumption`). Of witnesses: `SetupAssumption` (section
3), that bounds and costs are natural numbers, and that the two roots that stand
for a mistaken one and for none are of no state (`RootAssumption`). TLC evaluates
all of them in the runs.

**Only model-checked.** Liveness (`JudgedIfParentKnown`, `AnsweredIfStored`,
`WrongIsAnswered`), which the proof system does not cover. The properties of
`SparseTree`: they speak of hashes of trees of any height, and what the recursive
functions of `MerkleTrees` compute for every input would take inductions over
data. The properties of `Machine`: `Words` takes the bits of a word from a module
whose operators are recursive. `PassedStands` of `WitnessAudit`: it needs besides
`AuditInv` what a changed witness still has in common with the honest one, check by
check, and that the sum of all balances is kept by a message; not done. Larger
instances showed that the list of exceptions of `ReportedAndRejectedOnlyIf` was
short: a code error, a refused or undecodable exit after a call that failed, and a
store beside another slot. They are named now, and in the instance (`Mixes`).

## 6. What is not modelled

* The hypervisor and `proveExecutionError`, which runs it: bytecode that replays
  a witness. The peg takes its verdict as a constant.
* Byte-level codecs (RLP, ABI): the models keep which decoder accepts what.
  Signatures and hashes are injective. How default hashes are deployed.
* Of the peg: ether that is sent outside the bonds, and challengers that are
  contracts refusing a transfer. Of the relay: gas, and calls of the relay to
  its own functions other than `addTransaction`.
* Of the VM: bloom filters and receipts, `runCall` and `runCode` (for tests),
  the precompiles other than the exit contract, creation of contracts with
  witnesses (the first incoming transaction), frames that inherit `isStatic`,
  overflow of amounts in `Execution`.
* Of the node: databases on disk, which it cannot open today (section 3), and
  with them the position of a listener that is stored before the event is
  handled (`event-listener.ts:67`); the list of incoming transactions
  (`incoming-transactions-database.ts:27`: its length grows by one whatever the index), which no audit
  reads, and its listener; the handler of `BlockConfirmed`, whose `putBlock` does nothing for a
  stored block (`block-confirmation-listener.ts:30`) and which no event of this peg starts.
  `BlockHashDatabase` takes height zero for a missing height (line 115).
* Generated code (`contracts/lib/*Abi.ts`, `dist`).

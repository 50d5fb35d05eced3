--------------------------------- MODULE VM ---------------------------------
(***************************************************************************)
(* Blocks, transactions and messages in the VM: runBlock.ts, runTx.ts and  *)
(* evm/evm.ts of packages/vm/lib, with the calls that a contract makes     *)
(* (evm/eei.ts, evm/interpreter.ts).  Each of the three opens a checkpoint *)
(* of the state manager when it begins and commits or reverts when it      *)
(* ends; frames are those that have begun, the innermost last.             *)
(*                                                                         *)
(* What the code of a contract does is free: it stores, calls contracts    *)
(* and the child relay, and returns or fails whenever it likes.  Balances  *)
(* and gas are the matter of Execution.                                    *)
(*                                                                         *)
(* expected is what the state should be: storage, code and the exits of    *)
(* this block, restored when a message, a transaction or a block fails.    *)
(***************************************************************************)
EXTENDS StateManager

CONSTANTS
    Genesis,    \* the contracts with code at the beginning
    MaxDepth,   \* bound on nested messages
    MaxExits,   \* bound on the exits of a relay, with the checkpoints left behind
    MaxBlocks,  \* bound on the blocks that are completed
    MaxLeaks,   \* bound on the checkpoints left behind
    ProduceWitness  \* option of the VM

ASSUME GenesisAssumption == Genesis \subseteq Contracts
ASSUME LeaksAssumption == MaxLeaks \in Nat
ASSUME OptionAssumption == ProduceWitness \in BOOLEAN

VARIABLES
    manager,
    frames,
    expected,
    blocks,          \* results of runBlock, in their order
    forgotten,       \* contracts with storage whose trie was dropped
    stale,           \* the relay has exits that this block did not make or undid
    leaked           \* number of checkpoints that precompiles left behind

vars == <<manager, frames, expected, blocks, forgotten, stale, leaked>>
bookkeeping == <<blocks, forgotten, stale, leaked>>

GenesisTree ==
    [code |-> [a \in Contracts |-> a \in Genesis],
     storage |-> [a \in Contracts |-> EmptyStorage],
     exits |-> [n \in Heights |-> <<>>]]

Init ==
    /\ manager = Started(GenesisTree)
    /\ frames = <<>>
    /\ expected = [code |-> GenesisTree.code, storage |-> GenesisTree.storage,
                   exits |-> <<>>]
    /\ blocks = <<>>
    /\ forgotten = {}
    /\ stale = FALSE
    /\ leaked = 0

-----------------------------------------------------------------------------
Top == Last(frames)
Inside(kinds) == frames # <<>> /\ Top.kind \in kinds
Depth == Len(SelectSeq(frames, LAMBDA f : f.kind = "message"))
Height == frames[1].height

Frame(kind, self, height, m) ==
    [kind |-> kind, self |-> self, height |-> height, sent |-> FALSE,
     tree |-> m.tree, expected |-> expected]

(* A message can be sent by a transaction, once, and by a contract.        *)
CanSend ==
    \/ Inside({"tx"}) /\ ~Top.sent
    \/ Inside({"message"}) /\ Depth < MaxDepth
Sent(fs) == [fs EXCEPT ![Len(fs)].sent = TRUE]

(* What is expected again is that of before frame f, whose tries are gone. *)
Undo(f) ==
    /\ expected' = f.expected
    /\ stale' = (stale \/ expected.exits # f.expected.exits)
    /\ forgotten' = forgotten \union
           {a \in Contracts : f.expected.storage[a] # EmptyStorage}

-----------------------------------------------------------------------------
(* The root is that of the last block, or is set to that of an earlier     *)
(* one.                                                                    *)
StartBlock(n) ==
    /\ frames = <<>>
    /\ Len(blocks) < MaxBlocks
    /\ n = Len(blocks) + 1
    /\ manager' = checkpoint(manager)
    /\ frames' = <<Frame("block", Null, n, manager)>>
    /\ expected' = [expected EXCEPT !.exits = <<>>]
    /\ stale' = (manager.relay.exits # <<>>)
    /\ UNCHANGED <<blocks, forgotten, leaked>>

StartBlockAt(b) ==
    /\ frames = <<>>
    /\ manager.saved = <<>>
    /\ Len(blocks) < MaxBlocks
    /\ b.height + 1 \in Heights
    /\ LET m == setStateRoot(manager, b.tree)
           e == [b.expected EXCEPT !.exits = <<>>]
       IN /\ manager' = checkpoint(m)
          /\ frames' = <<[Frame("block", Null, b.height + 1, m) EXCEPT !.expected = e]>>
          /\ expected' = e
          /\ forgotten' = {a \in Contracts : e.storage[a] # EmptyStorage}
    /\ stale' = (manager.relay.exits # <<>>)
    /\ UNCHANGED <<blocks, leaked>>

StartTx ==
    /\ Inside({"block"})
    /\ manager' = checkpoint(manager)
    /\ frames' = Append(frames, Frame("tx", Null, Height, manager))
    /\ UNCHANGED <<expected, bookkeeping>>

\* The block commits although it was given up.
ThrowTxCommits ==
    /\ Inside({"tx"}) /\ ~Top.sent
    /\ manager' = commit(revert(manager))
    /\ frames' = <<>>
    /\ Undo(frames[1])
    /\ UNCHANGED <<blocks, leaked>>

(* A transaction that cannot run throws, and so does its block.            *)
ThrowTx ==
    /\ Inside({"tx"}) /\ ~Top.sent
    /\ manager' = revert(revert(manager))
    /\ frames' = <<>>
    /\ Undo(frames[1])
    /\ UNCHANGED <<blocks, leaked>>

StartMessage(a) ==
    /\ CanSend
    /\ manager.tree.code[a]
    /\ manager' = checkpoint(manager)
    /\ frames' = Append(Sent(frames), Frame("message", a, Height, manager))
    /\ UNCHANGED <<expected, bookkeeping>>

Sstore(k, v) ==
    /\ Inside({"message"})
    /\ manager' = putContractStorage(manager, Top.self, k, v)
    /\ expected' = [expected EXCEPT !.storage[Top.self][k] = v]
    /\ UNCHANGED <<frames, bookkeeping>>

(* A message to the child relay, with a checkpoint for the exit.           *)
executeExitCall(e) ==
    /\ CanSend
    /\ leaked + Len(manager.relay.exits) < MaxExits
    /\ LET begun == checkpoint(checkpoint(manager))
       IN manager' = commit(commit(insert(getChildRelay(begun, Height), e)))
    /\ frames' = Sent(frames)
    /\ expected' = [expected EXCEPT !.exits = Append(@, e)]
    /\ UNCHANGED bookkeeping

(* One without enough balance or with too little data.                     *)
FailExitCall ==
    /\ CanSend
    /\ manager' = revert(revert(checkpoint(checkpoint(manager))))
    /\ frames' = Sent(frames)
    /\ forgotten' = forgotten \union
           {a \in Contracts : expected.storage[a] # EmptyStorage}
    /\ UNCHANGED <<expected, blocks, stale, leaked>>

(* The first message of an incoming transaction to an account that was     *)
(* never used, with some code.                                             *)
executeCreate(a) ==
    /\ Inside({"tx"}) /\ ~Top.sent
    /\ ~manager.tree.code[a]
    /\ LET m == clearContractStorage(checkpoint(manager), a)
       IN manager' = commit(putContractCode(m, a))
    /\ frames' = Sent(frames)
    /\ expected' = [expected EXCEPT !.code[a] = TRUE, !.storage[a] = EmptyStorage]
    /\ UNCHANGED bookkeeping

Return ==
    /\ Inside({"message"})
    /\ manager' = commit(manager)
    /\ frames' = Front(frames)
    /\ UNCHANGED <<expected, bookkeeping>>

Fail ==
    /\ Inside({"message"})
    /\ manager' = revert(manager)
    /\ frames' = Front(frames)
    /\ Undo(Top)
    /\ UNCHANGED <<blocks, leaked>>

(* Bound: the fewer, the more blocks and exits there are.                  *)
CanLeak == leaked + Len(blocks) + Len(manager.relay.exits) < MaxLeaks

(* With witnesses the code after a precompile reads a field of undefined.  *)
(* The interpreter of the caller takes that for an exception of its own    *)
(* code, and reverts the checkpoint of the precompile.                     *)
CallPrecompile ==
    /\ ProduceWitness /\ CanLeak
    /\ Inside({"message"}) /\ Depth < MaxDepth
    /\ manager' = revert(checkpoint(manager))
    /\ frames' = Front(frames)
    /\ Undo(Top)
    /\ leaked' = leaked + 1
    /\ UNCHANGED blocks

(* Without a caller the transaction reverts it, and the block that of the  *)
(* transaction.                                                            *)
SendToPrecompile ==
    /\ ProduceWitness /\ CanLeak
    /\ Inside({"tx"}) /\ ~Top.sent
    /\ manager' = revert(revert(checkpoint(manager)))
    /\ frames' = <<>>
    /\ Undo(frames[1])
    /\ leaked' = leaked + 1
    /\ UNCHANGED blocks

EndTx ==
    /\ Inside({"tx"})
    /\ manager' = commit(manager)
    /\ frames' = Front(frames)
    /\ UNCHANGED <<expected, bookkeeping>>

(* runBlock commits before it asks for the roots.                          *)
EndBlock ==
    /\ Inside({"block"})
    /\ CanGetStateRoot(commit(manager))
    /\ frames' = <<>>
    /\ manager' = getChildRelay(commit(manager), Height)
    /\ blocks' = Append(blocks,
           [height |-> Height, tree |-> manager.tree, stale |-> stale,
            exitsRoot |-> getExitsRoot(manager, Height), expected |-> expected])
    /\ UNCHANGED <<expected, forgotten, stale, leaked>>

(* The root of the state throws when a checkpoint is open; a root that is  *)
(* not that of the header, or of a transaction, throws when both roots     *)
(* have been read.  The block is committed then.                           *)
RejectBlock ==
    /\ Inside({"block"})
    /\ frames' = <<>>
    /\ LET m == commit(manager)
       IN manager' = IF CanGetStateRoot(m) THEN getChildRelay(m, Height) ELSE m
    /\ UNCHANGED <<expected, bookkeeping>>

Next ==
    \/ \E n \in Heights : StartBlock(n)
    \/ \E i \in 1..Len(blocks) : StartBlockAt(blocks[i])
    \/ StartTx \/ ThrowTx
    \/ \E a \in Contracts : StartMessage(a) \/ executeCreate(a)
    \/ \E k \in Slots, v \in Values \union {Null} : Sstore(k, v)
    \/ \E e \in Callers : executeExitCall(e)
    \/ FailExitCall \/ Return \/ Fail \/ CallPrecompile \/ SendToPrecompile
    \/ EndTx \/ EndBlock \/ RejectBlock

Spec == Init /\ [][Next]_vars

-----------------------------------------------------------------------------
(* Each frame has its own checkpoint, which holds the state in which the   *)
(* frame began.  It lies above those of the frames around it and above at  *)
(* most as many others as precompiles left behind, and no other checkpoint *)
(* is open.                                                                *)
FramesOwnCheckpoints ==
    /\ Len(manager.saved) = Len(frames) + leaked
    /\ \A i \in 1..Len(frames) :
         \E n \in i..i + leaked : manager.saved[n] = frames[i].tree

(* Whatever was begun, committed and reverted, a cached storage trie has   *)
(* the root of the account, so that the next store may write the one over  *)
(* the other.  Across messages, transactions and blocks, rejected ones     *)
(* too, a contract reads in a slot what was stored and not undone, or      *)
(* finds it empty if a trie of its storage was dropped; it never reads     *)
(* what was undone.  This is promised until a precompile leaves a          *)
(* checkpoint behind.                                                      *)
StorageIsKept ==
    /\ \A a \in Contracts :
         manager.tries[a].known => manager.tries[a].root = manager.tree.storage[a]
    /\ leaked = 0 => \A a \in Contracts, k \in Slots :
         LET dropped == IF a \in forgotten THEN {Null} ELSE {}
             kept == dropped \union {expected.storage[a][k]}
         IN manager.tree.storage[a][k] \in kept /\ getContractStorage(manager, a, k) \in kept

\* The elements of s are elements of t in the same order.
Within(s, t) ==
    \E f \in [1..Len(s) -> 1..Len(t)] :
        /\ \A i, j \in 1..Len(s) : i < j => f[i] < f[j]
        /\ \A i \in 1..Len(s) : s[i] = t[f[i]]

(* The header of every completed block has the exits that were made in it  *)
(* and not undone, in their order.  It has others only if the VM had made  *)
(* exits before the block or undid some in it; and if it has none, and the *)
(* block is the first one, the state has its exits under its height.       *)
ExitsAreKept ==
    \A i \in 1..Len(blocks) :
        LET b == blocks[i]
        IN /\ Within(b.expected.exits, b.exitsRoot)
           /\ ~b.stale => b.exitsRoot = b.expected.exits
           /\ ~b.stale /\ i = 1 => b.tree.exits[b.height] = b.expected.exits

(* When a block ends, the state has all of its effects or none.  One that  *)
(* is given up in a transaction leaves the state in which it began, one    *)
(* that is rejected for its roots all that it did.  A VM that has lost a   *)
(* checkpoint completes no block any more.                                 *)
AllOrNothing ==
    [][frames # <<>> /\ frames' = <<>> =>
           /\ blocks' # blocks => leaked = 0
           /\ leaked' = 0 =>
                manager'.tree = IF Top.kind = "block" THEN manager.tree ELSE frames[1].tree]_vars
=============================================================================

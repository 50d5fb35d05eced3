---------------------------- MODULE StateManager ----------------------------
(***************************************************************************)
(* The state manager of the VM (packages/vm/lib/state/manager.ts) with the *)
(* child relay that it caches (packages/utils/src/utils/child-relay.ts).   *)
(*                                                                         *)
(* A manager is a record.  tree is what the root of the account tree       *)
(* stands for: which contracts have code, the storage that the root in     *)
(* each of their accounts stands for, and the exits under each height in   *)
(* the storage of the child relay.  saved are the trees at the open        *)
(* checkpoints: the tree and its database are a stack of snapshots         *)
(* (CheckpointDBProofs).  tries are the storage tries it has cached, and   *)
(* relay is the cached child relay.                                        *)
(***************************************************************************)
EXTENDS Integers, SequencesExt

CONSTANTS Contracts, Slots, Values, Heights, Callers, Null

ASSUME NullAssumption == Null \notin Values
ASSUME HeightsAssumption == Heights \subseteq Nat

EmptyStorage == [k \in Slots |-> Null]
NoTrie == [known |-> FALSE, root |-> EmptyStorage]
NoRelay == [cached |-> FALSE, height |-> 0, exits |-> <<>>, storage |-> [n \in Heights |-> <<>>]]

Started(tree) ==
    [tree |-> tree, saved |-> <<>>, tries |-> [a \in Contracts |-> NoTrie],
     relay |-> NoRelay]

-----------------------------------------------------------------------------
(* A trie is opened in a new bucket of the database.  The nodes that were  *)
(* put through another bucket stayed in the cache of that bucket, which    *)
(* nothing flushes, and a root that is not found is taken for the empty    *)
(* one.                                                                    *)
lookupStorageTrie(m, a) == EmptyStorage

\* The cached trie is not used.
ReopenTrie(m, a) == lookupStorageTrie(m, a)

getStorageTrie(m, a) ==
    IF m.tries[a].known THEN m.tries[a].root ELSE lookupStorageTrie(m, a)
getContractStorage(m, a, k) == getStorageTrie(m, a)[k]

modifyContractStorage(m, a, root) ==
    [m EXCEPT !.tries[a] = [known |-> TRUE, root |-> root],
              !.tree.storage[a] = root]
putContractStorage(m, a, k, v) ==
    modifyContractStorage(m, a, [getStorageTrie(m, a) EXCEPT ![k] = v])
clearContractStorage(m, a) == modifyContractStorage(m, a, EmptyStorage)
putContractCode(m, a) == [m EXCEPT !.tree.code[a] = TRUE]

checkpoint(m) == [m EXCEPT !.saved = Append(@, m.tree)]
\* The snapshot of the lowest checkpoint is dropped.
CommitLowest(m) == [m EXCEPT !.saved = Tail(@)]

commit(m) == [m EXCEPT !.saved = Front(@)]
revert(m) ==
    [m EXCEPT !.tree = Last(m.saved), !.saved = Front(@),
              !.tries = [a \in Contracts |-> NoTrie]]

CanGetStateRoot(m) == m.saved = <<>>
setStateRoot(m, tree) ==
    [m EXCEPT !.tree = tree, !.tries = [a \in Contracts |-> NoTrie]]

-----------------------------------------------------------------------------
(* The relay reads its root node through a new bucket too, where there is  *)
(* none.                                                                   *)
CreateRelay(n) == [NoRelay EXCEPT !.cached = TRUE, !.height = n]

\* A new relay every time.
CreateAlways(m, n) == [m EXCEPT !.relay = CreateRelay(n)]

getChildRelay(m, n) ==
    IF m.relay.cached THEN m ELSE [m EXCEPT !.relay = CreateRelay(n)]
getExitsRoot(m, n) == getChildRelay(m, n).relay.exits

(* The relay writes its account in the tree, but keeps its own copy of the *)
(* root node and of its storage.                                           *)
insert(m, e) ==
    LET exits == Append(m.relay.exits, e)
        storage == [m.relay.storage EXCEPT ![m.relay.height] = exits]
    IN [m EXCEPT !.relay.exits = exits, !.relay.storage = storage,
                 !.tree.exits = storage]
=============================================================================

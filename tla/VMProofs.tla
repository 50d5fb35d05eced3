------------------------------ MODULE VMProofs ------------------------------
(***************************************************************************)
(* Proofs about VM: frames and the checkpoints of the state manager, what  *)
(* a contract reads, the exits of completed blocks, and what a block that  *)
(* ends leaves of its effects.                                             *)
(*                                                                         *)
(* The inductive invariant Inv relates every frame with its snapshot, not  *)
(* only the state with what is expected of it: a revert makes the snapshot *)
(* the state.                                                              *)
(***************************************************************************)
EXTENDS VM, SequenceTheorems, TLAPS

-----------------------------------------------------------------------------
(* Types. *)

Storages == [Slots -> Values \union {Null}]
Codes == [Contracts -> BOOLEAN]
Trees == [code : Codes, storage : [Contracts -> Storages], exits : [Heights -> Seq(Callers)]]
Tries == [Contracts -> [known : BOOLEAN, root : Storages]]
Relays ==
    [cached : BOOLEAN, height : Heights \union {0}, exits : Seq(Callers),
     storage : [Heights -> Seq(Callers)]]
Managers == [tree : Trees, saved : Seq(Trees), tries : Tries, relay : Relays]
Expectations ==
    [code : Codes, storage : [Contracts -> Storages], exits : Seq(Callers)]
Frames ==
    [kind : {"block", "tx", "message"}, self : Contracts \union {Null}, height : Heights,
     sent : BOOLEAN, tree : Trees, expected : Expectations]
Blocks ==
    [height : Heights, tree : Trees, exitsRoot : Seq(Callers), expected : Expectations,
     stale : BOOLEAN]

TypeOK ==
    /\ manager \in Managers
    /\ frames \in Seq(Frames)
    /\ expected \in Expectations
    /\ blocks \in Seq(Blocks)
    /\ forgotten \subseteq Contracts
    /\ stale \in BOOLEAN
    /\ leaked \in Nat
    /\ manager.relay.cached => manager.relay.height \in Heights

-----------------------------------------------------------------------------
(* The inductive invariant. *)

\* The first frame is a block, the second a transaction in it, the others
\* messages of contracts, and all are of the same height.
Nested ==
    \A i \in 1 .. Len(frames) :
        /\ frames[i].kind = IF i = 1 THEN "block" ELSE IF i = 2 THEN "tx" ELSE "message"
        /\ i > 2 => frames[i].self \in Contracts
        /\ frames[i].height = frames[1].height

\* A tree has no storage that is not expected.
NothingInvented(tree, e) ==
    \A a \in Contracts, k \in Slots :
        tree.storage[a][k] \in {Null, e.storage[a][k]}

\* A tree has the storage that is expected, of contracts in as.
Agrees(tree, e, as) == \A a \in as : tree.storage[a] = e.storage[a]

StorageInv ==
    /\ \A a \in Contracts :
         manager.tries[a].known => manager.tries[a].root = manager.tree.storage[a]
    /\ \A i \in 1 .. Len(blocks) : NothingInvented(blocks[i].tree, blocks[i].expected)
    /\ leaked = 0 =>
         /\ NothingInvented(manager.tree, expected)
         /\ Agrees(manager.tree, expected, Contracts \ forgotten)
         /\ \A a \in Contracts \ forgotten :
              manager.tries[a].known \/ expected.storage[a] = EmptyStorage
         /\ \A i \in 1 .. Len(frames) :
              /\ NothingInvented(frames[i].tree, frames[i].expected)
              /\ Agrees(frames[i].tree, frames[i].expected, Contracts \ forgotten)

\* The relay has the exits that are expected, and those that are expected
\* again when a frame is undone, in their order; it has others only when it
\* is stale.
RelayInv ==
    /\ ~manager.relay.cached => manager.relay = NoRelay
    /\ Within(expected.exits, manager.relay.exits)
    /\ \A i \in 1 .. Len(frames) : Within(frames[i].expected.exits, manager.relay.exits)
    /\ stale => manager.relay.exits # <<>>
    /\ ~stale => manager.relay.exits = expected.exits

\* The exits in the state of a VM that has completed no block yet.
FirstInv ==
    blocks = <<>> /\ ~stale /\ leaked = 0 =>
        /\ manager.relay.cached => manager.relay.height = 1
        /\ 1 \in Heights => manager.tree.exits[1] = expected.exits
        /\ \A i \in 1 .. Len(frames) :
             /\ frames[i].height = 1
             /\ frames[i].tree.exits[1] = frames[i].expected.exits


Inv ==
    /\ TypeOK
    /\ Nested
    /\ FramesOwnCheckpoints
    /\ StorageInv
    /\ RelayInv
    /\ FirstInv
    /\ ExitsAreKept

-----------------------------------------------------------------------------
(* Sequences and frames. *)

\* The last element of a sequence and what is left without it.
LEMMA Ends ==
  ASSUME NEW S, NEW s \in Seq(S), s # <<>>
  PROVE  /\ Last(s) = s[Len(s)] /\ Last(s) \in S
         /\ Front(s) \in Seq(S) /\ Len(Front(s)) = Len(s) - 1
         /\ \A i \in 1 .. Len(s) - 1 : Front(s)[i] = s[i]
<1>. DEFINE n == Len(s) - 1
<1>1. n \in Nat /\ Len(s) \in 1 .. Len(s)
  OBVIOUS
<1>2. \A i \in 1 .. n : s[i] \in S
  OBVIOUS
<1>3. /\ SubSeq(s, 1, n) \in Seq(S)
      /\ Len(SubSeq(s, 1, n)) = IF 1 <= n THEN n - 1 + 1 ELSE 0
      /\ \A i \in 1 .. n - 1 + 1 : SubSeq(s, 1, n)[i] = s[1 + i - 1]
  BY <1>1, <1>2, SubSeqProperties
<1>. HIDE DEF n
<1>4. Len(SubSeq(s, 1, n)) = n /\ \A i \in 1 .. n : SubSeq(s, 1, n)[i] = s[i]
  <2>1. n - 1 + 1 = n /\ (~(1 <= n) => n = 0) /\ \A i \in 1 .. n : 1 + i - 1 = i
    BY <1>1
  <2>. QED
    BY <1>3, <2>1
<1>5. s[Len(s)] \in S
  BY <1>1
<1>. QED
  BY <1>3, <1>4, <1>5 DEF n, Last, Front

\* What was appended last is removed first.
LEMMA FrontOfAppend ==
  ASSUME NEW S, NEW s \in Seq(S), NEW x \in S
  PROVE  /\ Append(s, x) \in Seq(S) /\ Append(s, x) # <<>>
         /\ Front(Append(s, x)) = s /\ Last(Append(s, x)) = x
BY DEF Last, Front

\* Frames gs are the lowest of frames fs, with other marks of what was sent.
Lowest(gs, fs) ==
    /\ gs \in Seq(Frames)
    /\ Len(gs) <= Len(fs)
    /\ \A i \in 1 .. Len(gs) :
         /\ gs[i].kind = fs[i].kind /\ gs[i].self = fs[i].self
         /\ gs[i].height = fs[i].height /\ gs[i].tree = fs[i].tree
         /\ gs[i].expected = fs[i].expected

\* To note that a message was sent changes nothing else.
LEMMA SentFrames ==
  ASSUME NEW fs \in Seq(Frames), fs # <<>>
  PROVE  Lowest(Sent(fs), fs) /\ Len(Sent(fs)) = Len(fs)
<1>1. Len(fs) \in 1 .. Len(fs) /\ fs[Len(fs)] \in Frames
  OBVIOUS
<1>. DEFINE g == [fs[Len(fs)] EXCEPT !.sent = TRUE]
<1>2. g \in Frames
  BY <1>1 DEF Frames
<1>3. Sent(fs) = [fs EXCEPT ![Len(fs)] = g]
  BY DEF Sent
<1>. HIDE DEF g
<1>4. /\ Sent(fs) \in Seq(Frames) /\ Len(Sent(fs)) = Len(fs)
      /\ \A i \in 1 .. Len(fs) : Sent(fs)[i] = IF i = Len(fs) THEN g ELSE fs[i]
  BY <1>1, <1>2, <1>3, ExceptSeq
<1>5. LET f == fs[Len(fs)]
      IN  /\ g.kind = f.kind /\ g.self = f.self /\ g.height = f.height
          /\ g.tree = f.tree /\ g.expected = f.expected
  BY <1>1 DEF g, Frames
<1>. QED
  BY <1>1, <1>4, <1>5 DEF Lowest

\* So do all but the last.
LEMMA FrontFrames ==
  ASSUME NEW fs \in Seq(Frames), fs # <<>>
  PROVE  Lowest(Front(fs), fs) /\ Len(Front(fs)) = Len(fs) - 1
BY Ends DEF Lowest

\* Where the code is tells how many frames there are.
LEMMA Where ==
  ASSUME Inv, NEW kinds, Inside(kinds)
  PROVE  /\ frames \in Seq(Frames) /\ frames # <<>> /\ Len(frames) \in Nat \ {0}
         /\ Top = frames[Len(frames)] /\ Top \in Frames
         /\ Height \in Heights /\ Height \in Nat
         /\ kinds = {"block"} => Len(frames) = 1
         /\ kinds = {"tx"} => Len(frames) = 2
         /\ kinds = {"message"} => Len(frames) > 2 /\ Top.self \in Contracts
<1>1. frames \in Seq(Frames) /\ frames # <<>> /\ Len(frames) \in Nat \ {0}
  BY DEF Inside, Inv, TypeOK
<1>2. Top = frames[Len(frames)] /\ Top \in Frames
  BY <1>1, Ends DEF Top
<1>3. frames[1] \in Frames
  BY <1>1
<1>4. Height \in Heights /\ Height \in Nat
  BY <1>3, HeightsAssumption DEF Height, Frames
<1>5. /\ Top.kind = IF Len(frames) = 1 THEN "block" ELSE IF Len(frames) = 2 THEN "tx" ELSE "message"
      /\ Len(frames) > 2 => Top.self \in Contracts
  <2>1. Len(frames) \in 1 .. Len(frames)
    BY <1>1
  <2>. QED
    BY <1>2, <2>1 DEF Inv, Nested
<1>6. Top.kind \in kinds
  BY DEF Inside
<1>7. kinds = {"block"} => Len(frames) = 1
  BY <1>1, <1>5, <1>6
<1>8. kinds = {"tx"} => Len(frames) = 2
  BY <1>1, <1>5, <1>6
<1>9. kinds = {"message"} => Len(frames) > 2
  <2>1. Len(frames) \in Nat /\ Len(frames) # 0
    BY <1>1
  <2>2. kinds = {"message"} => Len(frames) # 1
    BY <1>5, <1>6
  <2>3. kinds = {"message"} => Len(frames) # 2
    BY <1>5, <1>6
  <2>4. \A n \in Nat : n # 0 /\ n # 1 /\ n # 2 => n > 2
    OBVIOUS
  <2>. QED
    BY <2>1, <2>2, <2>3, <2>4, Zenon
<1>. QED
  BY <1>1, <1>2, <1>4, <1>5, <1>7, <1>8, <1>9

\* Whoever sends a message is a transaction or a contract.
LEMMA Senders ==
  ASSUME Inv, CanSend
  PROVE  /\ frames \in Seq(Frames) /\ frames # <<>> /\ Len(frames) \in Nat /\ Len(frames) > 1
         /\ Height \in Heights /\ Height \in Nat
BY Where DEF CanSend

\* How many checkpoints are open, and whose they are when none was left
\* behind.
LEMMA OwnSaved ==
  ASSUME Inv
  PROVE  /\ Len(manager.saved) \in Nat /\ Len(frames) \in Nat /\ leaked \in Nat
         /\ manager.saved \in Seq(Trees)
         /\ Len(manager.saved) = Len(frames) + leaked
         /\ leaked = 0 => \A i \in 1 .. Len(frames) : manager.saved[i] = frames[i].tree
<1>1. /\ Len(manager.saved) \in Nat /\ Len(frames) \in Nat /\ leaked \in Nat
      /\ manager.saved \in Seq(Trees)
  BY DEF Inv, TypeOK, Managers
<1>2. Len(manager.saved) = Len(frames) + leaked
  BY DEF Inv, FramesOwnCheckpoints
<1>3. ASSUME leaked = 0, NEW i \in 1 .. Len(frames)
      PROVE  manager.saved[i] = frames[i].tree
  <2>1. PICK n \in i .. i + leaked : manager.saved[n] = frames[i].tree
    BY DEF Inv, FramesOwnCheckpoints
  <2>2. n = i
    BY <1>3, <2>1
  <2>. QED
    BY <2>1, <2>2
<1>. QED
  BY <1>1, <1>2, <1>3

-----------------------------------------------------------------------------
(* Exits in the order of others. *)

\* No exits are within any, and only none are within none.
LEMMA WithinNone ==
  ASSUME NEW s \in Seq(Callers), NEW t \in Seq(Callers)
  PROVE  /\ s = <<>> => Within(s, t)
         /\ t = <<>> /\ Within(s, t) => s = <<>>
<1>1. ASSUME s = <<>>
      PROVE  Within(s, t)
  <2>1. 1 .. Len(s) = {}
    BY <1>1
  <2>. DEFINE f == [i \in 1 .. Len(s) |-> 1]
  <2>2. f \in [1 .. Len(s) -> 1 .. Len(t)]
    BY <2>1
  <2>. HIDE DEF f
  <2>. QED
    BY <2>1, <2>2 DEF Within
<1>2. ASSUME t = <<>>, Within(s, t)
      PROVE  s = <<>>
  <2>1. PICK f \in [1 .. Len(s) -> 1 .. Len(t)] : TRUE
    BY <1>2 DEF Within
  <2>2. 1 .. Len(t) = {}
    BY <1>2
  <2>3. ~(1 \in 1 .. Len(s))
    BY <2>1, <2>2
  <2>. QED
    BY <2>3
<1>. QED
  BY <1>1, <1>2

\* They stay within others when those grow, and when both grow by the same.
LEMMA WithinAppend ==
  ASSUME NEW s \in Seq(Callers), NEW t \in Seq(Callers), NEW e \in Callers, Within(s, t)
  PROVE  Within(s, Append(t, e)) /\ Within(Append(s, e), Append(t, e))
<1>. DEFINE m == Len(s)
            n == Len(t)
            t1 == Append(t, e)
            s1 == Append(s, e)
<1>1. PICK f \in [1 .. m -> 1 .. n] :
        /\ \A i, j \in 1 .. m : i < j => f[i] < f[j]
        /\ \A i \in 1 .. m : s[i] = t[f[i]]
  BY DEF Within
<1>2. /\ m \in Nat /\ n \in Nat /\ Len(t1) = n + 1 /\ Len(s1) = m + 1
      /\ t1[n + 1] = e /\ s1[m + 1] = e
      /\ \A i \in 1 .. n : t1[i] = t[i]
      /\ \A i \in 1 .. m : s1[i] = s[i]
  OBVIOUS
<1>3. \A i \in 1 .. m : f[i] \in 1 .. n /\ f[i] \in 1 .. n + 1 /\ f[i] < n + 1
  BY <1>1, <1>2
<1>. HIDE DEF m, n, t1, s1
<1>4. Within(s, t1)
  <2>1. f \in [1 .. m -> 1 .. n + 1]
    BY <1>1, <1>3
  <2>2. \A i \in 1 .. m : s[i] = t1[f[i]]
    BY <1>1, <1>2, <1>3
  <2>3. \E h \in [1 .. m -> 1 .. n + 1] :
          /\ \A i, j \in 1 .. m : i < j => h[i] < h[j]
          /\ \A i \in 1 .. m : s[i] = t1[h[i]]
    BY <1>1, <2>1, <2>2
  <2>. QED
    BY <1>2, <2>3 DEF Within, m
<1>5. Within(s1, t1)
  <2>. DEFINE h == [i \in 1 .. m + 1 |-> IF i = m + 1 THEN n + 1 ELSE f[i]]
  <2>1. \A i \in 1 .. m + 1 : i = m + 1 \/ i \in 1 .. m
    BY <1>2
  <2>2. h \in [1 .. m + 1 -> 1 .. n + 1]
    BY <1>2, <1>3, <2>1
  <2>3. h[m + 1] = n + 1 /\ \A i \in 1 .. m : h[i] = f[i]
    BY <1>2
  <2>. HIDE DEF h
  <2>4. ASSUME NEW i \in 1 .. m + 1, NEW j \in 1 .. m + 1, i < j
        PROVE  h[i] < h[j]
    <3>1. i \in 1 .. m
      BY <1>2, <2>1, <2>4
    <3>2. CASE j = m + 1
      BY <1>3, <2>3, <3>1, <3>2
    <3>3. CASE j \in 1 .. m
      BY <1>1, <2>3, <2>4, <3>1, <3>3
    <3>. QED
      BY <2>1, <3>2, <3>3
  <2>5. ASSUME NEW i \in 1 .. m + 1
        PROVE  s1[i] = t1[h[i]]
    <3>1. CASE i = m + 1
      BY <1>2, <2>3, <3>1
    <3>2. CASE i \in 1 .. m
      BY <1>1, <1>2, <1>3, <2>3, <3>2
    <3>. QED
      BY <2>1, <3>1, <3>2
  <2>. QED
    BY <1>2, <2>2, <2>4, <2>5 DEF Within
<1>. QED
  BY <1>4, <1>5 DEF t1, s1

-----------------------------------------------------------------------------
(* The state manager. *)

\* A checkpoint keeps the tree once more.
LEMMA Checkpoint ==
  ASSUME NEW m \in Managers
  PROVE  /\ checkpoint(m) \in Managers
         /\ checkpoint(m).tree = m.tree /\ checkpoint(m).tries = m.tries
         /\ checkpoint(m).relay = m.relay
         /\ checkpoint(m).saved = Append(m.saved, m.tree)
         /\ Len(checkpoint(m).saved) = Len(m.saved) + 1
BY DEF checkpoint, Managers

\* A commit drops one.
LEMMA Commit ==
  ASSUME NEW m \in Managers, m.saved # <<>>
  PROVE  /\ commit(m) \in Managers
         /\ commit(m).tree = m.tree /\ commit(m).tries = m.tries
         /\ commit(m).relay = m.relay
         /\ commit(m).saved = Front(m.saved)
         /\ Len(commit(m).saved) = Len(m.saved) - 1
         /\ \A i \in 1 .. Len(m.saved) - 1 : commit(m).saved[i] = m.saved[i]
<1>1. m.saved \in Seq(Trees)
  BY DEF Managers
<1>2. /\ Front(m.saved) \in Seq(Trees) /\ Len(Front(m.saved)) = Len(m.saved) - 1
      /\ \A i \in 1 .. Len(m.saved) - 1 : Front(m.saved)[i] = m.saved[i]
  BY <1>1, Ends
<1>. QED
  BY <1>2 DEF commit, Managers

\* A revert makes the last one the tree again, and forgets the tries.
LEMMA Revert ==
  ASSUME NEW m \in Managers, m.saved # <<>>
  PROVE  /\ revert(m) \in Managers
         /\ revert(m).tree = m.saved[Len(m.saved)]
         /\ \A a \in Contracts : ~revert(m).tries[a].known
         /\ revert(m).relay = m.relay
         /\ revert(m).saved = Front(m.saved)
         /\ Len(revert(m).saved) = Len(m.saved) - 1
         /\ \A i \in 1 .. Len(m.saved) - 1 : revert(m).saved[i] = m.saved[i]
<1>1. m.saved \in Seq(Trees)
  BY DEF Managers
<1>2. /\ Front(m.saved) \in Seq(Trees) /\ Len(Front(m.saved)) = Len(m.saved) - 1
      /\ Last(m.saved) \in Trees /\ Last(m.saved) = m.saved[Len(m.saved)]
      /\ \A i \in 1 .. Len(m.saved) - 1 : Front(m.saved)[i] = m.saved[i]
  BY <1>1, Ends
<1>3. [a \in Contracts |-> NoTrie] \in Tries
  BY DEF NoTrie, EmptyStorage, Tries, Storages
<1>. QED
  BY <1>2, <1>3 DEF revert, Managers, NoTrie

\* A checkpoint and its commit are nothing.
LEMMA CheckpointCommit ==
  ASSUME NEW m \in Managers
  PROVE  commit(checkpoint(m)) = m
<1>1. m.saved \in Seq(Trees) /\ m.tree \in Trees
  BY DEF Managers
<1>2. Front(Append(m.saved, m.tree)) = m.saved
  BY <1>1, FrontOfAppend
<1>. QED
  BY <1>2 DEF checkpoint, commit, Managers

\* Nor is a checkpoint and its revert, but for the tries.
LEMMA CheckpointRevert ==
  ASSUME NEW m \in Managers
  PROVE  revert(checkpoint(m)) = [m EXCEPT !.tries = [a \in Contracts |-> NoTrie]]
<1>1. m.saved \in Seq(Trees) /\ m.tree \in Trees
  BY DEF Managers
<1>2. Front(Append(m.saved, m.tree)) = m.saved /\ Last(Append(m.saved, m.tree)) = m.tree
  BY <1>1, FrontOfAppend
<1>. QED
  BY <1>2 DEF checkpoint, revert, Managers

\* The storage of a contract and its trie are written together.
LEMMA Modify ==
  ASSUME NEW m \in Managers, NEW a \in Contracts, NEW root \in Storages
  PROVE  /\ modifyContractStorage(m, a, root) \in Managers
         /\ modifyContractStorage(m, a, root).saved = m.saved
         /\ modifyContractStorage(m, a, root).relay = m.relay
         /\ modifyContractStorage(m, a, root).tree = [m.tree EXCEPT !.storage[a] = root]
         /\ modifyContractStorage(m, a, root).tries
              = [m.tries EXCEPT ![a] = [known |-> TRUE, root |-> root]]
<1>1. [m.tree EXCEPT !.storage[a] = root] \in Trees
  BY DEF Managers, Trees
<1>2. [m.tries EXCEPT ![a] = [known |-> TRUE, root |-> root]] \in Tries
  BY DEF Managers, Tries
<1>. QED
  BY <1>1, <1>2 DEF modifyContractStorage, Managers

\* The storage that is opened is the cached one or none.
LEMMA Opened ==
  ASSUME NEW m \in Managers, NEW a \in Contracts
  PROVE  /\ EmptyStorage \in Storages
         /\ getStorageTrie(m, a) \in Storages
         /\ getStorageTrie(m, a) = IF m.tries[a].known THEN m.tries[a].root ELSE EmptyStorage
BY DEF getStorageTrie, lookupStorageTrie, EmptyStorage, Managers, Tries, Storages

\* A relay that is created has no exits.
LEMMA Relay ==
  ASSUME NEW m \in Managers, NEW n \in Heights,
         m.relay.cached => m.relay.height \in Heights,
         ~m.relay.cached => m.relay = NoRelay
  PROVE  /\ getChildRelay(m, n) \in Managers
         /\ getChildRelay(m, n).tree = m.tree /\ getChildRelay(m, n).tries = m.tries
         /\ getChildRelay(m, n).saved = m.saved
         /\ getChildRelay(m, n).relay.cached
         /\ getChildRelay(m, n).relay.exits = m.relay.exits
         /\ getChildRelay(m, n).relay.height \in Heights
         /\ getChildRelay(m, n).relay.height = IF m.relay.cached THEN m.relay.height ELSE n
<1>1. CASE m.relay.cached
  BY <1>1 DEF getChildRelay
<1>2. CASE ~m.relay.cached
  <2>1. CreateRelay(n) \in Relays
    <3>1. <<>> \in Seq(Callers) /\ [h \in Heights |-> <<>>] \in [Heights -> Seq(Callers)]
      OBVIOUS
    <3>2. NoRelay \in Relays
      BY <3>1 DEF NoRelay, Relays
    <3>. QED
      BY <3>2 DEF CreateRelay, Relays
  <2>2. getChildRelay(m, n) = [m EXCEPT !.relay = CreateRelay(n)]
    BY <1>2 DEF getChildRelay
  <2>3. /\ CreateRelay(n).cached /\ CreateRelay(n).height = n
        /\ CreateRelay(n).exits = <<>> /\ m.relay.exits = <<>>
    BY <1>2 DEF CreateRelay, NoRelay
  <2>. QED
    BY <1>2, <2>1, <2>2, <2>3 DEF Managers
<1>. QED
  BY <1>1, <1>2 DEF Managers, Relays

\* An exit is in the relay and in the tree, under the height of the relay.
LEMMA Insert ==
  ASSUME NEW m \in Managers, NEW e \in Callers, m.relay.height \in Heights
  PROVE  /\ insert(m, e) \in Managers
         /\ insert(m, e).saved = m.saved /\ insert(m, e).tries = m.tries
         /\ insert(m, e).relay.cached = m.relay.cached
         /\ insert(m, e).relay.height = m.relay.height
         /\ insert(m, e).relay.exits = Append(m.relay.exits, e)
         /\ insert(m, e).tree.code = m.tree.code
         /\ insert(m, e).tree.storage = m.tree.storage
         /\ insert(m, e).tree.exits[m.relay.height] = Append(m.relay.exits, e)
<1>. DEFINE exits == Append(m.relay.exits, e)
            storage == [m.relay.storage EXCEPT ![m.relay.height] = exits]
<1>1. m.relay \in Relays /\ m.tree \in Trees
  BY DEF Managers
<1>2. exits \in Seq(Callers) /\ storage \in [Heights -> Seq(Callers)]
  BY <1>1 DEF Relays
<1>3. storage[m.relay.height] = exits
  BY <1>1 DEF Relays
<1>4. /\ [m.relay EXCEPT !.exits = exits, !.storage = storage] \in Relays
      /\ [m.tree EXCEPT !.exits = storage] \in Trees
  BY <1>1, <1>2 DEF Relays, Trees
<1>. HIDE DEF exits, storage
<1>5. insert(m, e) = [m EXCEPT !.relay = [m.relay EXCEPT !.exits = exits, !.storage = storage],
                               !.tree = [m.tree EXCEPT !.exits = storage]]
  BY DEF insert, exits, storage, Managers
<1>. QED
  BY <1>1, <1>3, <1>4, <1>5 DEF Managers, Relays, Trees, exits

-----------------------------------------------------------------------------
(* What steps have in common. *)

\* Completed blocks stay as they are.
LEMMA BlocksKept ==
  ASSUME Inv, blocks' = blocks
  PROVE  ExitsAreKept'
BY DEF Inv, ExitsAreKept

\* Frames nest when some of the innermost have ended.
LEMMA LowestNest ==
  ASSUME Inv, Lowest(frames', frames)
  PROVE  Nested'
<1>1. Len(frames') \in Nat /\ Len(frames) \in Nat /\ Len(frames') <= Len(frames)
  BY DEF Inv, TypeOK, Lowest
<1>2. \A i \in 1 .. Len(frames') : i \in 1 .. Len(frames) /\ 1 \in 1 .. Len(frames')
  BY <1>1
<1>. QED
  BY <1>2 DEF Inv, Nested, Lowest

\* Checkpoints of frames are those of the frames that are left.
LEMMA LowestSaved ==
  ASSUME Inv, Lowest(frames', frames), manager' \in Managers, leaked' = leaked,
         Len(manager.saved) - Len(manager'.saved) = Len(frames) - Len(frames'),
         \A i \in 1 .. Len(manager'.saved) : manager'.saved[i] = manager.saved[i]
  PROVE  FramesOwnCheckpoints'
<1>1. /\ Len(frames') \in Nat /\ Len(frames) \in Nat /\ Len(frames') <= Len(frames)
      /\ Len(manager.saved) \in Nat /\ Len(manager'.saved) \in Nat /\ leaked \in Nat
      /\ Len(manager.saved) = Len(frames) + leaked
  BY OwnSaved DEF Lowest, Managers
<1>2. Len(manager'.saved) = Len(frames') + leaked
  <2>. DEFINE a == Len(manager.saved)
              b == Len(manager'.saved)
              c == Len(frames)
              d == Len(frames')
  <2>1. a \in Nat /\ b \in Nat /\ c \in Nat /\ d \in Nat /\ a = c + leaked /\ a - b = c - d
    BY <1>1
  <2>. HIDE DEF a, b, c, d
  <2>2. b = d + leaked
    BY <1>1, <2>1
  <2>. QED
    BY <2>2 DEF b, d
<1>3. ASSUME NEW i \in 1 .. Len(frames')
      PROVE  \E n \in i .. i + leaked : manager'.saved[n] = frames'[i].tree
  <2>1. i \in 1 .. Len(frames) /\ frames'[i].tree = frames[i].tree
    BY <1>1 DEF Lowest
  <2>2. PICK n \in i .. i + leaked : manager.saved[n] = frames[i].tree
    BY <2>1 DEF Inv, FramesOwnCheckpoints
  <2>3. n \in 1 .. Len(manager'.saved)
    BY <1>1, <1>2
  <2>. QED
    BY <2>1, <2>2, <2>3
<1>. QED
  BY <1>2, <1>3 DEF FramesOwnCheckpoints

\* Storage is kept when neither it nor what is expected changes.
LEMMA LowestStorage ==
  ASSUME Inv, Lowest(frames', frames),
         manager'.tree.storage = manager.tree.storage, manager'.tries = manager.tries,
         expected'.storage = expected.storage,
         \A i \in 1 .. Len(blocks') : NothingInvented(blocks'[i].tree, blocks'[i].expected),
         forgotten' = forgotten, leaked' = leaked
  PROVE  StorageInv'
<1>1. Len(frames') \in Nat /\ Len(frames) \in Nat /\ Len(frames') <= Len(frames)
  BY DEF Inv, TypeOK, Lowest
<1>2. \A i \in 1 .. Len(frames') :
        i \in 1 .. Len(frames) /\ frames'[i].tree = frames[i].tree
           /\ frames'[i].expected = frames[i].expected
  BY <1>1 DEF Lowest
<1>3. \A a \in Contracts : manager'.tries[a].known => manager'.tries[a].root = manager'.tree.storage[a]
  BY DEF Inv, StorageInv
<1>4. ASSUME leaked = 0
      PROVE  /\ NothingInvented(manager'.tree, expected')
             /\ Agrees(manager'.tree, expected', Contracts \ forgotten')
             /\ \A a \in Contracts \ forgotten' :
                  manager'.tries[a].known \/ expected'.storage[a] = EmptyStorage
  BY <1>4 DEF Inv, StorageInv, NothingInvented, Agrees
<1>5. ASSUME leaked = 0, NEW i \in 1 .. Len(frames')
      PROVE  /\ NothingInvented(frames'[i].tree, frames'[i].expected)
             /\ Agrees(frames'[i].tree, frames'[i].expected, Contracts \ forgotten')
  BY <1>2, <1>5 DEF Inv, StorageInv
<1>. QED
  BY <1>3, <1>4, <1>5 DEF StorageInv, NothingInvented, Agrees

\* A frame begins with a checkpoint of the tree in it.
LEMMA FrameOpened ==
  ASSUME Inv, NEW gs, NEW f \in Frames, Lowest(gs, frames), Len(gs) = Len(frames),
         f.tree = manager.tree, f.expected = expected,
         frames' = Append(gs, f), manager' = checkpoint(manager),
         expected'.storage = expected.storage,
         blocks' = blocks, forgotten' = forgotten, leaked' = leaked
  PROVE  FramesOwnCheckpoints' /\ StorageInv'
<1>1. /\ manager \in Managers /\ frames \in Seq(Frames) /\ gs \in Seq(Frames)
      /\ manager.saved \in Seq(Trees) /\ manager.tree \in Trees
  BY DEF Inv, TypeOK, Lowest, Managers
<1>2. /\ manager'.tree = manager.tree /\ manager'.tries = manager.tries
      /\ manager'.saved = Append(manager.saved, manager.tree)
      /\ Len(manager'.saved) = Len(manager.saved) + 1
  BY <1>1, Checkpoint
<1>. DEFINE n == Len(frames)
<1>3. n \in Nat /\ Len(manager.saved) \in Nat
  BY <1>1
<1>4. /\ Len(frames') = n + 1 /\ frames'[n + 1] = f
      /\ \A i \in 1 .. n : frames'[i] = gs[i]
  BY <1>1
<1>5. /\ \A i \in 1 .. n : frames'[i].tree = frames[i].tree
      /\ \A i \in 1 .. n : frames'[i].expected = frames[i].expected
      /\ \A i \in 1 .. n + 1 : i \in 1 .. n \/ i = n + 1
  BY <1>3, <1>4 DEF Lowest
<1>6. leaked \in Nat /\ Len(manager.saved) = n + leaked
  BY OwnSaved
<1>7. FramesOwnCheckpoints'
  <2>1. Len(manager'.saved) = Len(frames') + leaked
    BY <1>2, <1>3, <1>4, <1>6
  <2>2. /\ manager'.saved[n + leaked + 1] = manager.tree
        /\ \A i \in 1 .. n + leaked : manager'.saved[i] = manager.saved[i]
    BY <1>1, <1>2, <1>6
  <2>3. ASSUME NEW i \in 1 .. n
        PROVE  \E k \in i .. i + leaked : manager'.saved[k] = frames'[i].tree
    <3>1. PICK k \in i .. i + leaked : manager.saved[k] = frames[i].tree
      BY DEF Inv, FramesOwnCheckpoints
    <3>2. k \in 1 .. n + leaked
      BY <1>3, <1>6
    <3>. QED
      BY <1>5, <2>2, <3>1, <3>2
  <2>4. \E k \in n + 1 .. n + 1 + leaked : manager'.saved[k] = frames'[n + 1].tree
    <3>1. n + leaked + 1 \in n + 1 .. n + 1 + leaked
      BY <1>3, <1>6
    <3>. QED
      BY <1>4, <2>2, <3>1
  <2>. QED
    BY <1>4, <1>5, <2>1, <2>3, <2>4 DEF FramesOwnCheckpoints
<1>8. StorageInv'
  BY <1>2, <1>4, <1>5 DEF Inv, StorageInv, NothingInvented, Agrees
<1>. QED
  BY <1>7, <1>8

\* What is expected again when frame j is undone, the relay still has.
LEMMA RelayUndone ==
  ASSUME Inv, NEW j \in 1 .. Len(frames), Lowest(frames', frames),
         manager'.relay = manager.relay, Undo(frames[j])
  PROVE  RelayInv' /\ (~stale' => ~stale /\ expected.exits = frames[j].expected.exits)
<1>1. Len(frames') \in Nat /\ Len(frames) \in Nat /\ Len(frames') <= Len(frames)
  BY DEF Inv, TypeOK, Lowest
<1>2. \A i \in 1 .. Len(frames') :
        i \in 1 .. Len(frames) /\ frames'[i].expected = frames[i].expected
  BY <1>1 DEF Lowest
<1>3. /\ expected' = frames[j].expected /\ stale \in BOOLEAN
      /\ stale' = (stale \/ expected.exits # frames[j].expected.exits)
  BY DEF Undo, Inv, TypeOK
<1>4. ~stale' => ~stale /\ expected.exits = frames[j].expected.exits
  BY <1>3
<1>5. /\ frames[j].expected.exits \in Seq(Callers)
      /\ Within(frames[j].expected.exits, manager.relay.exits)
      /\ manager.relay.exits \in Seq(Callers)
  <2>1. frames[j] \in Frames /\ manager \in Managers
    BY DEF Inv, TypeOK
  <2>2. frames[j].expected \in Expectations /\ manager.relay \in Relays
    BY <2>1 DEF Frames, Managers
  <2>3. Within(frames[j].expected.exits, manager.relay.exits)
    BY DEF Inv, RelayInv
  <2>. QED
    BY <2>2, <2>3 DEF Expectations, Relays
<1>6. ASSUME stale'
      PROVE  manager.relay.exits # <<>>
  <2>1. CASE stale
    BY <2>1 DEF Inv, RelayInv
  <2>2. CASE ~stale
    <3>1. manager.relay.exits = expected.exits /\ expected.exits # frames[j].expected.exits
      BY <1>3, <1>6, <2>2 DEF Inv, RelayInv
    <3>. QED
      BY <1>5, <3>1, WithinNone
  <2>. QED
    BY <1>3, <2>1, <2>2
<1>7. ~stale' => manager.relay.exits = expected'.exits
  BY <1>3, <1>4 DEF Inv, RelayInv
<1>. QED
  BY <1>2, <1>3, <1>4, <1>5, <1>6, <1>7 DEF Inv, RelayInv

\* What is reverted is what it was when frame j began.
LEMMA FramesUndone ==
  ASSUME Inv, leaked = 0, leaked' = leaked, NEW j \in 1 .. Len(frames),
         Lowest(frames', frames), Len(frames') < j,
         manager'.tree = frames[j].tree, manager'.relay = manager.relay,
         \A a \in Contracts : ~manager'.tries[a].known,
         Undo(frames[j]), blocks' = blocks
  PROVE  StorageInv' /\ FirstInv'
<1>1. Len(frames') \in Nat /\ Len(frames) \in Nat /\ Len(frames') <= Len(frames)
  BY DEF Inv, TypeOK, Lowest
<1>2. \A i \in 1 .. Len(frames') :
        /\ i \in 1 .. Len(frames) /\ frames'[i].tree = frames[i].tree
        /\ frames'[i].expected = frames[i].expected /\ frames'[i].height = frames[i].height
  BY <1>1 DEF Lowest
<1>3. /\ expected' = frames[j].expected
      /\ \A a \in Contracts \ forgotten' :
           a \notin forgotten /\ expected'.storage[a] = EmptyStorage
  BY DEF Undo
<1>4. StorageInv'
  <2>1. \A a \in Contracts : manager'.tries[a].known => manager'.tries[a].root = manager'.tree.storage[a]
    OBVIOUS
  <2>2. \A i \in 1 .. Len(blocks') : NothingInvented(blocks'[i].tree, blocks'[i].expected)
    BY DEF Inv, StorageInv
  <2>3. NothingInvented(manager'.tree, expected')
    BY <1>3 DEF Inv, StorageInv
  <2>4. Agrees(manager'.tree, expected', Contracts \ forgotten')
    BY <1>3 DEF Inv, StorageInv, Agrees
  <2>5. \A a \in Contracts \ forgotten' :
          manager'.tries[a].known \/ expected'.storage[a] = EmptyStorage
    BY <1>3
  <2>6. \A i \in 1 .. Len(frames') :
          /\ NothingInvented(frames'[i].tree, frames'[i].expected)
          /\ Agrees(frames'[i].tree, frames'[i].expected, Contracts \ forgotten')
    BY <1>2, <1>3 DEF Inv, StorageInv, Agrees
  <2>. QED
    BY <2>1, <2>2, <2>3, <2>4, <2>5, <2>6 DEF StorageInv, NothingInvented, Agrees
<1>5. FirstInv'
  <2>1. SUFFICES ASSUME blocks = <<>>, ~stale'
                 PROVE  FirstInv'
    BY DEF FirstInv
  <2>2. ~stale
    BY <2>1, RelayUndone
  <2>3. /\ manager.relay.cached => manager.relay.height = 1
        /\ \A i \in 1 .. Len(frames) :
             /\ frames[i].height = 1 /\ frames[i].tree.exits[1] = frames[i].expected.exits
    BY <2>1, <2>2 DEF Inv, FirstInv
  <2>4. manager'.tree.exits[1] = expected'.exits
    BY <1>3, <2>3
  <2>. QED
    BY <1>2, <2>3, <2>4 DEF FirstInv
<1>. QED
  BY <1>4, <1>5

-----------------------------------------------------------------------------
(* The steps. *)

\* A VM begins in a state of the invariant.
LEMMA InitInv == Init => Inv
<1>. SUFFICES ASSUME Init PROVE Inv
  OBVIOUS
<1>1. /\ EmptyStorage \in Storages /\ <<>> \in Seq(Callers) /\ <<>> \in Seq(Trees)
      /\ [n \in Heights |-> <<>>] \in [Heights -> Seq(Callers)]
  BY DEF EmptyStorage, Storages
<1>2. GenesisTree \in Trees /\ GenesisTree.exits = [n \in Heights |-> <<>>]
  BY <1>1 DEF GenesisTree, Trees, Codes
<1>3. NoTrie \in [known : BOOLEAN, root : Storages] /\ ~NoTrie.known
  BY <1>1 DEF NoTrie
<1>4. NoRelay \in Relays /\ ~NoRelay.cached /\ NoRelay.exits = <<>>
  BY <1>1 DEF NoRelay, Relays
<1>5. /\ manager \in Managers /\ manager.tree = GenesisTree /\ manager.saved = <<>>
      /\ manager.tries = [a \in Contracts |-> NoTrie] /\ manager.relay = NoRelay
  BY <1>1, <1>2, <1>3, <1>4 DEF Init, Started, Managers, Tries
<1>6. expected \in Expectations /\ expected.storage = GenesisTree.storage /\ expected.exits = <<>>
  BY <1>1, <1>2 DEF Init, Expectations, Trees
<1>7. frames = <<>> /\ blocks = <<>> /\ leaked = 0 /\ stale = FALSE /\ forgotten = {}
  BY DEF Init
<1>8. TypeOK
  <2>1. frames \in Seq(Frames) /\ blocks \in Seq(Blocks)
    BY <1>7
  <2>. QED
    BY <1>4, <1>5, <1>6, <2>1 DEF TypeOK, Init
<1>9. Nested /\ FramesOwnCheckpoints /\ ExitsAreKept
  BY <1>5, <1>7 DEF Nested, FramesOwnCheckpoints, ExitsAreKept
<1>10. StorageInv
  <2>1. \A a \in Contracts : GenesisTree.storage[a] = EmptyStorage
    BY DEF GenesisTree
  <2>. QED
    BY <1>3, <1>5, <1>6, <1>7, <2>1 DEF StorageInv, NothingInvented, Agrees
<1>11. RelayInv
  <2>1. Within(<<>>, <<>>)
    BY <1>1, WithinNone
  <2>. QED
    BY <1>4, <1>5, <1>6, <1>7, <2>1 DEF RelayInv
<1>12. FirstInv
  BY <1>2, <1>4, <1>5, <1>6, <1>7 DEF FirstInv
<1>. QED
  BY <1>8, <1>9, <1>10, <1>11, <1>12 DEF Inv

\* A frame that begins now.
LEMMA NewFrame ==
  ASSUME Inv, NEW kind \in {"block", "tx", "message"}, NEW self \in Contracts \union {Null},
         NEW n \in Heights
  PROVE  /\ Frame(kind, self, n, manager) \in Frames
         /\ Frame(kind, self, n, manager).kind = kind
         /\ Frame(kind, self, n, manager).self = self
         /\ Frame(kind, self, n, manager).height = n
         /\ Frame(kind, self, n, manager).tree = manager.tree
         /\ Frame(kind, self, n, manager).expected = expected
BY DEF Inv, TypeOK, Managers, Frame, Frames

\* No frame is the lowest of any.
LEMMA NoFrames ==
  ASSUME Inv
  PROVE  Lowest(<<>>, frames) /\ <<>> \in Seq(Frames) /\ Len(<<>>) = 0
BY DEF Inv, TypeOK, Lowest

\* A block begins on the state of the last one, for which nothing of the
\* exits is expected any more.
LEMMA StartBlockInv ==
  ASSUME Inv, NEW n \in Heights, StartBlock(n)
  PROVE  Inv'
<1>. DEFINE f == Frame("block", Null, n, manager)
<1>1. /\ f \in Frames /\ f.kind = "block" /\ f.height = n
      /\ f.tree = manager.tree /\ f.expected = expected
  BY NewFrame
<1>2. /\ frames = <<>> /\ frames' = <<f>> /\ frames' = Append(<<>>, f)
      /\ manager' = checkpoint(manager) /\ n = Len(blocks) + 1
      /\ expected' = [expected EXCEPT !.exits = <<>>]
      /\ stale' = (manager.relay.exits # <<>>)
      /\ UNCHANGED <<blocks, forgotten, leaked>>
  BY DEF StartBlock
<1>. HIDE DEF f
<1>3. /\ manager \in Managers /\ expected \in Expectations /\ <<>> \in Seq(Callers)
      /\ manager.relay.exits \in Seq(Callers)
  BY DEF Inv, TypeOK, Managers, Relays
<1>4. /\ expected' \in Expectations /\ expected'.storage = expected.storage
      /\ expected'.exits = <<>>
  BY <1>2, <1>3 DEF Expectations
<1>5. FramesOwnCheckpoints' /\ StorageInv'
  BY <1>1, <1>2, <1>4, NoFrames, FrameOpened
<1>6. manager' \in Managers /\ manager'.relay = manager.relay /\ manager'.tree = manager.tree
  BY <1>2, <1>3, Checkpoint
<1>7. TypeOK'
  <2>1. frames' \in Seq(Frames)
    BY <1>1, <1>2
  <2>. QED
    BY <1>2, <1>4, <1>6, <2>1 DEF Inv, TypeOK
<1>8. Len(frames') = 1 /\ frames'[1] = f /\ \A i \in 1 .. 1 : i = 1
  BY <1>2
<1>9. Nested'
  BY <1>1, <1>8 DEF Nested
<1>10. RelayInv'
  <2>1. Within(<<>>, manager.relay.exits)
    BY <1>3, WithinNone
  <2>2. Within(f.expected.exits, manager.relay.exits)
    BY <1>1 DEF Inv, RelayInv
  <2>. QED
    BY <1>2, <1>4, <1>6, <1>8, <2>1, <2>2 DEF Inv, RelayInv
<1>11. FirstInv'
  <2>1. SUFFICES ASSUME blocks = <<>>, ~stale', leaked = 0
                 PROVE  FirstInv'
    BY <1>2 DEF FirstInv
  <2>2. ~stale /\ manager.relay.exits = <<>> /\ expected.exits = <<>>
    BY <1>2, <2>1 DEF Inv, RelayInv
  <2>3. n = 1 /\ manager.tree.exits[1] = expected.exits
    BY <1>2, <2>1, <2>2 DEF Inv, FirstInv
  <2>. QED
    BY <1>1, <1>2, <1>4, <1>6, <1>8, <2>1, <2>2, <2>3 DEF Inv, FirstInv
<1>12. ExitsAreKept'
  BY <1>2, BlocksKept
<1>. QED
  BY <1>5, <1>7, <1>9, <1>10, <1>11, <1>12 DEF Inv

\* A block begins on the state of an earlier block, without tries: what the
\* earlier block had no storage for is expected to be empty.
LEMMA StartBlockAtInv ==
  ASSUME Inv, NEW j \in 1 .. Len(blocks), StartBlockAt(blocks[j])
  PROVE  Inv'
<1>. DEFINE b == blocks[j]
            m == setStateRoot(manager, b.tree)
            e == [b.expected EXCEPT !.exits = <<>>]
            f == [Frame("block", Null, b.height + 1, m) EXCEPT !.expected = e]
<1>1. /\ frames = <<>> /\ manager.saved = <<>> /\ b.height + 1 \in Heights
      /\ manager' = checkpoint(m) /\ frames' = <<f>> /\ expected' = e
      /\ forgotten' = {a \in Contracts : e.storage[a] # EmptyStorage}
      /\ stale' = (manager.relay.exits # <<>>)
      /\ UNCHANGED <<blocks, leaked>>
  BY DEF StartBlockAt
<1>2. b \in Blocks /\ manager \in Managers
  BY DEF Inv, TypeOK
<1>3. /\ e \in Expectations /\ e.storage = b.expected.storage
      /\ b.tree \in Trees
  <2>1. b.expected \in Expectations /\ b.tree \in Trees
    BY <1>2 DEF Blocks
  <2>. HIDE DEF b
  <2>2. <<>> \in Seq(Callers)
    OBVIOUS
  <2>. QED
    BY <2>1, <2>2 DEF Expectations
<1>4. /\ m \in Managers /\ m.tree = b.tree /\ m.saved = <<>> /\ m.relay = manager.relay
      /\ \A a \in Contracts : ~m.tries[a].known
  <2>1. [a \in Contracts |-> NoTrie] \in Tries
    BY DEF NoTrie, EmptyStorage, Tries, Storages
  <2>. QED
    BY <1>1, <1>2, <1>3, <2>1 DEF setStateRoot, Managers, NoTrie
<1>5. /\ f \in Frames /\ f.kind = "block" /\ f.tree = b.tree /\ f.expected = e
  BY <1>1, <1>3, <1>4 DEF Frame, Frames
<1>. HIDE DEF b, m, e, f
<1>6. /\ manager' \in Managers /\ manager'.tree = b.tree /\ manager'.relay = manager.relay
      /\ manager'.tries = m.tries /\ manager'.saved = Append(<<>>, b.tree)
  BY <1>1, <1>4, Checkpoint
<1>7. Len(frames') = 1 /\ frames'[1] = f /\ \A i \in 1 .. 1 : i = 1
  BY <1>1
<1>8. leaked = 0
  BY <1>1, OwnSaved
<1>9. TypeOK'
  <2>1. frames' \in Seq(Frames)
    BY <1>1, <1>5
  <2>. QED
    BY <1>1, <1>3, <1>6, <2>1 DEF Inv, TypeOK
<1>10. Nested'
  BY <1>5, <1>7 DEF Nested
<1>11. /\ Len(manager'.saved) = 1 /\ manager'.saved[1] = b.tree
  BY <1>6
<1>12. FramesOwnCheckpoints'
  <2>1. Len(manager'.saved) = Len(frames') + leaked'
    BY <1>1, <1>7, <1>8, <1>11
  <2>2. \E k \in 1 .. 1 + leaked' : manager'.saved[k] = frames'[1].tree
    BY <1>1, <1>5, <1>7, <1>8, <1>11
  <2>. QED
    BY <1>7, <2>1, <2>2 DEF FramesOwnCheckpoints
<1>13. NothingInvented(b.tree, e) /\ \A a \in Contracts \ forgotten' : e.storage[a] = EmptyStorage
  BY <1>1, <1>3 DEF b, Inv, StorageInv, NothingInvented
<1>14. Agrees(b.tree, e, Contracts \ forgotten')
  <2>1. ASSUME NEW a \in Contracts \ forgotten'
        PROVE  b.tree.storage[a] = e.storage[a]
    <3>1. b.tree.storage[a] \in Storages /\ e.storage[a] \in Storages
      BY <1>3 DEF Trees, Expectations
    <3>2. \A k \in Slots : b.tree.storage[a][k] = e.storage[a][k]
      BY <1>13 DEF NothingInvented, EmptyStorage
    <3>. QED
      BY <3>1, <3>2 DEF Storages
  <2>. QED
    BY <2>1 DEF Agrees
<1>15. StorageInv'
  <2>1. \A i \in 1 .. Len(blocks') : NothingInvented(blocks'[i].tree, blocks'[i].expected)
    BY <1>1 DEF Inv, StorageInv
  <2>. QED
    BY <1>1, <1>4, <1>5, <1>6, <1>7, <1>13, <1>14, <2>1 DEF StorageInv, NothingInvented, Agrees
<1>16. RelayInv'
  <2>1. manager.relay.exits \in Seq(Callers) /\ <<>> \in Seq(Callers)
    BY <1>2 DEF Managers, Relays
  <2>2. e.exits = <<>>
    BY <1>2 DEF e, b, Blocks, Expectations
  <2>3. Within(e.exits, manager.relay.exits)
    BY <2>1, <2>2, WithinNone
  <2>. QED
    BY <1>1, <1>5, <1>6, <1>7, <2>2, <2>3 DEF Inv, RelayInv
<1>17. FirstInv'
  <2>1. blocks' # <<>>
    BY <1>1 DEF Inv, TypeOK
  <2>. QED
    BY <2>1 DEF FirstInv
<1>18. ExitsAreKept'
  BY <1>1, BlocksKept
<1>. QED
  BY <1>9, <1>10, <1>12, <1>15, <1>16, <1>17, <1>18 DEF Inv

\* A transaction or a message begins: a frame is added to those there are.
LEMMA NestedOpened ==
  ASSUME Inv, NEW gs, NEW kind \in {"tx", "message"}, NEW self \in Contracts \union {Null},
         Lowest(gs, frames), Len(gs) = Len(frames), frames # <<>>,
         kind = IF Len(frames) = 1 THEN "tx" ELSE "message",
         Len(frames) > 1 => self \in Contracts,
         frames' = Append(gs, Frame(kind, self, Height, manager)),
         manager' = checkpoint(manager),
         UNCHANGED <<expected, blocks, forgotten, stale, leaked>>
  PROVE  Inv'
<1>. DEFINE f == Frame(kind, self, Height, manager)
            n == Len(frames)
<1>1. manager \in Managers /\ frames \in Seq(Frames) /\ gs \in Seq(Frames)
  BY DEF Inv, TypeOK, Lowest
<1>2. n \in Nat /\ n # 0 /\ frames[1] \in Frames
  BY <1>1
<1>3. Height \in Heights /\ Height = frames[1].height
  BY <1>2 DEF Height, Frames
<1>4. /\ f \in Frames /\ f.kind = kind /\ f.self = self /\ f.height = Height
      /\ f.tree = manager.tree /\ f.expected = expected
      /\ frames' = Append(gs, f)
  <2>1. kind \in {"block", "tx", "message"}
    OBVIOUS
  <2>. HIDE DEF n
  <2>2. \A h \in Heights :
          LET g == Frame(kind, self, h, manager)
          IN  /\ g \in Frames /\ g.kind = kind /\ g.self = self /\ g.height = h
              /\ g.tree = manager.tree /\ g.expected = expected
    BY <2>1, NewFrame
  <2>. QED
    BY <1>3, <2>2
<1>. HIDE DEF f
<1>5. FramesOwnCheckpoints' /\ StorageInv'
  BY <1>4, FrameOpened
<1>6. manager' \in Managers /\ manager'.relay = manager.relay /\ manager'.tree = manager.tree
  BY <1>1, Checkpoint
<1>7. /\ frames' \in Seq(Frames) /\ Len(frames') = n + 1 /\ frames'[n + 1] = f
      /\ \A i \in 1 .. n : frames'[i] = gs[i]
  BY <1>1, <1>4
<1>8. /\ \A i \in 1 .. n :
           /\ frames'[i].kind = frames[i].kind /\ frames'[i].self = frames[i].self
           /\ frames'[i].height = frames[i].height /\ frames'[i].tree = frames[i].tree
           /\ frames'[i].expected = frames[i].expected
      /\ \A i \in 1 .. n + 1 : i \in 1 .. n \/ i = n + 1
      /\ 1 \in 1 .. n
  BY <1>2, <1>7 DEF Lowest
<1>9. TypeOK'
  BY <1>6, <1>7 DEF Inv, TypeOK
<1>10. Nested'
  <2>1. ASSUME NEW i \in 1 .. n
        PROVE  /\ frames'[i].kind = IF i = 1 THEN "block" ELSE IF i = 2 THEN "tx" ELSE "message"
               /\ i > 2 => frames'[i].self \in Contracts
               /\ frames'[i].height = frames'[1].height
    <3>1. /\ frames[i].kind = IF i = 1 THEN "block" ELSE IF i = 2 THEN "tx" ELSE "message"
          /\ i > 2 => frames[i].self \in Contracts
          /\ frames[i].height = frames[1].height
      BY DEF Inv, Nested
    <3>2. frames'[1].height = frames[1].height
      BY <1>8
    <3>. QED
      BY <1>8, <3>1, <3>2
  <2>2. /\ f.kind = IF n + 1 = 1 THEN "block" ELSE IF n + 1 = 2 THEN "tx" ELSE "message"
        /\ n + 1 > 2 => f.self \in Contracts
        /\ f.height = frames'[1].height
    BY <1>2, <1>3, <1>4, <1>8
  <2>. QED
    BY <1>7, <1>8, <2>1, <2>2 DEF Nested
<1>11. RelayInv'
  <2>1. \A i \in 1 .. n : Within(frames'[i].expected.exits, manager.relay.exits)
    BY <1>8 DEF Inv, RelayInv
  <2>2. Within(f.expected.exits, manager.relay.exits)
    BY <1>4 DEF Inv, RelayInv
  <2>. QED
    BY <1>6, <1>7, <1>8, <2>1, <2>2 DEF Inv, RelayInv
<1>12. FirstInv'
  <2>1. SUFFICES ASSUME blocks = <<>>, ~stale, leaked = 0
                 PROVE  FirstInv'
    BY DEF FirstInv
  <2>2. /\ manager.relay.cached => manager.relay.height = 1
        /\ \A i \in 1 .. n :
             /\ frames[i].height = 1 /\ frames[i].tree.exits[1] = frames[i].expected.exits
    BY <2>1 DEF Inv, FirstInv
  <2>3. Height = 1 /\ manager.tree.exits[1] = expected.exits
    BY <1>3, <1>8, <2>1, <2>2 DEF Inv, FirstInv
  <2>4. \A i \in 1 .. Len(frames') :
             /\ frames'[i].height = 1 /\ frames'[i].tree.exits[1] = frames'[i].expected.exits
    <3>1. ASSUME NEW i \in 1 .. n
          PROVE  /\ frames'[i].height = 1 /\ frames'[i].tree.exits[1] = frames'[i].expected.exits
      <4>1. /\ frames'[i].height = frames[i].height /\ frames'[i].tree = frames[i].tree
            /\ frames'[i].expected = frames[i].expected
        BY <1>8
      <4>. QED
        BY <2>2, <4>1
    <3>2. /\ f.height = 1 /\ f.tree.exits[1] = f.expected.exits
      BY <1>4, <2>3
    <3>. QED
      BY <1>7, <1>8, <3>1, <3>2
  <2>. QED
    BY <1>6, <2>2, <2>3, <2>4 DEF FirstInv
<1>13. ExitsAreKept'
  BY BlocksKept
<1>. QED
  BY <1>5, <1>9, <1>10, <1>11, <1>12, <1>13 DEF Inv

\* A transaction begins in a block.
LEMMA StartTxInv ==
  ASSUME Inv, StartTx
  PROVE  Inv'
<1>1. frames \in Seq(Frames) /\ frames # <<>> /\ Len(frames) = 1
  BY Where DEF StartTx
<1>2. Lowest(frames, frames)
  BY <1>1 DEF Lowest
<1>3. "tx" = IF Len(frames) = 1 THEN "tx" ELSE "message"
  BY <1>1
<1>4. ~(Len(frames) > 1)
  BY <1>1
<1>. QED
  BY <1>1, <1>2, <1>3, <1>4, NestedOpened DEF StartTx, bookkeeping

\* A message begins in a transaction or in another message.
LEMMA StartMessageInv ==
  ASSUME Inv, NEW a \in Contracts, StartMessage(a)
  PROVE  Inv'
<1>1. frames \in Seq(Frames) /\ frames # <<>> /\ Len(frames) \in Nat /\ Len(frames) > 1
  BY Senders DEF StartMessage
<1>2. Lowest(Sent(frames), frames) /\ Len(Sent(frames)) = Len(frames)
  BY <1>1, SentFrames
<1>3. "message" = IF Len(frames) = 1 THEN "tx" ELSE "message"
  <2>1. \A n \in Nat : n > 1 => n # 1
    OBVIOUS
  <2>. QED
    BY <1>1, <2>1, Zenon
<1>. QED
  BY <1>1, <1>2, <1>3, NestedOpened DEF StartMessage, bookkeeping

\* A frame ends well.
LEMMA FrameClosed ==
  ASSUME Inv, Len(frames) > 1,
         manager' = commit(manager), frames' = Front(frames),
         UNCHANGED <<expected, blocks, forgotten, stale, leaked>>
  PROVE  Inv'
<1>1. /\ manager \in Managers /\ frames \in Seq(Frames) /\ Len(frames) \in Nat
      /\ manager.saved \in Seq(Trees)
  BY DEF Inv, TypeOK, Managers
<1>2. frames # <<>> /\ manager.saved # <<>>
  BY <1>1, OwnSaved
<1>3. Lowest(frames', frames) /\ Len(frames') = Len(frames) - 1
  BY <1>1, <1>2, FrontFrames
<1>4. /\ manager' \in Managers /\ manager'.tree = manager.tree
      /\ manager'.tries = manager.tries /\ manager'.relay = manager.relay
      /\ Len(manager'.saved) = Len(manager.saved) - 1
      /\ \A i \in 1 .. Len(manager.saved) - 1 : manager'.saved[i] = manager.saved[i]
  BY <1>1, <1>2, Commit
<1>5. FramesOwnCheckpoints'
  <2>1. Len(manager.saved) - Len(manager'.saved) = Len(frames) - Len(frames')
    BY <1>1, <1>3, <1>4
  <2>. QED
    BY <1>3, <1>4, <2>1, LowestSaved
<1>6. StorageInv'
  <2>1. \A i \in 1 .. Len(blocks') : NothingInvented(blocks'[i].tree, blocks'[i].expected)
    BY DEF Inv, StorageInv
  <2>. QED
    BY <1>3, <1>4, <2>1, LowestStorage
<1>7. TypeOK'
  BY <1>3, <1>4 DEF Inv, TypeOK, Lowest
<1>8. Nested'
  BY <1>3, LowestNest
<1>9. RelayInv' /\ FirstInv'
  <2>1. \A i \in 1 .. Len(frames') : i \in 1 .. Len(frames)
    BY <1>1, <1>3
  <2>2. \A i \in 1 .. Len(frames') :
          /\ frames'[i].tree = frames[i].tree /\ frames'[i].height = frames[i].height
          /\ frames'[i].expected = frames[i].expected
    BY <1>3 DEF Lowest
  <2>3. RelayInv'
    BY <1>4, <2>1, <2>2 DEF Inv, RelayInv
  <2>4. FirstInv'
    BY <1>4, <2>1, <2>2 DEF Inv, FirstInv
  <2>. QED
    BY <2>3, <2>4
<1>10. ExitsAreKept'
  BY BlocksKept
<1>. QED
  BY <1>5, <1>6, <1>7, <1>8, <1>9, <1>10 DEF Inv

\* A message ends well.
LEMMA ReturnInv ==
  ASSUME Inv, Return
  PROVE  Inv'
<1>1. Len(frames) \in Nat /\ Len(frames) > 2
  BY Where DEF Return
<1>2. Len(frames) > 1
  BY <1>1
<1>. QED
  BY <1>2, FrameClosed DEF Return, bookkeeping

\* So does a transaction.
LEMMA EndTxInv ==
  ASSUME Inv, EndTx
  PROVE  Inv'
<1>1. Len(frames) = 2
  BY Where DEF EndTx
<1>2. Len(frames) > 1
  BY <1>1
<1>. QED
  BY <1>2, FrameClosed DEF EndTx, bookkeeping

\* What is undone was of the types of what it was.
LEMMA UndoTypes ==
  ASSUME Inv, NEW f \in Frames, Undo(f)
  PROVE  expected' \in Expectations /\ forgotten' \subseteq Contracts /\ stale' \in BOOLEAN
BY DEF Inv, TypeOK, Undo, Frames

\* A message or all of a block are given up.
LEMMA Reverted ==
  ASSUME Inv, NEW j \in 1 .. Len(frames), Lowest(frames', frames), Len(frames') = j - 1,
         manager' \in Managers, manager'.relay = manager.relay,
         Len(manager'.saved) = Len(manager.saved) - (Len(frames) - Len(frames')),
         \A i \in 1 .. Len(manager'.saved) : manager'.saved[i] = manager.saved[i],
         leaked = 0 => manager'.tree = frames[j].tree,
         \A a \in Contracts : ~manager'.tries[a].known,
         Undo(frames[j]), UNCHANGED <<blocks, leaked>>
  PROVE  Inv'
<1>1. /\ frames \in Seq(Frames) /\ Len(frames) \in Nat /\ j \in Nat
      /\ manager.saved \in Seq(Trees) /\ manager'.saved \in Seq(Trees)
      /\ Len(manager.saved) \in Nat /\ Len(manager'.saved) \in Nat
      /\ frames[j] \in Frames
  BY DEF Inv, TypeOK, Managers
<1>2. TypeOK'
  BY <1>1, UndoTypes DEF Inv, TypeOK, Lowest
<1>3. Nested'
  BY LowestNest
<1>4. FramesOwnCheckpoints'
  <2>1. /\ Len(manager'.saved) = Len(manager.saved) - (Len(frames) - Len(frames'))
        /\ Len(frames') \in Nat
    BY DEF Lowest
  <2>2. Len(manager.saved) - Len(manager'.saved) = Len(frames) - Len(frames')
    <3>. DEFINE a == Len(manager.saved)
                b == Len(manager'.saved)
                c == Len(frames)
                d == Len(frames')
    <3>1. a \in Nat /\ b \in Nat /\ c \in Nat /\ d \in Nat /\ b = a - (c - d)
      BY <1>1, <2>1
    <3>. HIDE DEF a, b, c, d
    <3>2. a - b = c - d
      BY <3>1
    <3>. QED
      BY <3>2 DEF a, b, c, d
  <2>. QED
    BY <2>2, LowestSaved
<1>5. RelayInv'
  BY RelayUndone
<1>6. StorageInv' /\ FirstInv'
  <2>1. CASE leaked # 0
    BY <2>1 DEF Inv, StorageInv, FirstInv
  <2>2. CASE leaked = 0
    <3>1. Len(frames') < j
      BY <1>1
    <3>. QED
      BY <2>2, <3>1, FramesUndone
  <2>. QED
    BY <2>1, <2>2
<1>7. ExitsAreKept'
  BY BlocksKept
<1>. QED
  BY <1>2, <1>3, <1>4, <1>5, <1>6, <1>7 DEF Inv

\* A message fails, and its frame is undone.
LEMMA FailInv ==
  ASSUME Inv, Fail
  PROVE  Inv'
<1>1. /\ frames \in Seq(Frames) /\ frames # <<>> /\ Len(frames) \in Nat /\ Len(frames) > 2
      /\ Top = frames[Len(frames)]
  BY Where DEF Fail
<1>2. manager \in Managers /\ manager.saved \in Seq(Trees)
  BY DEF Inv, TypeOK, Managers
<1>3. manager.saved # <<>> /\ Len(manager.saved) \in Nat
  BY <1>1, <1>2, OwnSaved
<1>4. /\ manager' = revert(manager) /\ frames' = Front(frames) /\ Undo(frames[Len(frames)])
      /\ UNCHANGED <<blocks, leaked>>
  BY <1>1 DEF Fail
<1>5. Lowest(frames', frames) /\ Len(frames') = Len(frames) - 1
  BY <1>1, <1>4, FrontFrames
<1>6. /\ manager' \in Managers /\ manager'.tree = manager.saved[Len(manager.saved)]
      /\ \A a \in Contracts : ~manager'.tries[a].known
      /\ manager'.relay = manager.relay
      /\ Len(manager'.saved) = Len(manager.saved) - 1
      /\ \A i \in 1 .. Len(manager.saved) - 1 : manager'.saved[i] = manager.saved[i]
  BY <1>2, <1>3, <1>4, Revert
<1>7. Len(frames) \in 1 .. Len(frames)
  BY <1>1
<1>8. leaked = 0 => manager'.tree = frames[Len(frames)].tree
  <2>1. leaked = 0 => Len(manager.saved) = Len(frames)
    BY <1>1, OwnSaved
  <2>. QED
    BY <1>6, <1>7, <2>1, OwnSaved
<1>9. Len(manager'.saved) = Len(manager.saved) - (Len(frames) - Len(frames'))
  BY <1>1, <1>3, <1>5, <1>6
<1>. QED
  BY <1>4, <1>5, <1>6, <1>7, <1>8, <1>9, Reverted

\* Both checkpoints of a block that is given up are reverted.
LEMMA RevertTwice ==
  ASSUME Inv, Len(frames) = 2
  PROVE  /\ revert(revert(manager)) \in Managers
         /\ revert(revert(manager)).relay = manager.relay
         /\ Len(revert(revert(manager)).saved) = Len(manager.saved) - 2
         /\ \A i \in 1 .. Len(manager.saved) - 2 :
              revert(revert(manager)).saved[i] = manager.saved[i]
         /\ leaked = 0 => revert(revert(manager)).tree = frames[1].tree
         /\ \A a \in Contracts : ~revert(revert(manager)).tries[a].known
<1>. DEFINE once == revert(manager)
            n == Len(manager.saved)
<1>1. manager \in Managers /\ manager.saved \in Seq(Trees)
  BY DEF Inv, TypeOK, Managers
<1>2. n \in Nat /\ n >= 2 /\ manager.saved # <<>> /\ (leaked = 0 => n = 2)
  <2>1. n \in Nat /\ leaked \in Nat /\ n = 2 + leaked
    BY OwnSaved
  <2>. HIDE DEF n
  <2>2. n >= 2 /\ n # 0 /\ (leaked = 0 => n = 2)
    BY <2>1
  <2>. QED
    BY <1>1, <2>1, <2>2 DEF n
<1>3. /\ once \in Managers /\ once.relay = manager.relay /\ Len(once.saved) = n - 1
      /\ \A i \in 1 .. n - 1 : once.saved[i] = manager.saved[i]
  BY <1>1, <1>2, Revert
<1>4. once.saved \in Seq(Trees) /\ once.saved # <<>>
  BY <1>2, <1>3 DEF Managers
<1>. HIDE DEF once
<1>5. /\ revert(once) \in Managers /\ revert(once).relay = once.relay
      /\ Len(revert(once).saved) = Len(once.saved) - 1
      /\ \A i \in 1 .. Len(once.saved) - 1 : revert(once).saved[i] = once.saved[i]
      /\ revert(once).tree = once.saved[Len(once.saved)]
      /\ \A a \in Contracts : ~revert(once).tries[a].known
  BY <1>3, <1>4, Revert
<1>6. Len(once.saved) - 1 = n - 2 /\ \A i \in 1 .. n - 2 : i \in 1 .. n - 1
  BY <1>2, <1>3
<1>7. leaked = 0 => revert(once).tree = frames[1].tree
  <2>1. SUFFICES ASSUME leaked = 0
                 PROVE  revert(once).tree = frames[1].tree
    OBVIOUS
  <2>2. n = 2 /\ Len(once.saved) = 1
    BY <1>2, <1>3, <2>1
  <2>3. once.saved[1] = manager.saved[1] /\ manager.saved[1] = frames[1].tree
    BY <1>2, <1>3, <2>1, <2>2, OwnSaved
  <2>. QED
    BY <1>5, <2>2, <2>3
<1>8. \A i \in 1 .. n - 2 : revert(once).saved[i] = manager.saved[i]
  BY <1>3, <1>5, <1>6
<1>. QED
  BY <1>3, <1>5, <1>6, <1>7, <1>8 DEF once

\* A transaction throws, and its block is undone.
LEMMA ThrowTxInv ==
  ASSUME Inv, ThrowTx
  PROVE  Inv'
<1>1. /\ frames \in Seq(Frames) /\ Len(frames) = 2
      /\ manager' = revert(revert(manager)) /\ frames' = <<>> /\ Undo(frames[1])
      /\ UNCHANGED <<blocks, leaked>>
  BY Where DEF ThrowTx
<1>2. Lowest(frames', frames) /\ Len(frames') = 0 /\ 1 \in 1 .. Len(frames)
  BY <1>1, NoFrames
<1>3. Len(manager.saved) \in Nat
  BY DEF Inv, TypeOK, Managers
<1>. DEFINE m == revert(revert(manager))
<1>4. /\ m \in Managers /\ m.relay = manager.relay
      /\ Len(m.saved) = Len(manager.saved) - 2
      /\ \A i \in 1 .. Len(manager.saved) - 2 : m.saved[i] = manager.saved[i]
      /\ leaked = 0 => m.tree = frames[1].tree
      /\ \A a \in Contracts : ~m.tries[a].known
  BY <1>1, RevertTwice
<1>. HIDE DEF m
<1>5. manager' = m
  BY <1>1 DEF m
<1>6. Len(manager'.saved) = Len(manager.saved) - (Len(frames) - Len(frames'))
  BY <1>1, <1>2, <1>3, <1>4, <1>5
<1>7. Len(frames') = 1 - 1
  BY <1>2
<1>. QED
  BY <1>1, <1>2, <1>4, <1>5, <1>6, <1>7, Reverted

\* No checkpoint is opened or closed, and no frame.
LEMMA SameDepth ==
  ASSUME Inv, Lowest(frames', frames), Len(frames') = Len(frames), manager' \in Managers,
         manager'.saved = manager.saved, leaked' = leaked
  PROVE  Nested' /\ FramesOwnCheckpoints'
<1>1. Len(manager.saved) \in Nat /\ Len(frames) \in Nat
  BY DEF Inv, TypeOK, Managers
<1>2. Len(manager.saved) - Len(manager'.saved) = Len(frames) - Len(frames')
  BY <1>1
<1>. QED
  BY <1>2, LowestNest, LowestSaved

\* A contract stores: the trie that it opens is what is expected of it, or
\* part of that when a trie was dropped.
LEMMA SstoreInv ==
  ASSUME Inv, NEW k \in Slots, NEW v \in Values \union {Null}, Sstore(k, v)
  PROVE  Inv'
<1>. DEFINE a == Top.self
            root == [getStorageTrie(manager, a) EXCEPT ![k] = v]
            kept == [expected.storage[a] EXCEPT ![k] = v]
<1>1. /\ a \in Contracts /\ frames \in Seq(Frames)
      /\ manager' = modifyContractStorage(manager, a, root)
      /\ expected' = [expected EXCEPT !.storage[a] = kept]
      /\ UNCHANGED <<frames, blocks, forgotten, stale, leaked>>
  BY Where DEF Sstore, putContractStorage, bookkeeping
<1>2. manager \in Managers /\ expected \in Expectations /\ expected.storage[a] \in Storages
  BY <1>1 DEF Inv, TypeOK, Expectations
<1>3. /\ getStorageTrie(manager, a) \in Storages
      /\ getStorageTrie(manager, a) =
           IF manager.tries[a].known THEN manager.tries[a].root ELSE EmptyStorage
  BY <1>1, <1>2, Opened
<1>4. /\ root \in Storages /\ root[k] = v
      /\ \A q \in Slots : q # k => root[q] = getStorageTrie(manager, a)[q]
      /\ kept \in Storages /\ kept[k] = v
      /\ \A q \in Slots : q # k => kept[q] = expected.storage[a][q]
      /\ expected.storage[a] = getStorageTrie(manager, a) => kept = root
  BY <1>2, <1>3 DEF Storages
<1>5. /\ expected' \in Expectations /\ expected'.exits = expected.exits
      /\ expected'.storage = [expected.storage EXCEPT ![a] = kept]
  BY <1>1, <1>2, <1>4 DEF Expectations
<1>. HIDE DEF a, root, kept
<1>6. /\ manager' \in Managers /\ manager'.saved = manager.saved
      /\ manager'.relay = manager.relay
      /\ manager'.tree = [manager.tree EXCEPT !.storage[a] = root]
      /\ manager'.tries = [manager.tries EXCEPT ![a] = [known |-> TRUE, root |-> root]]
  BY <1>1, <1>2, <1>4, Modify
<1>7. /\ manager'.tree.storage = [manager.tree.storage EXCEPT ![a] = root]
      /\ manager'.tree.exits = manager.tree.exits
  BY <1>2, <1>6 DEF Managers, Trees
<1>8. /\ manager.tree.storage \in [Contracts -> Storages]
      /\ expected.storage \in [Contracts -> Storages] /\ manager.tries \in Tries
  BY <1>2 DEF Managers, Trees, Expectations
<1>9. ASSUME NEW c \in Contracts
      PROVE  /\ manager'.tree.storage[c] = IF c = a THEN root ELSE manager.tree.storage[c]
             /\ expected'.storage[c] = IF c = a THEN kept ELSE expected.storage[c]
             /\ manager'.tries[c] = IF c = a THEN [known |-> TRUE, root |-> root] ELSE manager.tries[c]
  BY <1>5, <1>6, <1>7, <1>8 DEF Tries
<1>10. Lowest(frames', frames) /\ Len(frames') = Len(frames)
  BY <1>1 DEF Lowest
<1>11. TypeOK'
  BY <1>1, <1>5, <1>6 DEF Inv, TypeOK
<1>12. Nested' /\ FramesOwnCheckpoints'
  BY <1>1, <1>6, <1>10, SameDepth
<1>13. StorageInv'
  <2>1. ASSUME NEW c \in Contracts, manager'.tries[c].known
        PROVE  manager'.tries[c].root = manager'.tree.storage[c]
    BY <1>9, <2>1 DEF Inv, StorageInv
  <2>2. ASSUME leaked = 0
        PROVE  NothingInvented(manager'.tree, expected')
    <3>1. ASSUME NEW q \in Slots
          PROVE  getStorageTrie(manager, a)[q] \in {Null, expected.storage[a][q]}
      BY <1>1, <1>3, <2>2 DEF Inv, StorageInv, NothingInvented, EmptyStorage
    <3>2. ASSUME NEW q \in Slots
          PROVE  root[q] \in {Null, kept[q]}
      BY <1>4, <3>1
    <3>3. ASSUME NEW c \in Contracts, NEW q \in Slots
          PROVE  manager'.tree.storage[c][q] \in {Null, expected'.storage[c][q]}
      BY <1>9, <2>2, <3>2 DEF Inv, StorageInv, NothingInvented
    <3>. QED
      BY <3>3 DEF NothingInvented
  <2>3. ASSUME leaked = 0, NEW c \in Contracts \ forgotten'
        PROVE  /\ manager'.tree.storage[c] = expected'.storage[c]
               /\ manager'.tries[c].known \/ expected'.storage[c] = EmptyStorage
    <3>1. /\ manager.tree.storage[c] = expected.storage[c]
          /\ manager.tries[c].known \/ expected.storage[c] = EmptyStorage
          /\ manager.tries[c].known => manager.tries[c].root = manager.tree.storage[c]
      BY <1>1, <2>3 DEF Inv, StorageInv, Agrees
    <3>2. CASE c = a
      BY <1>3, <1>4, <1>9, <3>1, <3>2
    <3>3. CASE c # a
      BY <1>9, <3>1, <3>3
    <3>. QED
      BY <3>2, <3>3
  <2>4. \A i \in 1 .. Len(blocks') : NothingInvented(blocks'[i].tree, blocks'[i].expected)
    BY <1>1 DEF Inv, StorageInv
  <2>5. leaked = 0 => \A i \in 1 .. Len(frames') :
          /\ NothingInvented(frames'[i].tree, frames'[i].expected)
          /\ Agrees(frames'[i].tree, frames'[i].expected, Contracts \ forgotten')
    BY <1>1 DEF Inv, StorageInv
  <2>. QED
    BY <1>1, <2>1, <2>2, <2>3, <2>4, <2>5 DEF StorageInv, NothingInvented, Agrees
<1>14. RelayInv' /\ FirstInv'
  BY <1>1, <1>5, <1>6, <1>7 DEF Inv, RelayInv, FirstInv
<1>15. ExitsAreKept'
  BY <1>1, BlocksKept
<1>. QED
  BY <1>11, <1>12, <1>13, <1>14, <1>15 DEF Inv

\* An account gets code and loses its storage.
LEMMA ExecuteCreateInv ==
  ASSUME Inv, NEW a \in Contracts, executeCreate(a)
  PROVE  Inv'
<1>. DEFINE begun == checkpoint(manager)
            m == clearContractStorage(begun, a)
            coded == putContractCode(m, a)
<1>1. /\ frames \in Seq(Frames) /\ frames # <<>>
      /\ manager' = commit(coded) /\ frames' = Sent(frames)
      /\ expected' = [expected EXCEPT !.code[a] = TRUE, !.storage[a] = EmptyStorage]
      /\ UNCHANGED <<blocks, forgotten, stale, leaked>>
  BY Where DEF executeCreate, bookkeeping
<1>2. manager \in Managers /\ expected \in Expectations
  BY DEF Inv, TypeOK
<1>3. /\ begun \in Managers /\ begun.tree = manager.tree /\ begun.tries = manager.tries
      /\ begun.relay = manager.relay /\ begun.saved = Append(manager.saved, manager.tree)
  BY <1>2, Checkpoint
<1>4. EmptyStorage \in Storages
  BY DEF EmptyStorage, Storages
<1>. HIDE DEF begun
<1>5. /\ m \in Managers /\ m.saved = begun.saved /\ m.relay = begun.relay
      /\ m.tree = [begun.tree EXCEPT !.storage[a] = EmptyStorage]
      /\ m.tries = [begun.tries EXCEPT ![a] = [known |-> TRUE, root |-> EmptyStorage]]
  BY <1>3, <1>4, Modify DEF clearContractStorage
<1>. HIDE DEF m
<1>6. /\ coded \in Managers /\ coded.saved = m.saved /\ coded.relay = m.relay
      /\ coded.tries = m.tries /\ coded.tree.storage = m.tree.storage
      /\ coded.tree.exits = m.tree.exits
  BY <1>5 DEF putContractCode, Managers, Trees, Codes
<1>. HIDE DEF coded
<1>7. manager.saved \in Seq(Trees) /\ manager.tree \in Trees
  BY <1>2 DEF Managers
<1>8. Front(coded.saved) = manager.saved /\ coded.saved # <<>>
  BY <1>3, <1>5, <1>6, <1>7, FrontOfAppend
<1>9. /\ manager' \in Managers /\ manager'.tree = coded.tree /\ manager'.tries = coded.tries
      /\ manager'.relay = coded.relay /\ manager'.saved = manager.saved
  BY <1>1, <1>6, <1>8, Commit
<1>10. /\ manager'.tree.storage = [manager.tree.storage EXCEPT ![a] = EmptyStorage]
       /\ manager'.tree.exits = manager.tree.exits
       /\ manager'.tries = [manager.tries EXCEPT ![a] = [known |-> TRUE, root |-> EmptyStorage]]
       /\ manager'.relay = manager.relay
  BY <1>3, <1>5, <1>6, <1>7, <1>9 DEF Trees
<1>11. /\ expected' \in Expectations /\ expected'.exits = expected.exits
       /\ expected'.storage = [expected.storage EXCEPT ![a] = EmptyStorage]
  BY <1>1, <1>2, <1>4 DEF Expectations, Codes
<1>12. /\ manager.tree.storage \in [Contracts -> Storages]
       /\ expected.storage \in [Contracts -> Storages] /\ manager.tries \in Tries
  BY <1>2, <1>7 DEF Managers, Trees, Expectations
<1>13. ASSUME NEW c \in Contracts
       PROVE  /\ manager'.tree.storage[c] = IF c = a THEN EmptyStorage ELSE manager.tree.storage[c]
              /\ expected'.storage[c] = IF c = a THEN EmptyStorage ELSE expected.storage[c]
              /\ c # a => manager'.tries[c] = manager.tries[c]
              /\ c = a => manager'.tries[c].known /\ manager'.tries[c].root = EmptyStorage
  BY <1>10, <1>11, <1>12 DEF Tries
<1>14. Lowest(frames', frames) /\ Len(frames') = Len(frames)
  BY <1>1, SentFrames
<1>15. TypeOK'
  BY <1>1, <1>9, <1>10, <1>11, <1>14 DEF Inv, TypeOK, Lowest
<1>16. Nested' /\ FramesOwnCheckpoints'
  BY <1>1, <1>9, <1>14, SameDepth
<1>17. \A i \in 1 .. Len(frames') :
         /\ i \in 1 .. Len(frames)
         /\ frames'[i].tree = frames[i].tree /\ frames'[i].height = frames[i].height
         /\ frames'[i].expected = frames[i].expected
  BY <1>14 DEF Lowest
<1>18. StorageInv'
  <2>1. ASSUME NEW c \in Contracts, manager'.tries[c].known
        PROVE  manager'.tries[c].root = manager'.tree.storage[c]
    BY <1>13, <2>1 DEF Inv, StorageInv
  <2>2. ASSUME leaked = 0, NEW c \in Contracts, NEW q \in Slots
        PROVE  manager'.tree.storage[c][q] \in {Null, expected'.storage[c][q]}
    BY <1>13, <2>2 DEF Inv, StorageInv, NothingInvented
  <2>3. ASSUME leaked = 0, NEW c \in Contracts \ forgotten'
        PROVE  /\ manager'.tree.storage[c] = expected'.storage[c]
               /\ manager'.tries[c].known \/ expected'.storage[c] = EmptyStorage
    BY <1>1, <1>13, <2>3 DEF Inv, StorageInv, Agrees
  <2>4. \A i \in 1 .. Len(blocks') : NothingInvented(blocks'[i].tree, blocks'[i].expected)
    BY <1>1 DEF Inv, StorageInv
  <2>5. leaked = 0 => \A i \in 1 .. Len(frames') :
          /\ NothingInvented(frames'[i].tree, frames'[i].expected)
          /\ Agrees(frames'[i].tree, frames'[i].expected, Contracts \ forgotten')
    BY <1>1, <1>17 DEF Inv, StorageInv
  <2>. QED
    BY <1>1, <2>1, <2>2, <2>3, <2>4, <2>5 DEF StorageInv, NothingInvented, Agrees
<1>19. RelayInv' /\ FirstInv'
  <2>1. RelayInv'
    BY <1>1, <1>10, <1>11, <1>17 DEF Inv, RelayInv
  <2>2. FirstInv'
    BY <1>1, <1>10, <1>11, <1>17 DEF Inv, FirstInv
  <2>. QED
    BY <2>1, <2>2
<1>20. ExitsAreKept'
  BY <1>1, BlocksKept
<1>. QED
  BY <1>15, <1>16, <1>18, <1>19, <1>20 DEF Inv

\* An exit is made: the checkpoints of the message and of the exit are both
\* committed.
LEMMA ExecuteExitCallInv ==
  ASSUME Inv, NEW e \in Callers, executeExitCall(e)
  PROVE  Inv'
<1>. DEFINE once == checkpoint(manager)
            begun == checkpoint(once)
            with == getChildRelay(begun, Height)
            m == insert(with, e)
<1>1. /\ frames \in Seq(Frames) /\ frames # <<>> /\ Height \in Heights
      /\ manager' = commit(commit(m)) /\ frames' = Sent(frames)
      /\ expected' = [expected EXCEPT !.exits = Append(@, e)]
      /\ UNCHANGED <<blocks, forgotten, stale, leaked>>
  BY Senders DEF executeExitCall, bookkeeping
<1>2. /\ manager \in Managers /\ expected \in Expectations
      /\ manager.saved \in Seq(Trees) /\ manager.tree \in Trees
      /\ manager.relay.cached => manager.relay.height \in Heights
      /\ ~manager.relay.cached => manager.relay = NoRelay
  BY DEF Inv, TypeOK, Managers, RelayInv
<1>3. /\ once \in Managers /\ once.tree = manager.tree /\ once.tries = manager.tries
      /\ once.relay = manager.relay /\ once.saved = Append(manager.saved, manager.tree)
  BY <1>2, Checkpoint
<1>. HIDE DEF once
<1>4. /\ begun \in Managers /\ begun.tree = manager.tree /\ begun.tries = manager.tries
      /\ begun.relay = manager.relay /\ begun.saved = Append(once.saved, manager.tree)
  BY <1>3, Checkpoint
<1>. HIDE DEF begun
<1>5. /\ with \in Managers /\ with.tree = manager.tree /\ with.tries = manager.tries
      /\ with.saved = begun.saved /\ with.relay.exits = manager.relay.exits
      /\ with.relay.cached /\ with.relay.height \in Heights
      /\ with.relay.height = IF manager.relay.cached THEN manager.relay.height ELSE Height
  BY <1>1, <1>2, <1>4, Relay
<1>. HIDE DEF with
<1>6. /\ m \in Managers /\ m.saved = begun.saved /\ m.tries = manager.tries
      /\ m.relay.cached /\ m.relay.height = with.relay.height
      /\ m.relay.exits = Append(manager.relay.exits, e)
      /\ m.tree.storage = manager.tree.storage
      /\ m.tree.exits[with.relay.height] = Append(manager.relay.exits, e)
  <2>1. /\ m \in Managers /\ m.saved = with.saved /\ m.tries = with.tries
        /\ m.relay.cached = with.relay.cached /\ m.relay.height = with.relay.height
        /\ m.relay.exits = Append(with.relay.exits, e)
        /\ m.tree.storage = with.tree.storage
        /\ m.tree.exits[with.relay.height] = Append(with.relay.exits, e)
    BY <1>5, Insert
  <2>. HIDE DEF m
  <2>. QED
    BY <1>5, <2>1
<1>. HIDE DEF m
<1>7. /\ once.saved \in Seq(Trees)
      /\ Front(begun.saved) = once.saved /\ begun.saved # <<>>
      /\ Front(once.saved) = manager.saved /\ once.saved # <<>>
  <2>1. /\ once.saved \in Seq(Trees) /\ once.saved # <<>>
        /\ Front(once.saved) = manager.saved
    BY <1>2, <1>3, FrontOfAppend
  <2>2. begun.saved # <<>> /\ Front(begun.saved) = once.saved
    BY <1>2, <1>4, <2>1, FrontOfAppend
  <2>. QED
    BY <2>1, <2>2
<1>8. /\ commit(m) \in Managers /\ commit(m).tree = m.tree /\ commit(m).tries = m.tries
      /\ commit(m).relay = m.relay /\ commit(m).saved = once.saved
  BY <1>6, <1>7, Commit
<1>9. /\ manager' \in Managers /\ manager'.tree = m.tree /\ manager'.tries = m.tries
      /\ manager'.relay = m.relay /\ manager'.saved = manager.saved
  BY <1>1, <1>7, <1>8, Commit
<1>10. /\ expected' \in Expectations /\ expected'.storage = expected.storage
       /\ expected'.exits = Append(expected.exits, e)
  <2>. DEFINE exits == Append(expected.exits, e)
  <2>1. exits \in Seq(Callers) /\ expected' = [expected EXCEPT !.exits = exits]
    BY <1>1, <1>2 DEF Expectations
  <2>. HIDE DEF exits
  <2>2. /\ expected' \in Expectations /\ expected'.storage = expected.storage
        /\ expected'.exits = exits
    BY <1>2, <2>1 DEF Expectations
  <2>. QED
    BY <2>2 DEF exits
<1>11. Lowest(frames', frames) /\ Len(frames') = Len(frames)
  BY <1>1, SentFrames
<1>12. TypeOK'
  BY <1>1, <1>5, <1>6, <1>9, <1>10, <1>11 DEF Inv, TypeOK, Lowest
<1>13. Nested' /\ FramesOwnCheckpoints'
  BY <1>1, <1>9, <1>11, SameDepth
<1>14. StorageInv'
  <2>1. \A i \in 1 .. Len(blocks') : NothingInvented(blocks'[i].tree, blocks'[i].expected)
    BY <1>1 DEF Inv, StorageInv
  <2>. QED
    BY <1>1, <1>6, <1>9, <1>10, <1>11, <2>1, LowestStorage
<1>15. \A i \in 1 .. Len(frames') :
         /\ i \in 1 .. Len(frames)
         /\ frames'[i].tree = frames[i].tree /\ frames'[i].height = frames[i].height
         /\ frames'[i].expected = frames[i].expected
  BY <1>11 DEF Lowest
<1>16. manager.relay.exits \in Seq(Callers) /\ expected.exits \in Seq(Callers)
  BY <1>2 DEF Managers, Relays, Expectations
<1>17. RelayInv'
  <2>1. Within(expected'.exits, manager'.relay.exits)
    <3>1. Within(expected.exits, manager.relay.exits)
      BY DEF Inv, RelayInv
    <3>. QED
      BY <1>6, <1>9, <1>10, <1>16, <3>1, WithinAppend
  <2>2. ASSUME NEW i \in 1 .. Len(frames')
        PROVE  Within(frames'[i].expected.exits, manager'.relay.exits)
    <3>1. Within(frames[i].expected.exits, manager.relay.exits)
      BY <1>15 DEF Inv, RelayInv
    <3>2. frames[i].expected.exits \in Seq(Callers)
      <4>1. frames[i] \in Frames
        BY <1>1, <1>15
      <4>2. frames[i].expected \in Expectations
        BY <4>1 DEF Frames
      <4>. QED
        BY <4>2 DEF Expectations
    <3>. QED
      BY <1>6, <1>9, <1>15, <1>16, <3>1, <3>2, WithinAppend
  <2>3. Append(manager.relay.exits, e) # <<>>
    BY <1>16
  <2>. QED
    BY <1>1, <1>6, <1>9, <1>10, <2>1, <2>2, <2>3 DEF Inv, RelayInv
<1>18. FirstInv'
  <2>1. SUFFICES ASSUME blocks = <<>>, ~stale, leaked = 0
                 PROVE  FirstInv'
    BY <1>1 DEF FirstInv
  <2>2. /\ manager.relay.exits = expected.exits
        /\ manager.relay.cached => manager.relay.height = 1
        /\ \A i \in 1 .. Len(frames) :
             /\ frames[i].height = 1
             /\ frames[i].tree.exits[1] = frames[i].expected.exits
    BY <2>1 DEF Inv, RelayInv, FirstInv
  <2>3. Height = 1
    <3>1. 1 \in 1 .. Len(frames)
      BY <1>1
    <3>. QED
      BY <2>2, <3>1 DEF Height
  <2>. QED
    BY <1>5, <1>6, <1>9, <1>10, <1>15, <2>2, <2>3 DEF FirstInv
<1>19. ExitsAreKept'
  BY <1>1, BlocksKept
<1>. QED
  BY <1>12, <1>13, <1>14, <1>17, <1>18, <1>19 DEF Inv

\* An exit fails: both are reverted, and all tries are dropped.
LEMMA FailExitCallInv ==
  ASSUME Inv, FailExitCall
  PROVE  Inv'
<1>. DEFINE once == checkpoint(manager)
            begun == checkpoint(once)
<1>1. /\ frames \in Seq(Frames) /\ frames # <<>>
      /\ manager' = revert(revert(begun)) /\ frames' = Sent(frames)
      /\ forgotten' = forgotten \union {a \in Contracts : expected.storage[a] # EmptyStorage}
      /\ UNCHANGED <<expected, blocks, stale, leaked>>
  BY Senders DEF FailExitCall
<1>2. /\ manager \in Managers
      /\ manager.saved \in Seq(Trees) /\ manager.tree \in Trees
  BY DEF Inv, TypeOK, Managers
<1>3. /\ once \in Managers /\ once.tree = manager.tree
      /\ once.relay = manager.relay /\ once.saved = Append(manager.saved, manager.tree)
  BY <1>2, Checkpoint
<1>. HIDE DEF once
<1>4. /\ begun \in Managers
      /\ begun.relay = manager.relay /\ begun.saved = Append(once.saved, manager.tree)
  BY <1>3, Checkpoint
<1>. HIDE DEF begun
<1>5. /\ once.saved \in Seq(Trees)
      /\ Front(begun.saved) = once.saved /\ begun.saved # <<>>
      /\ Front(once.saved) = manager.saved /\ once.saved # <<>>
      /\ once.saved[Len(once.saved)] = manager.tree
  <2>1. /\ once.saved \in Seq(Trees) /\ once.saved # <<>>
        /\ Front(once.saved) = manager.saved /\ Last(once.saved) = manager.tree
    BY <1>2, <1>3, FrontOfAppend
  <2>2. begun.saved # <<>> /\ Front(begun.saved) = once.saved
    BY <1>2, <1>4, <2>1, FrontOfAppend
  <2>. QED
    BY <2>1, <2>2 DEF Last
<1>6. /\ revert(begun) \in Managers
      /\ revert(begun).relay = manager.relay /\ revert(begun).saved = once.saved
  BY <1>4, <1>5, Revert
<1>7. /\ manager' \in Managers /\ manager'.tree = manager.tree
      /\ manager'.relay = manager.relay /\ manager'.saved = manager.saved
      /\ \A a \in Contracts : ~manager'.tries[a].known
  BY <1>1, <1>5, <1>6, Revert
<1>8. Lowest(frames', frames) /\ Len(frames') = Len(frames)
  BY <1>1, SentFrames
<1>9. TypeOK'
  BY <1>1, <1>7, <1>8 DEF Inv, TypeOK, Lowest
<1>10. Nested' /\ FramesOwnCheckpoints'
  BY <1>1, <1>7, <1>8, SameDepth
<1>11. \A i \in 1 .. Len(frames') :
         /\ i \in 1 .. Len(frames)
         /\ frames'[i].tree = frames[i].tree /\ frames'[i].height = frames[i].height
         /\ frames'[i].expected = frames[i].expected
  BY <1>8 DEF Lowest
<1>12. \A a \in Contracts \ forgotten' : a \notin forgotten /\ expected.storage[a] = EmptyStorage
  BY <1>1
<1>13. StorageInv'
  <2>1. \A i \in 1 .. Len(blocks') : NothingInvented(blocks'[i].tree, blocks'[i].expected)
    BY <1>1 DEF Inv, StorageInv
  <2>2. leaked = 0 => \A i \in 1 .. Len(frames') :
          /\ NothingInvented(frames'[i].tree, frames'[i].expected)
          /\ Agrees(frames'[i].tree, frames'[i].expected, Contracts \ forgotten')
    BY <1>11, <1>12 DEF Inv, StorageInv, Agrees
  <2>3. leaked = 0 => NothingInvented(manager'.tree, expected')
    BY <1>1, <1>7 DEF Inv, StorageInv
  <2>4. leaked = 0 => Agrees(manager'.tree, expected', Contracts \ forgotten')
    BY <1>1, <1>7, <1>12 DEF Inv, StorageInv, Agrees
  <2>. QED
    BY <1>1, <1>7, <1>12, <2>1, <2>2, <2>3, <2>4 DEF StorageInv, NothingInvented, Agrees
<1>14. RelayInv' /\ FirstInv'
  BY <1>1, <1>7, <1>11 DEF Inv, RelayInv, FirstInv
<1>15. ExitsAreKept'
  BY <1>1, BlocksKept
<1>. QED
  BY <1>9, <1>10, <1>13, <1>14, <1>15 DEF Inv

\* A VM that has lost a checkpoint promises nothing of its storage.
LEMMA LeakedInv ==
  ASSUME Inv, leaked' = leaked + 1, UNCHANGED blocks,
         \A a \in Contracts : ~manager'.tries[a].known
  PROVE  StorageInv' /\ FirstInv' /\ ExitsAreKept'
<1>1. leaked' # 0
  BY OwnSaved
<1>2. StorageInv'
  BY <1>1 DEF Inv, StorageInv
<1>3. FirstInv'
  BY <1>1 DEF FirstInv
<1>. QED
  BY <1>2, <1>3, BlocksKept

\* The checkpoint of a precompile is reverted in place of another one.
LEMMA PrecompileReverted ==
  ASSUME Inv
  PROVE  LET m == revert(checkpoint(manager))
         IN  /\ m \in Managers /\ m.relay = manager.relay /\ m.saved = manager.saved
             /\ m.tree = manager.tree
             /\ \A a \in Contracts : ~m.tries[a].known
<1>. DEFINE none == [a \in Contracts |-> NoTrie]
<1>1. manager \in Managers
  BY DEF Inv, TypeOK
<1>2. none \in Tries /\ \A a \in Contracts : ~none[a].known
  BY DEF NoTrie, EmptyStorage, Tries, Storages
<1>3. revert(checkpoint(manager)) = [manager EXCEPT !.tries = none]
  BY <1>1, CheckpointRevert
<1>. HIDE DEF none
<1>4. [manager EXCEPT !.tries = none] \in Managers
  BY <1>1, <1>2 DEF Managers
<1>. QED
  BY <1>1, <1>2, <1>3, <1>4 DEF Managers

\* The caller of a precompile fails in its place, and one checkpoint is left.
LEMMA CallPrecompileInv ==
  ASSUME Inv, CallPrecompile
  PROVE  Inv'
<1>1. /\ frames \in Seq(Frames) /\ frames # <<>> /\ Len(frames) \in Nat
      /\ Top \in Frames
      /\ manager' = revert(checkpoint(manager)) /\ frames' = Front(frames)
      /\ Top = frames[Len(frames)] /\ Len(frames) > 2
      /\ Undo(Top) /\ leaked' = leaked + 1
      /\ UNCHANGED blocks
  BY Where DEF CallPrecompile
<1>2. /\ manager' \in Managers /\ manager'.relay = manager.relay
      /\ manager'.saved = manager.saved /\ \A a \in Contracts : ~manager'.tries[a].known
  BY <1>1, PrecompileReverted
<1>3. Lowest(frames', frames) /\ Len(frames') = Len(frames) - 1
  BY <1>1, FrontFrames
<1>4. TypeOK'
  BY <1>1, <1>2, <1>3, UndoTypes DEF Inv, TypeOK, Lowest
<1>5. Nested'
  BY <1>3, LowestNest
<1>6. FramesOwnCheckpoints'
  <2>1. Len(manager.saved) = Len(frames) + leaked /\ leaked \in Nat
    BY OwnSaved
  <2>2. Len(manager'.saved) = Len(frames') + leaked'
    BY <1>1, <1>2, <1>3, <2>1
  <2>3. ASSUME NEW i \in 1 .. Len(frames')
        PROVE  \E n \in i .. i + leaked' : manager'.saved[n] = frames'[i].tree
    <3>1. i \in 1 .. Len(frames) /\ frames'[i].tree = frames[i].tree
      BY <1>1, <1>3 DEF Lowest
    <3>2. PICK n \in i .. i + leaked : manager.saved[n] = frames[i].tree
      BY <3>1 DEF Inv, FramesOwnCheckpoints
    <3>3. n \in i .. i + leaked'
      BY <1>1, <2>1, <3>1
    <3>. QED
      BY <1>2, <3>1, <3>2, <3>3
  <2>. QED
    BY <2>2, <2>3 DEF FramesOwnCheckpoints
<1>7. RelayInv'
  <2>1. Len(frames) \in 1 .. Len(frames)
    BY <1>1
  <2>. QED
    BY <1>1, <1>2, <1>3, <2>1, RelayUndone
<1>. QED
  BY <1>1, <1>2, <1>4, <1>5, <1>6, <1>7, LeakedInv DEF Inv

\* A transaction to a precompile throws, and one checkpoint is left.
LEMMA SendToPrecompileInv ==
  ASSUME Inv, SendToPrecompile
  PROVE  Inv'
<1>. DEFINE m == revert(checkpoint(manager))
<1>1. /\ frames \in Seq(Frames) /\ Len(frames) = 2 /\ frames[1] \in Frames
      /\ manager' = revert(m) /\ frames' = <<>>
      /\ Undo(frames[1]) /\ leaked' = leaked + 1
      /\ UNCHANGED blocks
  <2>1. frames \in Seq(Frames) /\ Len(frames) = 2
    BY Where DEF SendToPrecompile
  <2>. QED
    BY <2>1 DEF SendToPrecompile
<1>2. m \in Managers /\ m.relay = manager.relay /\ m.saved = manager.saved
  BY PrecompileReverted
<1>. HIDE DEF m
<1>3. /\ Len(manager.saved) \in Nat /\ leaked \in Nat
      /\ Len(manager.saved) = 2 + leaked /\ m.saved # <<>>
  BY <1>1, <1>2, OwnSaved
<1>4. /\ manager' \in Managers /\ manager'.relay = manager.relay
      /\ Len(manager'.saved) = Len(manager.saved) - 1
      /\ \A a \in Contracts : ~manager'.tries[a].known
  BY <1>1, <1>2, <1>3, Revert
<1>5. Lowest(frames', frames) /\ Len(frames') = 0
  BY <1>1, NoFrames
<1>6. TypeOK'
  BY <1>1, <1>4, <1>5, UndoTypes DEF Inv, TypeOK, Lowest
<1>7. Nested'
  BY <1>5, LowestNest
<1>8. FramesOwnCheckpoints'
  <2>1. Len(manager'.saved) = Len(frames') + leaked'
    BY <1>1, <1>2, <1>3, <1>4, <1>5
  <2>. QED
    BY <1>5, <2>1 DEF FramesOwnCheckpoints
<1>9. RelayInv'
  <2>1. 1 \in 1 .. Len(frames)
    BY <1>1
  <2>. QED
    BY <1>1, <1>4, <1>5, <2>1, RelayUndone
<1>. QED
  BY <1>1, <1>4, <1>6, <1>7, <1>8, <1>9, LeakedInv DEF Inv

\* A block ends: its checkpoint is committed, and the relay is cached or not.
LEMMA BlockCommitted ==
  ASSUME Inv, Inside({"block"})
  PROVE  LET m == commit(manager)
             with == getChildRelay(m, Height)
         IN  /\ frames \in Seq(Frames) /\ Len(frames) = 1
             /\ Height \in Heights /\ Height = frames[1].height
             /\ CanGetStateRoot(m) <=> leaked = 0
             /\ m \in Managers /\ m.tree = manager.tree /\ m.tries = manager.tries
             /\ m.relay = manager.relay /\ Len(m.saved) = Len(manager.saved) - 1
             /\ \A i \in 1 .. Len(m.saved) : m.saved[i] = manager.saved[i]
             /\ with \in Managers /\ with.tree = manager.tree /\ with.tries = manager.tries
             /\ with.saved = m.saved /\ with.relay.cached
             /\ with.relay.exits = manager.relay.exits /\ with.relay.height \in Heights
             /\ with.relay.height =
                  IF manager.relay.cached THEN manager.relay.height ELSE Height
<1>. DEFINE m == commit(manager)
<1>1. frames \in Seq(Frames) /\ Len(frames) = 1 /\ Height \in Heights /\ Height = frames[1].height
  BY Where DEF Height
<1>2. /\ manager \in Managers
      /\ manager.relay.cached => manager.relay.height \in Heights
      /\ ~manager.relay.cached => manager.relay = NoRelay
  BY DEF Inv, TypeOK, RelayInv
<1>3. /\ Len(manager.saved) \in Nat /\ leaked \in Nat /\ manager.saved \in Seq(Trees)
      /\ Len(manager.saved) = 1 + leaked /\ manager.saved # <<>>
  BY <1>1, OwnSaved
<1>4. /\ m \in Managers /\ m.tree = manager.tree /\ m.tries = manager.tries
      /\ m.relay = manager.relay /\ Len(m.saved) = Len(manager.saved) - 1
      /\ \A i \in 1 .. Len(manager.saved) - 1 : m.saved[i] = manager.saved[i]
  BY <1>2, <1>3, Commit
<1>. HIDE DEF m
<1>5. m.saved = <<>> <=> leaked = 0
  <2>1. m.saved \in Seq(Trees) /\ Len(m.saved) = leaked
    BY <1>3, <1>4 DEF Managers
  <2>. QED
    BY <2>1
<1>6. /\ getChildRelay(m, Height) \in Managers
      /\ getChildRelay(m, Height).tree = m.tree /\ getChildRelay(m, Height).tries = m.tries
      /\ getChildRelay(m, Height).saved = m.saved
      /\ getChildRelay(m, Height).relay.cached
      /\ getChildRelay(m, Height).relay.exits = m.relay.exits
      /\ getChildRelay(m, Height).relay.height \in Heights
      /\ getChildRelay(m, Height).relay.height = IF m.relay.cached THEN m.relay.height ELSE Height
  BY <1>1, <1>2, <1>4, Relay
<1>. QED
  BY <1>1, <1>4, <1>5, <1>6 DEF m, CanGetStateRoot

\* Its frame ends with its checkpoint, and the state and the exits stay.
LEMMA BlockEnded ==
  ASSUME Inv, Inside({"block"}), frames' = <<>>,
         \/ manager' = commit(manager) /\ leaked # 0
         \/ manager' = getChildRelay(commit(manager), Height),
         UNCHANGED <<expected, forgotten, stale, leaked>>,
         \A i \in 1 .. Len(blocks') : NothingInvented(blocks'[i].tree, blocks'[i].expected),
         blocks' = <<>> => blocks = <<>>
  PROVE  /\ manager' \in Managers /\ (manager'.relay.cached => manager'.relay.height \in Heights)
         /\ Nested' /\ FramesOwnCheckpoints' /\ StorageInv' /\ RelayInv' /\ FirstInv'
<1>. DEFINE m == commit(manager)
            with == getChildRelay(m, Height)
<1>1. /\ Len(frames) = 1 /\ Height = frames[1].height
      /\ m \in Managers /\ m.tree = manager.tree /\ m.tries = manager.tries
      /\ m.relay = manager.relay /\ Len(m.saved) = Len(manager.saved) - 1
      /\ \A i \in 1 .. Len(m.saved) : m.saved[i] = manager.saved[i]
      /\ with \in Managers /\ with.tree = manager.tree /\ with.tries = manager.tries
      /\ with.saved = m.saved /\ with.relay.cached
      /\ with.relay.exits = manager.relay.exits /\ with.relay.height \in Heights
      /\ with.relay.height = IF manager.relay.cached THEN manager.relay.height ELSE Height
  BY BlockCommitted
<1>. HIDE DEF m, with
<1>2. (manager' = m /\ leaked # 0) \/ manager' = with
  BY DEF m, with
<1>3. /\ manager' \in Managers /\ manager'.tree = manager.tree
      /\ manager'.tries = manager.tries /\ manager'.saved = m.saved
      /\ manager'.relay.exits = manager.relay.exits
      /\ manager'.relay.cached => manager'.relay.height \in Heights
      /\ ~manager'.relay.cached => manager'.relay = NoRelay
  BY <1>1, <1>2 DEF Inv, TypeOK, RelayInv
<1>4. Lowest(frames', frames) /\ Len(frames') = 0
  BY NoFrames
<1>5. Nested'
  BY <1>4, LowestNest
<1>6. FramesOwnCheckpoints'
  <2>1. Len(manager.saved) \in Nat
    BY OwnSaved
  <2>2. Len(manager.saved) - Len(manager'.saved) = Len(frames) - Len(frames')
    BY <1>1, <1>3, <1>4, <2>1
  <2>. QED
    BY <1>1, <1>3, <1>4, <2>2, LowestSaved
<1>7. StorageInv'
  BY <1>3, <1>4, LowestStorage
<1>8. RelayInv'
  BY <1>3, <1>4 DEF Inv, RelayInv
<1>9. FirstInv'
  <2>1. SUFFICES ASSUME blocks = <<>>, ~stale, leaked = 0
                 PROVE  FirstInv'
    BY DEF FirstInv
  <2>2. /\ manager.relay.cached => manager.relay.height = 1
        /\ 1 \in Heights => manager.tree.exits[1] = expected.exits
        /\ \A i \in 1 .. Len(frames) : frames[i].height = 1
    BY <2>1 DEF Inv, FirstInv
  <2>3. Height = 1
    BY <1>1, <2>2
  <2>4. manager'.relay.height = 1
    BY <1>1, <1>2, <2>1, <2>2, <2>3
  <2>. QED
    BY <1>3, <1>4, <2>2, <2>4 DEF FirstInv
<1>. QED
  BY <1>3, <1>5, <1>6, <1>7, <1>8, <1>9

\* A block is completed: all checkpoints are committed.
LEMMA EndBlockInv ==
  ASSUME Inv, EndBlock
  PROVE  Inv'
<1>. DEFINE h == Height
            done == [height |-> h, tree |-> manager.tree, stale |-> stale,
                     exitsRoot |-> getExitsRoot(manager, h), expected |-> expected]
<1>1. /\ Inside({"block"}) /\ CanGetStateRoot(commit(manager)) /\ frames' = <<>>
      /\ manager' = getChildRelay(commit(manager), h) /\ blocks' = Append(blocks, done)
      /\ UNCHANGED <<expected, forgotten, stale, leaked>>
  BY DEF EndBlock
<1>2. leaked = 0 /\ h \in Heights /\ Len(frames) = 1 /\ h = frames[1].height
  BY <1>1, BlockCommitted
<1>3. /\ manager \in Managers /\ manager.relay \in Relays /\ manager.tree \in Trees
      /\ blocks \in Seq(Blocks) /\ expected \in Expectations /\ stale \in BOOLEAN
      /\ manager.relay.cached => manager.relay.height \in Heights
      /\ ~manager.relay.cached => manager.relay = NoRelay
  BY DEF Inv, TypeOK, Managers, RelayInv
<1>4. /\ done \in Blocks /\ done.tree = manager.tree /\ done.expected = expected
      /\ done.exitsRoot = manager.relay.exits /\ done.height = h /\ done.stale = stale
  <2>1. getExitsRoot(manager, h) = manager.relay.exits /\ manager.relay.exits \in Seq(Callers)
    BY <1>2, <1>3, Relay DEF getExitsRoot, Relays
  <2>. QED
    BY <1>2, <1>3, <2>1 DEF Blocks
<1>. HIDE DEF done, h
<1>5. /\ blocks' \in Seq(Blocks) /\ Len(blocks') = Len(blocks) + 1 /\ Len(blocks) \in Nat
      /\ blocks'[Len(blocks) + 1] = done
      /\ \A i \in 1 .. Len(blocks) : blocks'[i] = blocks[i]
      /\ blocks' # <<>>
  BY <1>1, <1>3, <1>4
<1>6. \A i \in 1 .. Len(blocks') :
        \/ i \in 1 .. Len(blocks) /\ blocks'[i] = blocks[i]
        \/ i = Len(blocks) + 1 /\ blocks'[i] = done
  BY <1>5
<1>7. \A i \in 1 .. Len(blocks') : NothingInvented(blocks'[i].tree, blocks'[i].expected)
  <2>1. NothingInvented(done.tree, done.expected)
    BY <1>2, <1>4 DEF Inv, StorageInv
  <2>. QED
    BY <1>6, <2>1 DEF Inv, StorageInv
<1>8. /\ manager' \in Managers /\ (manager'.relay.cached => manager'.relay.height \in Heights)
      /\ Nested' /\ FramesOwnCheckpoints' /\ StorageInv' /\ RelayInv' /\ FirstInv'
  BY <1>1, <1>5, <1>7, BlockEnded DEF h
<1>9. TypeOK'
  <2>1. frames' \in Seq(Frames)
    BY <1>1
  <2>. QED
    BY <1>1, <1>5, <1>8, <2>1 DEF Inv, TypeOK
<1>10. ExitsAreKept'
  <2>1. /\ Within(done.expected.exits, done.exitsRoot)
        /\ ~done.stale => done.exitsRoot = done.expected.exits
    BY <1>4 DEF Inv, RelayInv
  <2>2. ASSUME ~done.stale, Len(blocks) + 1 = 1
        PROVE  done.tree.exits[done.height] = done.expected.exits
    <3>1. blocks = <<>> /\ ~stale
      BY <1>3, <1>4, <1>5, <2>2
    <3>2. h = 1 /\ manager.tree.exits[1] = expected.exits
      BY <1>2, <3>1 DEF Inv, FirstInv
    <3>. QED
      BY <1>4, <3>2
  <2>. QED
    BY <1>6, <2>1, <2>2 DEF Inv, ExitsAreKept
<1>. QED
  BY <1>8, <1>9, <1>10 DEF Inv

\* A block is rejected: nothing is undone.
LEMMA RejectBlockInv ==
  ASSUME Inv, RejectBlock
  PROVE  Inv'
<1>1. /\ Inside({"block"}) /\ frames' = <<>>
      /\ manager' = IF CanGetStateRoot(commit(manager))
                    THEN getChildRelay(commit(manager), Height) ELSE commit(manager)
      /\ UNCHANGED <<expected, blocks, forgotten, stale, leaked>>
  BY DEF RejectBlock, bookkeeping
<1>2. CanGetStateRoot(commit(manager)) <=> leaked = 0
  BY <1>1, BlockCommitted
<1>3. \/ manager' = commit(manager) /\ leaked # 0
      \/ manager' = getChildRelay(commit(manager), Height)
  BY <1>1, <1>2
<1>4. \A i \in 1 .. Len(blocks') : NothingInvented(blocks'[i].tree, blocks'[i].expected)
  BY <1>1 DEF Inv, StorageInv
<1>5. /\ manager' \in Managers /\ (manager'.relay.cached => manager'.relay.height \in Heights)
      /\ Nested' /\ FramesOwnCheckpoints' /\ StorageInv' /\ RelayInv' /\ FirstInv'
  BY <1>1, <1>3, <1>4, BlockEnded
<1>6. TypeOK'
  <2>1. frames' \in Seq(Frames)
    BY <1>1
  <2>. QED
    BY <1>1, <1>5, <2>1 DEF Inv, TypeOK
<1>7. ExitsAreKept'
  BY <1>1, BlocksKept
<1>. QED
  BY <1>5, <1>6, <1>7 DEF Inv

\* Nothing that happens breaks the invariant.
LEMMA NextInv == Inv /\ [Next]_vars => Inv'
<1>. SUFFICES ASSUME Inv, [Next]_vars PROVE Inv'
  OBVIOUS
<1>1. CASE Next
  BY <1>1, StartBlockInv, StartBlockAtInv, StartTxInv, ThrowTxInv, StartMessageInv,
     ExecuteCreateInv, SstoreInv, ExecuteExitCallInv, FailExitCallInv, ReturnInv, FailInv,
     CallPrecompileInv, SendToPrecompileInv, EndTxInv, EndBlockInv, RejectBlockInv DEF Next
<1>2. CASE UNCHANGED vars
  <2>1. UNCHANGED <<manager, frames, expected, blocks, forgotten, stale, leaked>>
    BY <1>2 DEF vars, bookkeeping
  <2>2. TypeOK' /\ Nested'
    BY <2>1 DEF Inv, TypeOK, Nested
  <2>3. FramesOwnCheckpoints' /\ ExitsAreKept'
    BY <2>1 DEF Inv, FramesOwnCheckpoints, ExitsAreKept
  <2>4. StorageInv'
    BY <2>1 DEF Inv, StorageInv, NothingInvented, Agrees
  <2>5. RelayInv' /\ FirstInv'
    BY <2>1 DEF Inv, RelayInv, FirstInv
  <2>. QED
    BY <2>2, <2>3, <2>4, <2>5 DEF Inv
<1>. QED
  BY <1>1, <1>2

\* The invariant holds in all states that a VM reaches.
LEMMA Invariant == Spec => []Inv
BY InitInv, NextInv, PTL DEF Spec

-----------------------------------------------------------------------------
(* What is promised. *)

\* The manager, the frames, what is expected and the blocks are of their
\* types, whatever is begun, committed and reverted.
THEOREM Types == Spec => []TypeOK
<1>1. Inv => TypeOK
  BY DEF Inv
<1>. QED
  BY <1>1, Invariant, PTL

\* Each block, transaction and message in progress has a checkpoint with the
\* state in which it began, its own or one of those that precompiles left
\* behind above it, and but for these no other checkpoint is open.
THEOREM Checkpoints == Spec => []FramesOwnCheckpoints
<1>1. Inv => FramesOwnCheckpoints
  BY DEF Inv
<1>. QED
  BY <1>1, Invariant, PTL

\* A cached trie has the root in its account; and until a precompile leaves a
\* checkpoint behind, a contract reads in a slot what was stored and not
\* undone, or nothing when a trie of its storage was dropped.
THEOREM Storage == Spec => []StorageIsKept
<1>1. Inv => StorageIsKept
  <2>. SUFFICES ASSUME Inv PROVE StorageIsKept
    OBVIOUS
  <2>1. manager \in Managers
    BY DEF Inv, TypeOK
  <2>2. ASSUME leaked = 0, NEW a \in Contracts \ forgotten
        PROVE  /\ manager.tree.storage[a] = expected.storage[a]
               /\ getStorageTrie(manager, a) = expected.storage[a]
    <3>1. /\ manager.tree.storage[a] = expected.storage[a]
          /\ manager.tries[a].known \/ expected.storage[a] = EmptyStorage
          /\ manager.tries[a].known => manager.tries[a].root = manager.tree.storage[a]
      BY <2>2 DEF Inv, StorageInv, Agrees
    <3>. QED
      BY <2>1, <3>1, Opened
  <2>3. ASSUME leaked = 0, NEW a \in Contracts, NEW k \in Slots
        PROVE  /\ manager.tree.storage[a][k] \in {Null, expected.storage[a][k]}
               /\ getStorageTrie(manager, a)[k] \in {Null, expected.storage[a][k]}
    <3>1. manager.tree.storage[a][k] \in {Null, expected.storage[a][k]}
      BY <2>3 DEF Inv, StorageInv, NothingInvented
    <3>2. getStorageTrie(manager, a) \in {EmptyStorage, manager.tree.storage[a]}
      BY <2>1, Opened DEF Inv, StorageInv
    <3>3. EmptyStorage[k] = Null
      BY DEF EmptyStorage
    <3>. QED
      BY <3>1, <3>2, <3>3
  <2>4. \A a \in Contracts :
          manager.tries[a].known => manager.tries[a].root = manager.tree.storage[a]
    BY DEF Inv, StorageInv
  <2>5. ASSUME leaked = 0, NEW a \in Contracts, NEW k \in Slots
        PROVE  LET dropped == IF a \in forgotten THEN {Null} ELSE {}
                   kept == dropped \union {expected.storage[a][k]}
               IN  manager.tree.storage[a][k] \in kept /\ getContractStorage(manager, a, k) \in kept
    <3>1. CASE a \in forgotten
      BY <2>3, <2>5, <3>1 DEF getContractStorage
    <3>2. CASE a \notin forgotten
      BY <2>2, <2>5, <3>2 DEF getContractStorage
    <3>. QED
      BY <3>1, <3>2
  <2>. QED
    BY <2>4, <2>5 DEF StorageIsKept
<1>. QED
  BY <1>1, Invariant, PTL

\* Every completed block has in its header the exits that were made in it and
\* not undone, in their order, and no others unless some were made before it
\* or undone in it; then the first block has them in its state, too.
THEOREM Exits == Spec => []ExitsAreKept
<1>1. Inv => ExitsAreKept
  BY DEF Inv
<1>. QED
  BY <1>1, Invariant, PTL

-----------------------------------------------------------------------------
(* Blocks that end. *)

\* Of a block that ends all effects stay or none: none when a transaction of
\* it throws, all when it is completed or rejected for its roots.  This holds
\* until a precompile leaves a checkpoint behind, and no block is completed
\* from then on.
THEOREM Ended == Spec => AllOrNothing
<1>. DEFINE Whole == /\ blocks' # blocks => leaked = 0
                     /\ leaked' = 0 =>
                          manager'.tree = IF Top.kind = "block" THEN manager.tree
                                                               ELSE frames[1].tree
            Step == frames # <<>> /\ frames' = <<>> => Whole
<1>1. Inv /\ [Next]_vars => [Step]_vars
  <2>. SUFFICES ASSUME Inv, Next, frames # <<>>, frames' = <<>>
                PROVE  Whole
    OBVIOUS
  <2>1. frames \in Seq(Frames) /\ leaked \in Nat
    BY DEF Inv, TypeOK
  <2>2. ASSUME ThrowTx
        PROVE  Whole
    <3>1. /\ Len(frames) = 2 /\ manager' = revert(revert(manager))
          /\ blocks' = blocks /\ leaked' = leaked /\ Top.kind = "tx"
      BY <2>2, Where DEF ThrowTx, Inside
    <3>2. leaked = 0 => revert(revert(manager)).tree = frames[1].tree
      BY <3>1, RevertTwice
    <3>. QED
      BY <3>1, <3>2
  <2>3. ASSUME EndBlock \/ RejectBlock
        PROVE  Whole
    <3>1. Inside({"block"}) /\ Top.kind = "block" /\ leaked' = leaked
      BY <2>3 DEF EndBlock, RejectBlock, Inside, bookkeeping
    <3>2. /\ CanGetStateRoot(commit(manager)) <=> leaked = 0
          /\ commit(manager).tree = manager.tree
          /\ getChildRelay(commit(manager), Height).tree = manager.tree
      BY <3>1, BlockCommitted
    <3>3. manager'.tree = manager.tree
      BY <2>3, <3>2 DEF EndBlock, RejectBlock
    <3>4. blocks' # blocks => leaked = 0
      BY <2>3, <3>2 DEF EndBlock, RejectBlock, bookkeeping
    <3>. QED
      BY <3>1, <3>3, <3>4
  <2>4. ASSUME SendToPrecompile \/ CallPrecompile
        PROVE  Whole
    <3>1. blocks' = blocks /\ leaked' = leaked + 1
      BY <2>4 DEF SendToPrecompile, CallPrecompile
    <3>. QED
      BY <2>1, <3>1
  <2>5. ASSUME Return \/ Fail \/ EndTx
        PROVE  FALSE
    <3>1. Len(frames) \in Nat /\ Len(frames) > 1
      <4>1. Return \/ Fail => Len(frames) \in Nat /\ Len(frames) > 2
        BY Where DEF Return, Fail
      <4>2. EndTx => Len(frames) = 2
        BY Where DEF EndTx
      <4>. QED
        BY <2>5, <4>1, <4>2
    <3>2. frames' = Front(frames)
      BY <2>5 DEF Return, Fail, EndTx
    <3>3. Len(frames') = Len(frames) - 1
      BY <2>1, <3>2, FrontFrames
    <3>4. Len(frames') = 0
      OBVIOUS
    <3>. DEFINE n == Len(frames)
    <3>5. n \in Nat /\ n > 1 /\ n - 1 = 0
      BY <3>1, <3>3, <3>4
    <3>. HIDE DEF n
    <3>. QED
      BY <3>5
  <2>6. ASSUME NEW n \in Heights, StartBlock(n)
        PROVE  FALSE
    BY <2>6 DEF StartBlock
  <2>7. ASSUME NEW b, StartBlockAt(b)
        PROVE  FALSE
    BY <2>7 DEF StartBlockAt
  <2>8. ASSUME StartTx
        PROVE  FALSE
    <3>1. Frame("tx", Null, Height, manager) \in Frames
      BY <2>8, Where, NewFrame DEF StartTx
    <3>2. frames' = Append(frames, Frame("tx", Null, Height, manager))
      BY <2>8 DEF StartTx
    <3>. QED
      BY <2>1, <3>1, <3>2
  <2>9. ASSUME NEW a \in Contracts, StartMessage(a)
        PROVE  FALSE
    <3>1. Frame("message", a, Height, manager) \in Frames
      BY <2>9, Senders, NewFrame DEF StartMessage
    <3>2. Sent(frames) \in Seq(Frames)
      BY <2>1, SentFrames DEF Lowest
    <3>3. frames' = Append(Sent(frames), Frame("message", a, Height, manager))
      BY <2>9 DEF StartMessage
    <3>. QED
      BY <3>1, <3>2, <3>3
  <2>10. ASSUME \/ \E a \in Contracts : executeCreate(a)
                \/ \E e \in Callers : executeExitCall(e)
                \/ FailExitCall
         PROVE  FALSE
    <3>1. frames' = Sent(frames)
      BY <2>10 DEF executeCreate, executeExitCall, FailExitCall
    <3>2. Len(Sent(frames)) = Len(frames) /\ Sent(frames) \in Seq(Frames)
      BY <2>1, SentFrames DEF Lowest
    <3>. QED
      BY <2>1, <3>1, <3>2
  <2>11. ASSUME NEW k \in Slots, NEW v \in Values \union {Null}, Sstore(k, v)
         PROVE  FALSE
    BY <2>11 DEF Sstore
  <2>. QED
    BY <2>2, <2>3, <2>4, <2>5, <2>6, <2>7, <2>8, <2>9, <2>10, <2>11 DEF Next
<1>. QED
  BY <1>1, Invariant, PTL DEF Spec, AllOrNothing
=============================================================================

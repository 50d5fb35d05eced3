----------------------------- MODULE MerkleTrees -----------------------------
(***************************************************************************)
(* Merkle trees as the contracts verify them (SparseMerkleTree.sol,        *)
(* MerkleProofLib.sol and MerkleTreeLib.sol of common/rollup) and as the   *)
(* node builds them for the transactions of a block (utils/merkle.ts).     *)
(*                                                                         *)
(* A hash stands for what was hashed: <<v>> is that of a leaf with value   *)
(* v, <<l, r>> that of a node over the hashes l and r.  No two of them are *)
(* equal otherwise.  Null is the value of 32 zero bytes, Words are the     *)
(* other values of 32 bytes, and Wide is one of 64 bytes which is not the  *)
(* concatenation of two hashes.  NoBytes is a value of no bytes with a     *)
(* word of zeroes behind it in the memory, where the contract looks.       *)
(*                                                                         *)
(* A definition under a comment line that begins with \* is a mistaken     *)
(* form of the one after it, which no specification uses.                  *)
(***************************************************************************)
EXTENDS Integers, FiniteSets, SequencesExt

CONSTANTS
    Height,   \* of the sparse tree, its root included
    Values, Words, Null, Wide, NoBytes,
    Pad       \* the node that fills up a level, 32 zero bytes

ASSUME HeightAssumption == Height \in Nat /\ Height >= 2
ASSUME ValueAssumption ==
    /\ Words \subseteq Values /\ Wide \in Values \ Words
    /\ Null \notin Values /\ NoBytes \notin Values \union {Null}

Leaf(v) == <<v>>
Node(l, r) == <<l, r>>

getNthBitFromRight(n, i) == (n \div 2^i) % 2

Parent(node, sibling, path, i) ==
    IF getNthBitFromRight(path, i) = 0 THEN Node(node, sibling) ELSE Node(sibling, node)

(* The root over a leaf, with the siblings from the leaf upwards.  No bit  *)
(* of the path above the last sibling is looked at.                        *)
ComputedRoot(leaf, path, siblings) ==
    LET up[i \in 0..Len(siblings)] ==
            IF i = 0 THEN Leaf(leaf) ELSE Parent(up[i - 1], siblings[i], path, i - 1)
    IN up[Len(siblings)]

verify(root, leaf, path, siblings) ==
    leaf # NoBytes /\ ComputedRoot(leaf, path, siblings) = root

(* A value of 32 bytes could be a node; one of no bytes is taken.          *)
verifyAndUpdate(root, old, new, path, siblings) ==
    IF old \in Words THEN [valid |-> FALSE, root |-> root]
    ELSE [valid |-> ComputedRoot(old, path, siblings) = root,
          root |-> ComputedRoot(new, path, siblings)]

-----------------------------------------------------------------------------
(* Sparse proofs: bit i + 1 of the inclusion bits says that the sibling at *)
(* level i is given, and otherwise it is the root of an empty subtree.     *)
DefaultHashes[i \in 0..Height - 1] ==
    IF i = 0 THEN Leaf(Null) ELSE Node(DefaultHashes[i - 1], DefaultHashes[i - 1])

\* The bits are counted from zero.
SiblingsOffByOne(bits, siblings) ==
    [i \in 1..Height - 1 |->
        LET given == {j \in 0..i - 1 : getNthBitFromRight(bits, j) = 1}
        IN IF getNthBitFromRight(bits, i - 1) = 0 THEN DefaultHashes[i - 1]
           ELSE IF Cardinality(given) <= Len(siblings) THEN siblings[Cardinality(given)]
           ELSE <<>>]

(* What lies behind the siblings in the memory is the hash of nothing.     *)
AllSiblings(bits, siblings) ==
    [i \in 1..Height - 1 |->
        LET given == {j \in 1..i : getNthBitFromRight(bits, j) = 1}
        IN IF getNthBitFromRight(bits, i) = 0 THEN DefaultHashes[i - 1]
           ELSE IF Cardinality(given) <= Len(siblings) THEN siblings[Cardinality(given)]
           ELSE <<>>]

verifySparse(root, bits, leaf, path, siblings) ==
    ComputedRoot(leaf, path, AllSiblings(bits, siblings)) = root

verifyAndUpdateSparse(root, bits, old, new, path, siblings) ==
    [valid |-> verifySparse(root, bits, old, path, siblings),
     root |-> ComputedRoot(new, path, AllSiblings(bits, siblings))]

-----------------------------------------------------------------------------
(* Trees over a list, level by level.  A level with an odd number of nodes *)
(* gets one more, unless it is the root.                                   *)
Even(nodes, pad) == IF Len(nodes) % 2 = 1 /\ Len(nodes) # 1 THEN Append(nodes, pad) ELSE nodes
NextLevel(nodes) == [i \in 1..Len(nodes) \div 2 |-> Node(nodes[2 * i - 1], nodes[2 * i])]

Levels(list, pad(_)) ==
    LET level[n \in 0..Len(list)] ==
            IF n = 0 THEN Even([i \in 1..Len(list) |-> Leaf(list[i])], pad(0))
            ELSE Even(NextLevel(level[n - 1]), pad(n))
        top == CHOOSE n \in 0..Len(list) : Len(level[n]) = 1
    IN [n \in 1..top + 1 |-> level[n - 1]]

ZeroPad(n) == Pad
DefaultPad(n) == DefaultHashes[n]

getMerkleRoot(list) ==
    IF list = <<>> THEN Pad ELSE Last(Levels(list, ZeroPad))[1]
getSparseListRoot(list) == Last(Levels(list, DefaultPad))[1]

\* The right neighbour, always.
RightSiblings(list, index) ==
    LET levels == Levels(list, ZeroPad)
    IN [n \in 1..Len(levels) - 1 |-> levels[n][((index \div 2^(n - 1)) \div 2) * 2 + 2]]

(* The neighbours of the nodes above the leaf, which is counted from zero. *)
getMerkleProof(list, index) ==
    LET levels == Levels(list, ZeroPad)
    IN [n \in 1..Len(levels) - 1 |->
           LET next == index \div 2^(n - 1)
           IN IF next % 2 = 1 THEN levels[n][next] ELSE levels[n][next + 2]]
=============================================================================

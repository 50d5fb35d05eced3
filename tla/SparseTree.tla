----------------------------- MODULE SparseTree -----------------------------
(***************************************************************************)
(* The sparse Merkle tree of packages/sparse-merkle-tree: base-tree.ts,    *)
(* with the checkpoints of checkpoint-tree.ts.                             *)
(*                                                                         *)
(* tree.root is the hash of the root and tree.db the hashes under which    *)
(* the database has a node; what a node contains is in its hash.           *)
(* tree.known says that the node of the root was found: the tree can have  *)
(* a root of which it has no node, and subtrees that it never saw.  The    *)
(* database with its checkpoints is a stack of snapshots                   *)
(* (CheckpointDBProofs).                                                   *)
(*                                                                         *)
(* contents is what the root should stand for.  Keys of Height bits or     *)
(* more are cut to Height - 1 bits by the code.                            *)
(***************************************************************************)
EXTENDS MerkleTrees, FiniteSetsExt

CONSTANTS
    Keys,
    Foreign,         \* contents of trees that were built elsewhere
    MaxNodes,        \* bound on the nodes in the database
    MaxCheckpoints   \* bound on the open checkpoints

ASSUME KeyAssumption == Keys \subseteq Nat

VARIABLES
    tree, saved,
    contents,
    history   \* the contents of which the database has all nodes

vars == <<tree, saved, contents, history>>

Positions == 0..2^(Height - 1) - 1
Position(key) == key % 2^(Height - 1)
AllValues == Values \union {Null}
Contents == [Positions -> AllValues]
Empty == [p \in Positions |-> Null]

(* The reference: the root of some contents.                               *)
RootOf(c) ==
    LET node[l \in 0..Height - 1, p \in Positions] ==
            IF l = 0 THEN Leaf(c[p]) ELSE Node(node[l - 1, 2 * p], node[l - 1, 2 * p + 1])
    IN node[Height - 1, 0]

-----------------------------------------------------------------------------
EMPTY_ROOT == DefaultHashes[Height - 1]
Result(ok, t) == [ok |-> ok, tree |-> t]

isLeft(key, depth) == ((key * 2^depth) \div 2^(Height - 2)) % 2 = 0
Child(node, key, depth) == IF isLeft(key, depth) THEN node[1] ELSE node[2]
ChildSibling(node, key, depth) == IF isLeft(key, depth) THEN node[2] ELSE node[1]

(* The nodes from the root to the leaf, and how many of them are there.    *)
Path(root, key) ==
    LET node[d \in 0..Height - 1] ==
            IF d = 0 THEN root ELSE Child(node[d - 1], key, d - 1)
    IN node
Found(t, key) ==
    IF ~t.known THEN 1
    ELSE CHOOSE n \in 1..Height :
           /\ \A d \in 1..n - 1 : Path(t.root, key)[d] \in t.db
           /\ n < Height => Path(t.root, key)[n] \notin t.db

(* Nothing is returned for a leaf that is empty and one that is not there. *)
getLeaf(t, key) ==
    IF Found(t, key) = Height THEN Path(t.root, key)[Height - 1][1] ELSE Null

\* The root is neither compared nor replaced.
StoreUnverified(t, key, value, siblings) ==
    LET up[d \in 0..Height - 1] ==
            IF d = 0 THEN Leaf(value)
            ELSE IF isLeft(key, Height - 1 - d) THEN Node(up[d - 1], siblings[d])
            ELSE Node(siblings[d], up[d - 1])
        absent == {d \in 1..Height - 1 : siblings[d] \notin t.db}
    IN IF Len(siblings) # Height - 1 THEN Result(FALSE, t)
       ELSE Result(TRUE, [t EXCEPT !.known = TRUE, !.db =
                @ \union {up[d] : d \in 0..Height - 1}
                  \union {DefaultHashes[d - 1] : d \in absent}])

(* A sibling that is not there is stored as an empty subtree, under the    *)
(* hash of that.  So the first path that is stored has an empty subtree of *)
(* every height, and later nothing that is missing is empty.  Nobody waits *)
(* for the writes, but a checkpoint and a bucket have them in their map    *)
(* when put returns, and so has a database in memory; a file written to    *)
(* without either could answer a read before them, which is left out.      *)
verifyAndStore(t, key, value, siblings) ==
    LET up[d \in 0..Height - 1] ==
            IF d = 0 THEN Leaf(value)
            ELSE IF isLeft(key, Height - 1 - d) THEN Node(up[d - 1], siblings[d])
            ELSE Node(siblings[d], up[d - 1])
        absent == {d \in 1..Height - 1 : siblings[d] \notin t.db}
    IN IF Len(siblings) # Height - 1 \/ up[Height - 1] # t.root THEN Result(FALSE, t)
       ELSE Result(TRUE, [t EXCEPT !.known = TRUE, !.db =
                @ \union {up[d] : d \in 0..Height - 1}
                  \union {DefaultHashes[d - 1] : d \in absent}])

(* Below the nodes that are there everything is taken to be empty, which   *)
(* the root confirms or not.                                               *)
verifyAndStorePartiallyEmptyPath(t, key) ==
    LET existing == IF t.known THEN Found(t, key) ELSE 0
    IN verifyAndStore(t, key, Null,
           [d \in 1..Height - 1 |->
               LET depth == Height - 1 - d
               IN IF depth < existing THEN ChildSibling(Path(t.root, key)[depth], key, depth)
                  ELSE DefaultHashes[d - 1]])

(* The last node that is found is replaced by the leaf, and those above it *)
(* by new ones.                                                            *)
Replace(t, key, value) ==
    LET n == Found(t, key)
        up[d \in 0..n - 1] ==
            IF d = 0 THEN Leaf(value)
            ELSE LET node == Path(t.root, key)[n - 1 - d]
                 IN IF isLeft(key, n - 1 - d) THEN Node(up[d - 1], node[2])
                    ELSE Node(node[1], up[d - 1])
    IN [t EXCEPT !.root = up[n - 1], !.db = @ \union {up[d] : d \in 0..n - 1}]

update(t, key, value) ==
    LET r == IF Found(t, key) = Height THEN Result(TRUE, t)
             ELSE verifyAndStorePartiallyEmptyPath(t, key)
    IN IF r.ok THEN Result(TRUE, Replace(r.tree, key, value)) ELSE Result(FALSE, t)

(* Each update has the old value with its proof.  It returns false for a   *)
(* proof that is wrong, and throws if an update fails after that: neither  *)
(* is ok.                                                                  *)
batchUpdate(t, updates) ==
    LET stored == FoldLeft(
            LAMBDA r, u : IF r.ok THEN verifyAndStore(r.tree, u.key, u.oldValue, u.siblings) ELSE r,
            Result(TRUE, t), updates)
    IN FoldLeft(LAMBDA r, u : IF r.ok THEN update(r.tree, u.key, u.newValue) ELSE r,
               stored, updates)

-----------------------------------------------------------------------------
(* Proofs.  A leaf of 64 bytes is taken for one more node, so that there   *)
(* is one sibling too many; if only the leaf is not there the code throws. *)
NoProof == [proved |-> "no", siblings |-> <<>>]
ProofFound(t, key, value) ==
    LET n == Found(t, key)
        node == Path(t.root, key)
    IN IF ~t.known \/ n < Height - 1 THEN NoProof
       ELSE IF n = Height - 1 THEN [proved |-> "throw", siblings |-> <<>>]
       ELSE IF node[Height - 1] = Leaf(Wide) \/ node[Height - 1] # Leaf(value) THEN NoProof
       ELSE [proved |-> "yes", siblings |->
                [d \in 1..Height - 1 |->
                    ChildSibling(node[Height - 1 - d], key, Height - 1 - d)]]

(* The path of an empty leaf is stored if it was not.                      *)
getProof(t, key, value) ==
    LET r == verifyAndStorePartiallyEmptyPath(t, key)
    IN IF ProofFound(t, key, value).proved # "no" \/ value # Null \/ ~r.ok
       THEN [proof |-> ProofFound(t, key, value), tree |-> t]
       ELSE [proof |-> ProofFound(r.tree, key, value), tree |-> r.tree]

(* The siblings that are not those of an empty tree, and their bits.       *)
Compressed(siblings) ==
    LET given == {d \in 1..Height - 1 : siblings[d] # DefaultHashes[d - 1]}
    IN [bits |-> SumSet({2^d : d \in given}) + 1,
        siblings |-> [n \in 1..Cardinality(given) |->
            siblings[CHOOSE d \in given : Cardinality({e \in given : e <= d}) = n]]]

(* What the wrapped tree asks for: the leaf as it is read.                 *)
getSparseMerkleProof(t, key) == getProof(t, key, getLeaf(t, key))

-----------------------------------------------------------------------------
Init ==
    /\ tree = [root |-> EMPTY_ROOT, known |-> TRUE, db |-> {}]
    /\ saved = <<>>
    /\ contents = Empty
    /\ history = {}

(* The database has every node of the tree.                                *)
Whole == contents \in history \union {Empty}

(* Bound: no more nodes are stored when there are MaxNodes.                *)
Stores(t) == tree' = t /\ (t.db = tree.db \/ Cardinality(tree.db) < MaxNodes)

Update(key, value) ==
    LET r == update(tree, key, value)
        c == [contents EXCEPT ![Position(key)] = value]
    IN /\ Stores(r.tree)
       /\ contents' = IF r.ok THEN c ELSE contents
       /\ history' = IF r.ok /\ Whole THEN history \union {c} ELSE history
       /\ UNCHANGED saved

Prove(key) ==
    /\ Stores(getSparseMerkleProof(tree, key).tree)
    /\ UNCHANGED <<saved, contents, history>>

(* The proof of a leaf in the tree it comes from.                          *)
ProofIn(c, key) ==
    LET node == Path(RootOf(c), key)
    IN [d \in 1..Height - 1 |-> ChildSibling(node[Height - 1 - d], key, Height - 1 - d)]

VerifyAndStore(c, key) ==
    /\ Stores(verifyAndStore(tree, key, c[Position(key)], ProofIn(c, key)).tree)
    /\ UNCHANGED <<saved, contents, history>>

AtRoot(t, c) ==
    [t EXCEPT !.root = RootOf(c), !.known = RootOf(c) \in t.db \union {EMPTY_ROOT}]

(* The root is set to one of this database, or to that of another tree.    *)
setRoot(c) ==
    /\ saved = <<>>
    /\ tree' = AtRoot(tree, c)
    /\ contents' = c
    /\ UNCHANGED <<saved, history>>

(* A new tree over the database.  If the root is not there it is empty.    *)
create(c) ==
    LET there == RootOf(c) \in tree.db
    IN /\ saved = <<>>
       /\ tree' = [tree EXCEPT !.root = IF there THEN RootOf(c) ELSE EMPTY_ROOT, !.known = TRUE]
       /\ contents' = IF there THEN c ELSE Empty
       /\ UNCHANGED <<saved, history>>

checkpoint ==
    /\ Len(saved) < MaxCheckpoints
    /\ saved' = Append(saved, [tree |-> tree, contents |-> contents, history |-> history])
    /\ UNCHANGED <<tree, contents, history>>

commit ==
    /\ saved # <<>>
    /\ saved' = Front(saved)
    /\ tree' = [tree EXCEPT !.db = IF tree.root = Last(saved).tree.root THEN @
                                   ELSE @ \union {tree.root}]
    /\ UNCHANGED <<contents, history>>

\* The root stays.
RevertDbOnly ==
    /\ saved # <<>>
    /\ saved' = Front(saved)
    /\ tree' = [tree EXCEPT !.db = Last(saved).tree.db]
    /\ contents' = Last(saved).contents
    /\ history' = Last(saved).history

revert ==
    /\ saved # <<>>
    /\ saved' = Front(saved)
    /\ tree' = Last(saved).tree
    /\ contents' = Last(saved).contents
    /\ history' = Last(saved).history

Next ==
    \/ \E key \in Keys, v \in AllValues : Update(key, v)
    \/ \E key \in Keys : Prove(key)
    \/ \E c \in Foreign \union history, key \in Keys : VerifyAndStore(c, key)
    \/ \E c \in Foreign \union history \union {Empty} : setRoot(c) \/ create(c)
    \/ checkpoint \/ commit \/ revert

Spec == Init /\ [][Next]_vars

-----------------------------------------------------------------------------
(* Whatever was updated, set, proven and reverted, the root is that of the *)
(* contents, however they came about, and known if the database has its    *)
(* node.  A tree that was built in this database reads its contents, now   *)
(* and when its root is set again later; another one never reads a wrong   *)
(* value.                                                                  *)
RootIsContents ==
    /\ tree.root = RootOf(contents)
    /\ tree.known = (tree.root \in tree.db \union {EMPTY_ROOT})
    /\ \A key \in Keys :
           \/ getLeaf(tree, key) = contents[Position(key)]
           \/ ~Whole /\ getLeaf(tree, key) = Null
    /\ \A c \in history, key \in Keys :
           getLeaf(AtRoot(tree, c), key) = c[Position(key)]

(* The batch of two accepted proofs makes both updates.                    *)
BatchesBoth ==
    \A k1 \in Keys, k2 \in Keys, v \in AllValues :
        LET moved == contents[Position(k1)]
            by(k, new) == [key |-> k, oldValue |-> contents[Position(k)], newValue |-> new,
                           siblings |-> ProofIn(contents, k)]
            r == batchUpdate(tree, <<by(k1, v), by(k2, moved)>>)
        IN /\ r.ok
           /\ r.tree.root =
                RootOf([contents EXCEPT ![Position(k1)] = v, ![Position(k2)] = moved])

(* An update gives the root of the new contents, and fails exactly when a  *)
(* node on its path is missing that is not that of an empty subtree; then  *)
(* it changes nothing.  In a whole tree none is.  When the proofs of two   *)
(* updates are accepted both are made: the failure that "should never      *)
(* happen" (base-tree.ts) does not.                                        *)
UpdatesUnlessUnknown ==
    /\ BatchesBoth
    /\ \A key \in Keys :
         LET existing == IF tree.known THEN Found(tree, key) ELSE 0
             missing ==
                 /\ existing < Height
                 /\ Path(tree.root, key)[existing] # DefaultHashes[Height - 1 - existing]
         IN /\ Whole => ~missing
            /\ \A v \in AllValues :
                 LET r == update(tree, key, v)
                 IN IF missing THEN r = Result(FALSE, tree)
                    ELSE r.ok /\ r.tree.root = RootOf([contents EXCEPT ![Position(key)] = v])

(* A whole tree proves every leaf that has not 64 bytes, and the contracts *)
(* take from the proof the same root, for this leaf and for any other in   *)
(* its place.                                                              *)
ProofsAreAccepted ==
    \A key \in Keys :
        LET leaf == contents[Position(key)]
            p == getSparseMerkleProof(tree, key).proof
            s == Compressed(p.siblings)
        IN /\ Whole => (p.proved = "yes" <=> leaf # Wide)
           /\ p.proved = "yes" => \A v \in AllValues :
                LET sparse == verifyAndUpdateSparse(tree.root, s.bits, v, v, key, s.siblings)
                    plain == verifyAndUpdate(tree.root, v, v, key, p.siblings)
                    root == RootOf([contents EXCEPT ![Position(key)] = v])
                IN /\ sparse = [valid |-> v = leaf, root |-> root]
                   /\ plain.valid <=> v = leaf /\ v \notin Words
                   /\ v \notin Words => plain.root = root

(* The proof of a transaction is accepted for its own index and, because   *)
(* the contract looks at no bit above the last sibling, for those that     *)
(* have the same lower bits; within the list it is accepted for no other   *)
(* transaction.  Both ways to build the root of a full list agree.         *)
ListProofs ==
    \A n \in 1..2^(Height - 1) + 2 :
        LET list == [i \in 1..n |-> contents[(i - 1) % 2^(Height - 1)]]
            root == getMerkleRoot(list)
        IN /\ \A index \in 0..n - 1 :
                LET siblings == getMerkleProof(list, index)
                    proved == {j \in 0..2^(Height + 1) - 1 :
                                  verify(root, list[index + 1], j, siblings)}
                IN /\ {j \in 0..2^(Height + 1) - 1 : j % 2^Len(siblings) = index} \subseteq proved
                   /\ \A j \in proved : j < n => list[j + 1] = list[index + 1]
                   /\ \A v \in (AllValues \union {NoBytes}) \ {list[index + 1]} :
                          ~verify(root, v, index, siblings)
           /\ n \in 2^(Height - 2) + 1..2^(Height - 1) =>
                getSparseListRoot(list) =
                    RootOf([p \in Positions |-> IF p < n THEN contents[p] ELSE Null])
=============================================================================

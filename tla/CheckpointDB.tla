---------------------------- MODULE CheckpointDB ----------------------------
(***************************************************************************)
(* sparse-merkle-tree/src/db: CheckpointDB, a stack of write caches over a *)
(* database, and Cache, one of them.                                       *)
(*                                                                         *)
(* The database beneath is a LevelDB (a tree's own CheckpointDB), or, for  *)
(* a bucket, one more Cache over the container's keys with the bucket's    *)
(* prefix (CheckpointDB.bucket).  That cache is the lowest of the layers   *)
(* here; it is no checkpoint.                                              *)
(*                                                                         *)
(* The callers await every call, and a call only touches memory until it   *)
(* reaches the database, so that a call is one step.  The exception is the *)
(* flush to a LevelDB, which is one write per key: the process may stop    *)
(* between two of them (StopInCommit).                                     *)
(***************************************************************************)
EXTENDS Naturals, Sequences

CONSTANTS
  Keys,
  Values,      \* values a caller puts; none is the empty buffer
  Undefined,   \* the key is not in the map, or in the database
  Deleted,     \* the empty buffer: a deletion that is not flushed yet
  MaxLayers    \* bound: caches above the database

ASSUME ValueAssumption ==
  /\ Undefined \notin Values
  /\ Deleted \notin Values
  /\ Undefined # Deleted

ASSUME ShapeAssumption == MaxLayers \in Nat

VARIABLES
  base,    \* content of the database beneath
  layers,  \* the maps of the caches, _checkpoints above the bucket's own
  call,    \* the last call with its arguments and its answer
  isBucket \* whether the database was made by CheckpointDB.bucket, for good

vars == <<base, layers, call, isBucket>>

Contents == [Keys -> Values \cup {Undefined}]
Changes == [Keys -> Values \cup {Undefined, Deleted}]
NoChanges == [k \in Keys |-> Undefined]

\* The number of layers that are no checkpoints.
Floor == IF isBucket THEN 1 ELSE 0

EmptyStack == [n \in 1 .. Floor |-> NoChanges]

isCheckpoint == Len(layers) > Floor

-----------------------------------------------------------------------------
(* Mistaken forms of the operations.  No specification uses them; they     *)
(* show which property notices which mistake.                              *)

\* Leaves the map of a deleted key empty.
DeletingFlush(changes, map) ==
  [k \in Keys |-> IF changes[k] = Undefined THEN map[k]
                  ELSE IF changes[k] = Deleted THEN Undefined ELSE changes[k]]

-----------------------------------------------------------------------------
(* The changes of one map, put into a map or into a database. *)

FlushToCache(changes, map) ==
  [k \in Keys |-> IF changes[k] = Undefined THEN map[k] ELSE changes[k]]

FlushToBase(changes, content) ==
  [k \in Keys |-> IF changes[k] = Undefined THEN content[k]
                  ELSE IF changes[k] = Deleted THEN Undefined ELSE changes[k]]

OnTop(ls, changes) == [ls EXCEPT ![Len(ls)] = FlushToCache(changes, @)]

\* The getter db: changes go to the highest of the layers in rest, to the
\* database if there is none.
WriteInto(rest, changes) ==
  IF rest = <<>>
  THEN /\ base' = FlushToBase(changes, base)
       /\ layers' = rest
  ELSE /\ layers' = OnTop(rest, changes)
       /\ UNCHANGED base

Below == SubSeq(layers, 1, Len(layers) - 1)

-----------------------------------------------------------------------------
(* The database db seen through the maps of the lowest n of the layers ls. *)

\* The layer that answers for the key: the highest with an entry, or 0, the
\* database, if there is none.
Answering(ls, k, n) ==
  {m \in 0 .. n : /\ m > 0 => ls[m][k] # Undefined
                  /\ \A j \in m + 1 .. n : ls[j][k] = Undefined}

\* The answer of layer m.
Held(db, ls, k, m) ==
  IF m = 0 THEN db[k] ELSE IF ls[m][k] = Deleted THEN Undefined ELSE ls[m][k]

Only(set) == CHOOSE x \in set : TRUE

Seen(db, ls, k, n) == Only({Held(db, ls, k, m) : m \in Answering(ls, k, n)})

ViewOf(db, ls, n) == [k \in Keys |-> Seen(db, ls, k, n)]

\* What is seen through each number of layers.
Stack(db, ls) == [i \in 1 .. Len(ls) - Floor + 1 |-> ViewOf(db, ls, Floor + i - 1)]

-----------------------------------------------------------------------------
\* Mistaken form of Commit: commits every checkpoint to the database beneath them all.
CommitToBase ==
  /\ isCheckpoint
  /\ base' = FlushToBase(layers[Len(layers)], base)
  /\ layers' = Below
  /\ call' = <<"commit">>

Init ==
  /\ isBucket \in BOOLEAN
  /\ base \in IF isBucket THEN {NoChanges} ELSE Contents
  /\ layers = EmptyStack
  /\ call = <<"none">>

\* put, del, or several of them in one batch.
Batch(changes) ==
  /\ WriteInto(layers, changes)
  /\ call' = <<"write", changes>>

\* The layers after the answer of layer m, if it is a value, was put in every
\* cache above.
Filled(ls, k, m, answer) ==
  [n \in DOMAIN ls |->
     IF n > m /\ answer # Undefined THEN [ls[n] EXCEPT ![k] = answer] ELSE ls[n]]

\* get; has compares its answer with undefined.
Get(k) ==
  \E m \in Answering(layers, k, Len(layers)) :
    /\ layers' = Filled(layers, k, m, Held(base, layers, k, m))
    /\ call' = <<"get", k, Held(base, layers, k, m)>>
    /\ UNCHANGED base

Checkpoint ==
  /\ Len(layers) < MaxLayers
  /\ layers' = Append(layers, NoChanges)
  /\ call' = <<"checkpoint">>
  /\ UNCHANGED base

Commit ==
  /\ isCheckpoint
  /\ WriteInto(Below, layers[Len(layers)])
  /\ call' = <<"commit">>

Revert ==
  /\ isCheckpoint
  /\ layers' = Below
  /\ call' = <<"revert">>
  /\ UNCHANGED base

\* Another object over the same database: a bucket that is asked for again,
\* the tree of another audit, or a restart.
Reopen ==
  /\ layers' = EmptyStack
  /\ call' = <<"reopen">>
  /\ UNCHANGED base

\* The process stops in the flush of the last checkpoint, after the keys in
\* written, and starts again.
StopInCommit(written) ==
  /\ isCheckpoint
  /\ Below = <<>>
  /\ base' = [k \in Keys |->
       IF k \in written THEN FlushToBase(layers[Len(layers)], base)[k] ELSE base[k]]
  /\ layers' = <<>>
  /\ call' = <<"reopen">>

Next ==
  /\ UNCHANGED isBucket
  /\ \/ \E changes \in Changes : Batch(changes)
     \/ \E k \in Keys : Get(k)
     \/ Checkpoint
     \/ Commit
     \/ Revert
     \/ Reopen
     \/ \E written \in SUBSET Keys : StopInCommit(written)

Spec == Init /\ [][Next]_vars

-----------------------------------------------------------------------------
(* Every component has its type: a LevelDB never holds the deletion mark,  *)
(* and the cache of a bucket is never popped.                              *)
TypeOK ==
  /\ isBucket \in BOOLEAN
  /\ base \in Contents
  /\ layers \in Seq(Changes)
  /\ Len(layers) >= Floor

(* Reads through any number of caches, in any order of checkpoints,        *)
(* commits and reverts, answer from a stack of snapshots: what get copies  *)
(* from layer to layer (cache.ts:38) is never seen after a revert or a     *)
(* commit as something else than what it was.                              *)
Snapshots == INSTANCE SnapshotStack WITH
  snaps <- Stack(base, layers),
  stored <- base,
  writeThrough <- ~isBucket

ImplementsSnapshots == Snapshots!Spec

(* The database beneath changes only when no checkpoint is open after the  *)
(* call, whatever was flushed from one checkpoint to the next before       *)
(* (checkpoint.spec.ts:71: insertions are not propagated to the base       *)
(* database while checkpointed).                                           *)
BaseIsolated == [][base' # base => Len(layers') = 0]_vars
=============================================================================

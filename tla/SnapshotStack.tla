--------------------------- MODULE SnapshotStack ---------------------------
(***************************************************************************)
(* What a database with checkpoints promises: a stack of snapshots of its  *)
(* content.  Every call reads or writes the top of the stack; a checkpoint *)
(* repeats the top, a commit drops the snapshot below the top, a revert    *)
(* drops the top.  The bottom of the stack survives the object that keeps  *)
(* the stack, provided that it is written through to a store.              *)
(***************************************************************************)
EXTENDS Naturals, Sequences

CONSTANTS
  Keys,
  Values,
  Undefined,    \* no value; in a set of changes: the key is left alone
  Deleted       \* in a set of changes: the key loses its value

VARIABLES
  snaps,   \* the content at each open checkpoint, and below all of them
  stored,  \* the content that survives
  call,    \* the last call with its arguments and its answer
  writeThrough  \* whether the bottom of the stack is kept in the store, for good

vars == <<snaps, stored, call, writeThrough>>

Contents == [Keys -> Values \cup {Undefined}]
Changes == [Keys -> Values \cup {Undefined, Deleted}]

Top == snaps[Len(snaps)]

\* The content after the changes.
Changed(content, changes) ==
  [k \in Keys |-> IF changes[k] = Undefined THEN content[k]
                  ELSE IF changes[k] = Deleted THEN Undefined ELSE changes[k]]

\* The new stack, whose bottom is stored if it is written through.
Settle(new) ==
  /\ snaps' = new
  /\ stored' = IF writeThrough /\ Len(new) = 1 THEN new[1] ELSE stored

Init ==
  /\ stored \in Contents
  /\ snaps = <<stored>>
  /\ call = <<"none">>
  /\ writeThrough \in BOOLEAN

Write(changes) ==
  /\ Settle([snaps EXCEPT ![Len(snaps)] = Changed(Top, changes)])
  /\ call' = <<"write", changes>>

Get(k) ==
  /\ call' = <<"get", k, Top[k]>>
  /\ UNCHANGED <<snaps, stored>>

Checkpoint ==
  /\ Settle(Append(snaps, Top))
  /\ call' = <<"checkpoint">>

Commit ==
  /\ Len(snaps) > 1
  /\ Settle(Append(SubSeq(snaps, 1, Len(snaps) - 2), Top))
  /\ call' = <<"commit">>

Revert ==
  /\ Len(snaps) > 1
  /\ snaps' = SubSeq(snaps, 1, Len(snaps) - 1)
  /\ call' = <<"revert">>
  /\ UNCHANGED stored

\* The stack is lost and built again from what is stored.
Reopen ==
  /\ snaps' = <<stored>>
  /\ call' = <<"reopen">>
  /\ UNCHANGED stored

\* The same, in the middle of the last commit: every key has its old or its
\* new value.
StopInCommit ==
  /\ writeThrough
  /\ Len(snaps) = 2
  /\ stored' \in Contents
  /\ \A k \in Keys : stored'[k] \in {stored[k], Top[k]}
  /\ snaps' = <<stored'>>
  /\ call' = <<"reopen">>

Next ==
  /\ UNCHANGED writeThrough
  /\ \/ \E changes \in Changes : Write(changes)
     \/ \E k \in Keys : Get(k)
     \/ Checkpoint
     \/ Commit
     \/ Revert
     \/ Reopen
     \/ StopInCommit

Spec == Init /\ [][Next]_vars
=============================================================================

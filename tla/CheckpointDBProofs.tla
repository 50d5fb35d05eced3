------------------------- MODULE CheckpointDBProofs -------------------------
(***************************************************************************)
(* Proofs about CheckpointDB: its types, the isolation of the database     *)
(* beneath, and that it implements the stack of snapshots.                 *)
(*                                                                         *)
(* A view through n layers is related only to the view through n - 1       *)
(* (lemma ViewAbove), and a step only changes the top layers, so that no   *)
(* induction over the layers is needed.                                    *)
(***************************************************************************)
EXTENDS CheckpointDB, SequenceTheorems, TLAPS

USE DEF Contents, Changes

-----------------------------------------------------------------------------
(* Views. *)

\* What a layer that alone answers holds is what is seen.
LEMMA SeenFromOne ==
  ASSUME NEW db, NEW ls, NEW k, NEW n, NEW m, Answering(ls, k, n) = {m}
  PROVE  Seen(db, ls, k, n) = Held(db, ls, k, m)
<1>1. {Held(db, ls, k, i) : i \in Answering(ls, k, n)} = {Held(db, ls, k, m)}
  OBVIOUS
<1>. QED
  BY <1>1 DEF Only, Seen

\* Without layers the database itself is seen.
LEMMA ViewAtBase ==
  ASSUME NEW db \in Contents, NEW ls
  PROVE  ViewOf(db, ls, 0) = db
<1>1. ASSUME NEW k \in Keys PROVE Answering(ls, k, 0) = {0}
  BY DEF Answering
<1>2. ASSUME NEW k \in Keys
      PROVE  Seen(db, ls, k, 0) = db[k]
  <2>1. Held(db, ls, k, 0) = db[k]
    BY DEF Held
  <2>. QED
    BY <1>1, <2>1, SeenFromOne
<1>. QED
  BY <1>2 DEF ViewOf

\* For one key, a view through n layers depends on their entries for it.
LEMMA SeenAgree ==
  ASSUME NEW db, NEW ls, NEW ls2, NEW n \in Nat, NEW k,
         \A j \in 1 .. n : ls2[j][k] = ls[j][k]
  PROVE  /\ Answering(ls2, k, n) = Answering(ls, k, n)
         /\ Seen(db, ls2, k, n) = Seen(db, ls, k, n)
<1>1. \A m \in 0 .. n : m > 0 => m \in 1 .. n
  OBVIOUS
<1>2. \A m \in 0 .. n : \A j \in m + 1 .. n : j \in 1 .. n
  OBVIOUS
<1>3. Answering(ls2, k, n) = Answering(ls, k, n)
  BY <1>1, <1>2 DEF Answering
<1>4. ASSUME NEW m \in 0 .. n PROVE Held(db, ls2, k, m) = Held(db, ls, k, m)
  BY <1>1 DEF Held
<1>5. Answering(ls, k, n) \subseteq 0 .. n
  BY DEF Answering
<1>6. {Held(db, ls2, k, m) : m \in Answering(ls2, k, n)}
        = {Held(db, ls, k, m) : m \in Answering(ls, k, n)}
  BY <1>3, <1>4, <1>5
<1>. QED
  BY <1>3, <1>6 DEF Seen

\* A view through n layers depends on these layers only.
LEMMA ViewAgree ==
  ASSUME NEW db, NEW ls, NEW ls2, NEW n \in Nat,
         \A j \in 1 .. n : ls2[j] = ls[j]
  PROVE  ViewOf(db, ls2, n) = ViewOf(db, ls, n)
<1>1. ASSUME NEW k \in Keys
      PROVE  Seen(db, ls2, k, n) = Seen(db, ls, k, n)
  <2>1. \A j \in 1 .. n : ls2[j][k] = ls[j][k]
    OBVIOUS
  <2>. QED
    BY <2>1, SeenAgree
<1>. QED
  BY <1>1 DEF ViewOf

\* One layer more: its entries are changes of what is seen beneath.
LEMMA ViewAbove ==
  ASSUME NEW db, NEW ls, NEW n \in Nat
  PROVE  ViewOf(db, ls, n + 1) = FlushToBase(ls[n + 1], ViewOf(db, ls, n))
<1>1. ASSUME NEW k \in Keys, ls[n + 1][k] = Undefined
      PROVE  Seen(db, ls, k, n + 1) = Seen(db, ls, k, n)
  <2>1. ASSUME NEW m \in Answering(ls, k, n) PROVE m \in Answering(ls, k, n + 1)
    <3>1. \A j \in m + 1 .. n + 1 : j \in m + 1 .. n \/ j = n + 1
      BY DEF Answering
    <3>. QED
      BY <3>1, <1>1 DEF Answering
  <2>2. ASSUME NEW m \in Answering(ls, k, n + 1) PROVE m \in Answering(ls, k, n)
    <3>1. m # n + 1
      BY <1>1 DEF Answering
    <3>. QED
      BY <3>1 DEF Answering
  <2>3. Answering(ls, k, n + 1) = Answering(ls, k, n)
    BY <2>1, <2>2
  <2>. QED
    BY <2>3 DEF Seen
<1>2. ASSUME NEW k \in Keys, ls[n + 1][k] # Undefined
      PROVE  Seen(db, ls, k, n + 1) = Held(db, ls, k, n + 1)
  <2>1. ASSUME NEW m \in Answering(ls, k, n + 1) PROVE m = n + 1
    <3>1. m <= n => n + 1 \in m + 1 .. n + 1
      BY DEF Answering
    <3>. QED
      BY <3>1, <1>2 DEF Answering
  <2>2. n + 1 \in Answering(ls, k, n + 1)
    BY <1>2 DEF Answering
  <2>3. Answering(ls, k, n + 1) = {n + 1}
    BY <2>1, <2>2
  <2>. QED
    BY <2>3, SeenFromOne
<1>3. ASSUME NEW k \in Keys
      PROVE  Held(db, ls, k, n + 1)
               = IF ls[n + 1][k] = Deleted THEN Undefined ELSE ls[n + 1][k]
  BY DEF Held
<1>. QED
  BY <1>1, <1>2, <1>3 DEF ViewOf, FlushToBase

\* Only one layer answers.
LEMMA OneAnswers ==
  ASSUME NEW ls, NEW k, NEW n \in Nat, NEW m \in Answering(ls, k, n)
  PROVE  Answering(ls, k, n) = {m}
<1>1. ASSUME NEW i \in Answering(ls, k, n) PROVE i = m
  <2>1. i < m => m \in i + 1 .. n /\ m > 0
    BY DEF Answering
  <2>2. m < i => i \in m + 1 .. n /\ i > 0
    BY DEF Answering
  <2>3. m \in Nat /\ i \in Nat
    BY DEF Answering
  <2>. QED
    BY <2>1, <2>2, <2>3 DEF Answering
<1>. QED
  BY <1>1

\* Changes flushed to a cache and then seen are changes of what was seen.
LEMMA FlushTwice ==
  ASSUME NEW changes \in Changes, NEW map \in Changes, NEW content
  PROVE  FlushToBase(FlushToCache(changes, map), content)
           = FlushToBase(changes, FlushToBase(map, content))
BY ValueAssumption DEF FlushToBase, FlushToCache

\* A flush keeps the types.
LEMMA FlushTypes ==
  ASSUME NEW changes \in Changes
  PROVE  /\ \A map \in Changes : FlushToCache(changes, map) \in Changes
         /\ \A content \in Contents : FlushToBase(changes, content) \in Contents
BY ValueAssumption DEF FlushToBase, FlushToCache

-----------------------------------------------------------------------------
(* What the operations do to the views. *)

\* Changes in the highest layer change the highest view only.
LEMMA WrittenViews ==
  ASSUME NEW db, NEW ls \in Seq(Changes), ls # <<>>, NEW changes \in Changes
  PROVE  /\ OnTop(ls, changes) \in Seq(Changes)
         /\ Len(OnTop(ls, changes)) = Len(ls)
         /\ \A n \in 0 .. Len(ls) - 1 : ViewOf(db, OnTop(ls, changes), n) = ViewOf(db, ls, n)
         /\ ViewOf(db, OnTop(ls, changes), Len(ls))
              = FlushToBase(changes, ViewOf(db, ls, Len(ls)))
<1>. DEFINE ls2 == OnTop(ls, changes)
<1>1. Len(ls) \in Nat \ {0} /\ ls[Len(ls)] \in Changes
  OBVIOUS
<1>2. FlushToCache(changes, ls[Len(ls)]) \in Changes
  BY <1>1, FlushTypes
<1>3. ls2 \in Seq(Changes) /\ Len(ls2) = Len(ls)
  BY <1>1, <1>2 DEF OnTop
<1>4. ls2[Len(ls)] = FlushToCache(changes, ls[Len(ls)])
  BY <1>1 DEF OnTop
<1>5. ASSUME NEW n \in 0 .. Len(ls) - 1 PROVE ViewOf(db, ls2, n) = ViewOf(db, ls, n)
  <2>1. \A j \in 1 .. n : ls2[j] = ls[j]
    BY <1>1 DEF OnTop
  <2>2. n \in Nat
    BY <1>1
  <2>. QED
    BY <2>1, <2>2, ViewAgree, Zenon
<1>6. ViewOf(db, ls2, Len(ls)) = FlushToBase(changes, ViewOf(db, ls, Len(ls)))
  <2>. DEFINE n == Len(ls) - 1
  <2>1. n \in Nat /\ Len(ls) = n + 1 /\ n \in 0 .. Len(ls) - 1
    BY <1>1
  <2>2. ViewOf(db, ls2, n + 1) = FlushToBase(ls2[n + 1], ViewOf(db, ls, n))
    BY <2>1, <1>5, ViewAbove
  <2>3. ViewOf(db, ls, n + 1) = FlushToBase(ls[n + 1], ViewOf(db, ls, n))
    BY <2>1, ViewAbove
  <2>4. FlushToBase(FlushToCache(changes, ls[n + 1]), ViewOf(db, ls, n))
          = FlushToBase(changes, FlushToBase(ls[n + 1], ViewOf(db, ls, n)))
    BY <2>1, <1>1, FlushTwice
  <2>. QED
    BY <2>1, <2>2, <2>3, <2>4, <1>4
<1>. QED
  BY <1>3, <1>5, <1>6

\* What get copies upwards changes no view, whatever is committed or
\* reverted afterwards.
LEMMA FilledViews ==
  ASSUME NEW db \in Contents, NEW ls \in Seq(Changes), NEW k \in Keys,
         NEW m \in Answering(ls, k, Len(ls)),
         NEW ls2, ls2 = Filled(ls, k, m, Held(db, ls, k, m))
  PROVE  /\ ls2 \in Seq(Changes)
         /\ Len(ls2) = Len(ls)
         /\ \A n \in 0 .. Len(ls) : ViewOf(db, ls2, n) = ViewOf(db, ls, n)
         /\ ViewOf(db, ls, Len(ls))[k] = Held(db, ls, k, m)
<1>. DEFINE answer == Held(db, ls, k, m)
<1>0. Len(ls) \in Nat /\ m \in 0 .. Len(ls) /\ m \in Nat /\ DOMAIN ls = 1 .. Len(ls)
  BY DEF Answering
<1>1. answer \in Values \cup {Undefined}
  <2>1. m > 0 => ls[m] \in Changes
    BY <1>0
  <2>. QED
    BY <2>1, <1>0, ValueAssumption DEF Held
<1>2. /\ ls2 \in Seq(Changes)
      /\ Len(ls2) = Len(ls)
      /\ \A j \in 1 .. Len(ls) :
           ls2[j] = IF j > m /\ answer # Undefined THEN [ls[j] EXCEPT ![k] = answer] ELSE ls[j]
  <2>. DEFINE fill(j) == IF j > m /\ answer # Undefined
                         THEN [ls[j] EXCEPT ![k] = answer] ELSE ls[j]
  <2>1. ls2 = [j \in 1 .. Len(ls) |-> fill(j)]
    BY <1>0 DEF Filled
  <2>2. \A j \in 1 .. Len(ls) : fill(j) \in Changes
    BY <1>0, <1>1
  <2>. QED
    BY <1>0, <2>1, <2>2
<1>3. ASSUME NEW n \in 0 .. Len(ls), NEW x \in Keys
      PROVE  Seen(db, ls2, x, n) = Seen(db, ls, x, n)
  <2>1. CASE x # k \/ n <= m \/ answer = Undefined
    <3>1. \A j \in 1 .. n : ls2[j][x] = ls[j][x]
      <4>1. ASSUME NEW j \in 1 .. n PROVE ls2[j][x] = ls[j][x]
        <5>1. j \in 1 .. Len(ls) /\ ls[j] \in Changes
          BY <1>0
        <5>2. CASE x = k /\ j <= m
          <6>1. ~(j > m)
            BY <5>1, <5>2, <1>0
          <6>. QED
            BY <5>1, <6>1, <1>2
        <5>3. CASE x # k
          <6>1. [ls[j] EXCEPT ![k] = answer][x] = ls[j][x]
            BY <5>1, <5>3
          <6>. QED
            BY <5>1, <6>1, <1>2
        <5>4. CASE answer = Undefined
          BY <5>1, <5>4, <1>2
        <5>. QED
          BY <5>2, <5>3, <5>4, <2>1, <1>0
      <4>. QED
        BY <4>1
    <3>2. n \in Nat
      BY <1>0
    <3>. QED
      BY <3>1, <3>2, SeenAgree
  <2>2. CASE x = k /\ n > m /\ answer # Undefined
    <3>1. n \in Nat /\ n \in 1 .. Len(ls) /\ m \in 0 .. n
      BY <1>0, <2>2
    <3>2. m \in Answering(ls, k, n)
      <4>1. \A j \in m + 1 .. n : j \in m + 1 .. Len(ls)
        BY <1>0
      <4>. QED
        BY <3>1, <4>1 DEF Answering
    <3>3. Seen(db, ls, k, n) = answer
      BY <3>1, <3>2, OneAnswers, SeenFromOne
    <3>4. ls2[n][k] = answer
      <4>1. ls[n] \in Changes
        BY <3>1
      <4>. QED
        BY <3>1, <4>1, <1>2, <2>2
    <3>5. n \in Answering(ls2, k, n)
      BY <3>1, <3>4, <2>2 DEF Answering
    <3>6. Held(db, ls2, k, n) = answer
      BY <3>1, <3>4, <1>1, <2>2, ValueAssumption DEF Held
    <3>7. Seen(db, ls2, k, n) = answer
      BY <3>1, <3>5, <3>6, OneAnswers, SeenFromOne
    <3>. QED
      BY <3>3, <3>7, <2>2
  <2>. QED
    BY <2>1, <2>2, <1>0
<1>4. \A n \in 0 .. Len(ls) : ViewOf(db, ls2, n) = ViewOf(db, ls, n)
  BY <1>3 DEF ViewOf
<1>5. ViewOf(db, ls, Len(ls))[k] = answer
  <2>1. Seen(db, ls, k, Len(ls)) = answer
    BY <1>0, OneAnswers, SeenFromOne
  <2>. QED
    BY <2>1 DEF ViewOf
<1>. QED
  BY <1>2, <1>4, <1>5

-----------------------------------------------------------------------------
(* Types. *)

\* A step that changes the layers in rest, which is typed, keeps the types.
LEMMA WriteIntoType ==
  ASSUME base \in Contents, NEW rest \in Seq(Changes), NEW changes \in Changes,
         WriteInto(rest, changes)
  PROVE  /\ base' \in Contents
         /\ layers' \in Seq(Changes)
         /\ Len(layers') = Len(rest)
<1>1. CASE rest = <<>>
  BY <1>1, FlushTypes DEF WriteInto
<1>2. CASE rest # <<>>
  <2>1. /\ layers' = OnTop(rest, changes)
        /\ base' = base
    BY <1>2 DEF WriteInto
  <2>. QED
    BY <2>1, <1>2, WrittenViews
<1>. QED
  BY <1>1, <1>2

\* A sequence without its last element.
LEMMA WithoutLast ==
  ASSUME NEW S, NEW s \in Seq(S), Len(s) > 0
  PROVE  /\ SubSeq(s, 1, Len(s) - 1) \in Seq(S)
         /\ Len(SubSeq(s, 1, Len(s) - 1)) = Len(s) - 1
         /\ \A j \in 1 .. Len(s) - 1 : SubSeq(s, 1, Len(s) - 1)[j] = s[j]
         /\ s[Len(s)] \in S
<1>1. Len(s) \in Nat \ {0} /\ s[Len(s)] \in S
  OBVIOUS
<1>2. \A i \in 1 .. Len(s) - 1 : s[i] \in S
  BY <1>1
<1>. DEFINE n == Len(s) - 1
<1>3. n \in Nat /\ n = Len(s) - 1
  BY <1>1
<1>4. /\ SubSeq(s, 1, n) \in Seq(S)
      /\ Len(SubSeq(s, 1, n)) = IF 1 <= n THEN n - 1 + 1 ELSE 0
      /\ \A i \in 1 .. n - 1 + 1 : SubSeq(s, 1, n)[i] = s[1 + i - 1]
  <2>. HIDE DEF n
  <2>. QED
    BY <1>2, <1>3, SubSeqProperties
<1>5. (IF 1 <= n THEN n - 1 + 1 ELSE 0) = n /\ n - 1 + 1 = n
  <2>. HIDE DEF n
  <2>. QED
    BY <1>3
<1>6. \A i \in 1 .. n : SubSeq(s, 1, n)[i] = s[i]
  BY <1>1, <1>4, <1>5
<1>. QED
  BY <1>1, <1>4, <1>5, <1>6

\* The layers below the highest.
LEMMA BelowType ==
  ASSUME layers \in Seq(Changes), Len(layers) > 0
  PROVE  /\ Below \in Seq(Changes)
         /\ Len(Below) = Len(layers) - 1
         /\ \A j \in 1 .. Len(layers) - 1 : Below[j] = layers[j]
         /\ layers[Len(layers)] \in Changes
BY WithoutLast DEF Below

\* A LevelDB never holds the deletion mark, and the cache of a bucket is
\* never popped: TypeOK holds in every reachable state.
THEOREM TypeCorrect == Spec => []TypeOK
<1>1. Init => TypeOK
  <2>. SUFFICES ASSUME Init PROVE TypeOK
    OBVIOUS
  <2>1. base \in Contents /\ isBucket \in BOOLEAN
    BY DEF Init, NoChanges, Contents
  <2>2. EmptyStack \in Seq(Changes) /\ Len(EmptyStack) = Floor
    BY DEF EmptyStack, NoChanges, Floor
  <2>. QED
    BY <2>1, <2>2 DEF Init, TypeOK, Floor
<1>2. TypeOK /\ [Next]_vars => TypeOK'
  <2>. SUFFICES ASSUME TypeOK, [Next]_vars PROVE TypeOK'
    OBVIOUS
  <2>0. Floor \in Nat /\ Len(layers) \in Nat
    BY DEF Floor, TypeOK
  <2>k. isBucket' = isBucket /\ isBucket \in BOOLEAN /\ Floor' = Floor
    BY DEF Next, vars, TypeOK, Floor
  <2>1. ASSUME NEW changes \in Changes, Batch(changes) PROVE TypeOK'
    BY <2>0, <2>k, <2>1, WriteIntoType DEF Batch, TypeOK, Floor
  <2>2. ASSUME NEW k \in Keys, Get(k) PROVE TypeOK'
    BY <2>0, <2>k, <2>2, FilledViews DEF Get, TypeOK, Floor
  <2>3. CASE Checkpoint
    <3>1. NoChanges \in Changes
      BY DEF NoChanges
    <3>. QED
      BY <2>0, <2>k, <2>3, <3>1 DEF Checkpoint, TypeOK, Floor
  <2>4. CASE Commit
    <3>1. layers \in Seq(Changes) /\ Len(layers) > 0 /\ Len(layers) - 1 >= Floor
      BY <2>0, <2>4 DEF Commit, isCheckpoint, TypeOK
    <3>2. WriteInto(Below, layers[Len(layers)])
      BY <2>4 DEF Commit
    <3>. QED
      BY <2>k, <3>1, <3>2, BelowType, WriteIntoType DEF TypeOK, Floor
  <2>5. CASE Revert
    <3>1. layers \in Seq(Changes) /\ Len(layers) > 0 /\ Len(layers) - 1 >= Floor
      BY <2>0, <2>5 DEF Revert, isCheckpoint, TypeOK
    <3>. QED
      BY <2>k, <2>5, <3>1, BelowType DEF Revert, TypeOK, Floor
  <2>6. CASE Reopen
    <3>1. EmptyStack \in Seq(Changes) /\ Len(EmptyStack) = Floor
      BY DEF EmptyStack, NoChanges, Floor
    <3>. QED
      BY <2>0, <2>k, <2>6, <3>1 DEF Reopen, TypeOK, Floor
  <2>7. ASSUME NEW written \in SUBSET Keys, StopInCommit(written) PROVE TypeOK'
    <3>1. layers \in Seq(Changes) /\ Len(layers) > 0 /\ Below = <<>> /\ Floor = 0
      <4>1. isCheckpoint /\ Below = <<>>
        BY <2>7 DEF StopInCommit
      <4>2. Len(layers) > 0 /\ Len(Below) = Len(layers) - 1
        BY <4>1, <2>0, BelowType DEF isCheckpoint, TypeOK
      <4>3. Len(layers) = 1
        BY <4>1, <4>2, <2>0
      <4>. QED
        BY <4>1, <4>3, <2>0 DEF isCheckpoint, TypeOK
    <3>2. FlushToBase(layers[Len(layers)], base) \in Contents
      BY <3>1, FlushTypes, BelowType DEF TypeOK
    <3>3. base' \in Contents
      BY <2>7, <3>2 DEF StopInCommit, TypeOK
    <3>. QED
      BY <2>k, <2>7, <3>1, <3>3 DEF StopInCommit, TypeOK, Floor
  <2>8. CASE UNCHANGED vars
    BY <2>8 DEF vars, TypeOK, Floor
  <2>. QED
    BY <2>1, <2>2, <2>3, <2>4, <2>5, <2>6, <2>7, <2>8 DEF Next
<1>. QED
  BY <1>1, <1>2, PTL DEF Spec

-----------------------------------------------------------------------------
(* The database beneath changes only when no checkpoint is left open.      *)
THEOREM BaseIsIsolated == Spec => BaseIsolated
<1>1. TypeOK /\ [Next]_vars => [base' # base => Len(layers') = 0]_vars
  <2>. SUFFICES ASSUME TypeOK, Next, base' # base PROVE Len(layers') = 0
    BY DEF vars
  <2>1. ASSUME NEW rest, NEW changes, WriteInto(rest, changes) PROVE Len(layers') = 0
    BY <2>1 DEF WriteInto
  <2>2. ASSUME NEW changes \in Changes, Batch(changes) PROVE Len(layers') = 0
    BY <2>2, <2>1 DEF Batch
  <2>3. CASE Commit
    BY <2>3, <2>1 DEF Commit
  <2>4. ASSUME NEW written \in SUBSET Keys, StopInCommit(written) PROVE Len(layers') = 0
    BY <2>4 DEF StopInCommit
  <2>. QED
    BY <2>2, <2>3, <2>4 DEF Next, Get, Checkpoint, Revert, Reopen
<1>. QED
  BY <1>1, TypeCorrect, PTL DEF BaseIsolated, Spec

-----------------------------------------------------------------------------
(* The stack of views, and what the operations do to it. *)

\* Sequences are equal when their elements are.
LEMMA SameSequence ==
  ASSUME NEW S, NEW T, NEW s \in Seq(S), NEW t \in Seq(T), Len(s) = Len(t),
         \A i \in 1 .. Len(s) : s[i] = t[i]
  PROVE  s = t
OBVIOUS

\* The elements of the stack.
LEMMA StackShape ==
  ASSUME NEW db, NEW ls, Len(ls) \in Nat, Len(ls) >= Floor
  PROVE  /\ Stack(db, ls) \in Seq({ViewOf(db, ls, n) : n \in Nat})
         /\ Len(Stack(db, ls)) = Len(ls) - Floor + 1
         /\ Len(ls) - Floor \in Nat
         /\ \A i \in 1 .. Len(ls) - Floor + 1 : Stack(db, ls)[i] = ViewOf(db, ls, Floor + i - 1)
<1>. DEFINE size == Len(ls) - Floor + 1
            view(i) == ViewOf(db, ls, Floor + i - 1)
<1>1. Floor \in Nat /\ size \in Nat /\ Len(ls) - Floor \in Nat
  BY DEF Floor
<1>2. ASSUME NEW i \in 1 .. size PROVE view(i) \in {ViewOf(db, ls, n) : n \in Nat}
  <2>1. Floor + i - 1 \in Nat
    BY <1>1
  <2>. QED
    BY <2>1
<1>3. Stack(db, ls) = [i \in 1 .. size |-> view(i)]
  BY DEF Stack
<1>. HIDE DEF size, view
<1>4. Stack(db, ls) \in Seq({ViewOf(db, ls, n) : n \in Nat}) /\ Len(Stack(db, ls)) = size
  BY <1>1, <1>2, <1>3
<1>5. \A i \in 1 .. size : Stack(db, ls)[i] = view(i)
  BY <1>3
<1>. QED
  BY <1>1, <1>4, <1>5 DEF size, view

\* The kind of the database never changes, nor what is written in its terms.
LEMMA KindIsFixed ==
  ASSUME [Next]_vars
  PROVE  /\ isBucket' = isBucket
         /\ Floor' = Floor
         /\ Stack(base, layers)' = Stack(base', layers')
<1>1. isBucket' = isBucket
  BY DEF Next, vars
<1>2. Floor' = Floor
  BY <1>1 DEF Floor
<1>. QED
  BY <1>1, <1>2 DEF Stack

\* Without checkpoints there is one snapshot.
LEMMA EmptyStackShape ==
  ASSUME NEW db \in Contents
  PROVE  Stack(db, EmptyStack) = <<db>>
<1>1. Len(EmptyStack) = Floor /\ Floor \in Nat
  BY DEF EmptyStack, Floor
<1>2. ViewOf(db, EmptyStack, Floor) = db
  <2>1. CASE Floor = 0
    BY <2>1, ViewAtBase
  <2>2. CASE Floor = 1
    <3>1. ViewOf(db, EmptyStack, 1) = FlushToBase(EmptyStack[1], db)
      <4>1. \A n \in Nat : ViewOf(db, EmptyStack, n + 1)
                             = FlushToBase(EmptyStack[n + 1], ViewOf(db, EmptyStack, n))
        BY ViewAbove
      <4>2. ViewOf(db, EmptyStack, 0) = db
        BY ViewAtBase
      <4>3. 0 \in Nat /\ 0 + 1 = 1
        OBVIOUS
      <4>. QED
        BY <4>1, <4>2, <4>3
    <3>2. EmptyStack[1] = NoChanges
      BY <2>2 DEF EmptyStack
    <3>3. FlushToBase(NoChanges, db) = db
      BY DEF FlushToBase, NoChanges
    <3>. QED
      BY <2>2, <3>1, <3>2, <3>3
  <2>. QED
    BY <2>1, <2>2 DEF Floor
<1>. DEFINE stack == Stack(db, EmptyStack)
            seen == {ViewOf(db, EmptyStack, n) : n \in Nat}
<1>3. /\ stack \in Seq(seen)
      /\ Len(stack) = Len(EmptyStack) - Floor + 1
      /\ \A i \in 1 .. Len(EmptyStack) - Floor + 1 :
           stack[i] = ViewOf(db, EmptyStack, Floor + i - 1)
  <2>1. Len(EmptyStack) \in Nat /\ Len(EmptyStack) >= Floor
    BY <1>1
  <2>. QED
    BY <2>1, StackShape
<1>4. Len(EmptyStack) - Floor + 1 = 1 /\ Floor + 1 - 1 = Floor
  BY <1>1
<1>5. stack[1] = db /\ Len(stack) = 1
  BY <1>2, <1>3, <1>4
<1>. HIDE DEF stack, seen
<1>6. stack = <<db>>
  <2>1. /\ <<db>> \in Seq({db})
        /\ Len(<<db>>) = 1
        /\ <<db>>[1] = db
    OBVIOUS
  <2>2. \A i \in 1 .. Len(stack) : stack[i] = <<db>>[i]
    BY <1>5, <2>1
  <2>3. stack \in Seq(seen) /\ Len(stack) = Len(<<db>>)
    BY <1>3, <1>5, <2>1
  <2>. QED
    BY <2>1, <2>2, <2>3, SameSequence
<1>. QED
  BY <1>6 DEF stack

\* Changes written to the highest of the layers in rest.
LEMMA WrittenStack ==
  ASSUME base \in Contents, NEW rest \in Seq(Changes), Len(rest) >= Floor,
         NEW changes \in Changes, WriteInto(rest, changes)
  PROVE  /\ Len(layers') = Len(rest)
         /\ \A n \in 0 .. Len(rest) - 1 : ViewOf(base', layers', n) = ViewOf(base, rest, n)
         /\ ViewOf(base', layers', Len(rest))
              = FlushToBase(changes, ViewOf(base, rest, Len(rest)))
         /\ base' = IF ~isBucket /\ Len(rest) = 0
                    THEN ViewOf(base', layers', Len(rest)) ELSE base
<1>1. CASE rest = <<>>
  <2>1. /\ base' = FlushToBase(changes, base)
        /\ layers' = rest
        /\ Len(rest) = 0
        /\ ~isBucket
    BY <1>1 DEF WriteInto, Floor
  <2>2. base' \in Contents
    BY <2>1, FlushTypes
  <2>3. ViewOf(base', layers', 0) = base' /\ ViewOf(base, rest, 0) = base
    BY <2>2, ViewAtBase
  <2>. QED
    BY <2>1, <2>3
<1>2. CASE rest # <<>>
  <2>1. /\ layers' = OnTop(rest, changes)
        /\ base' = base
        /\ Len(rest) # 0
    BY <1>2 DEF WriteInto
  <2>. QED
    BY <2>1, <1>2, WrittenViews
<1>. QED
  BY <1>1, <1>2

\* Snapshots that agree with the stack of views are the stack of views.
LEMMA SameStack ==
  ASSUME NEW db, NEW ls, Len(ls) \in Nat, Len(ls) >= Floor,
         NEW S, NEW s \in Seq(S), Len(s) = Len(ls) - Floor + 1,
         \A i \in 1 .. Len(s) : s[i] = ViewOf(db, ls, Floor + i - 1)
  PROVE  Stack(db, ls) = s
<1>. DEFINE T == {ViewOf(db, ls, n) : n \in Nat}
            stack == Stack(db, ls)
<1>1. /\ stack \in Seq(T)
      /\ Len(stack) = Len(s)
      /\ \A i \in 1 .. Len(stack) : stack[i] = s[i]
  BY StackShape
<1>. HIDE DEF T, stack
<1>2. stack = s
  BY <1>1, SameSequence
<1>. QED
  BY <1>2 DEF stack

-----------------------------------------------------------------------------
(* The stack of caches implements the stack of snapshots: whatever the     *)
(* order of checkpoints, commits and reverts, reads answer from the        *)
(* snapshots, and what get copies from layer to layer never shows.         *)
THEOREM Implementation == Spec => ImplementsSnapshots
<1>. DEFINE old == Stack(base, layers)
            new == Stack(base', layers')
            size == Len(layers) - Floor + 1
            view(i) == ViewOf(base, layers, Floor + i - 1)
            T == {ViewOf(base, layers, n) : n \in Nat}
<1>1. Init => Snapshots!Init
  <2>. SUFFICES ASSUME Init PROVE Snapshots!Init
    OBVIOUS
  <2>1. base \in Contents
    BY DEF Init, NoChanges
  <2>. QED
    BY <2>1, EmptyStackShape DEF Init, Snapshots!Init, Snapshots!Contents
<1>2. TypeOK /\ [Next]_vars => [Snapshots!Next]_(Snapshots!vars)
  <2>. SUFFICES ASSUME TypeOK, [Next]_vars
                PROVE  [Snapshots!Next]_(Snapshots!vars)
    OBVIOUS
  <2>0. /\ Floor \in Nat
        /\ Len(layers) \in Nat
        /\ Len(layers) >= Floor
        /\ base \in Contents
        /\ layers \in Seq(Changes)
    BY DEF Floor, TypeOK
  <2>c. isBucket' = isBucket /\ (~isBucket)' = (~isBucket) /\ Stack(base, layers)' = new
    BY KindIsFixed
  <2>a. /\ old \in Seq(T)
        /\ Len(old) = size
        /\ size \in Nat \ {0}
        /\ \A i \in 1 .. size : old[i] = view(i)
        /\ old[Len(old)] = ViewOf(base, layers, Len(layers))
    <3>1. /\ old \in Seq(T)
          /\ Len(old) = size
          /\ \A i \in 1 .. size : old[i] = view(i)
      BY <2>0, StackShape
    <3>2. size \in 1 .. size /\ Floor + size - 1 = Len(layers) /\ size \in Nat \ {0}
      BY <2>0
    <3>. QED
      BY <3>1, <3>2
  <2>1. ASSUME NEW changes \in Changes, Batch(changes) PROVE Snapshots!Next
    <3>. DEFINE goal == [old EXCEPT ![Len(old)] = FlushToBase(changes, old[Len(old)])]
    <3>1. WriteInto(layers, changes) /\ call' = <<"write", changes>>
      BY <2>1 DEF Batch
    <3>2. /\ Len(layers') = Len(layers)
          /\ \A n \in 0 .. Len(layers) - 1 : ViewOf(base', layers', n) = ViewOf(base, layers, n)
          /\ ViewOf(base', layers', Len(layers))
               = FlushToBase(changes, ViewOf(base, layers, Len(layers)))
          /\ base' = IF ~isBucket /\ Len(layers) = 0
                     THEN ViewOf(base', layers', Len(layers)) ELSE base
      BY <2>0, <3>1, WrittenStack
    <3>3. new = goal
      <4>1. goal \in Seq(T \cup {FlushToBase(changes, old[Len(old)])}) /\ Len(goal) = size
        BY <2>a
      <4>2. ASSUME NEW i \in 1 .. size PROVE goal[i] = ViewOf(base', layers', Floor + i - 1)
        <5>1. CASE i = size
          BY <5>1, <2>0, <2>a, <3>2
        <5>2. CASE i # size
          <6>1. Floor + i - 1 \in 0 .. Len(layers) - 1
            BY <5>2, <2>0
          <6>2. goal[i] = view(i)
            BY <5>2, <2>a
          <6>. QED
            BY <6>1, <6>2, <3>2
        <5>. QED
          BY <5>1, <5>2
      <4>. HIDE DEF goal
      <4>. QED
        BY <2>0, <3>2, <4>1, <4>2, SameStack
    <3>4. base' = IF ~isBucket /\ Len(goal) = 1 THEN goal[1] ELSE base
      <4>1. Len(goal) = size
        BY <2>a
      <4>2. CASE ~isBucket /\ Len(layers) = 0
        BY <4>1, <4>2, <2>0, <2>a, <3>2 DEF Floor
      <4>3. CASE ~(~isBucket /\ Len(layers) = 0)
        BY <4>1, <4>3, <2>0, <3>2 DEF Floor
      <4>. QED
        BY <4>2, <4>3
    <3>5. Snapshots!Changed(old[Len(old)], changes) = FlushToBase(changes, old[Len(old)])
      BY DEF Snapshots!Changed, FlushToBase
    <3>6. Snapshots!Write(changes)
      BY <3>1, <3>3, <3>4, <3>5, <2>c DEF Snapshots!Write, Snapshots!Settle, Snapshots!Top
    <3>. QED
      BY <3>6, <2>c DEF Snapshots!Next, Snapshots!Changes
  <2>2. ASSUME NEW k \in Keys, Get(k) PROVE Snapshots!Next
    <3>1. PICK m \in Answering(layers, k, Len(layers)) :
            /\ layers' = Filled(layers, k, m, Held(base, layers, k, m))
            /\ call' = <<"get", k, Held(base, layers, k, m)>>
            /\ UNCHANGED base
      BY <2>2 DEF Get
    <3>2. /\ Len(layers') = Len(layers)
          /\ \A n \in 0 .. Len(layers) : ViewOf(base, layers', n) = ViewOf(base, layers, n)
          /\ ViewOf(base, layers, Len(layers))[k] = Held(base, layers, k, m)
      BY <2>0, <3>1, FilledViews
    <3>3. new = old
      <4>1. ASSUME NEW i \in 1 .. size PROVE old[i] = ViewOf(base', layers', Floor + i - 1)
        <5>1. Floor + i - 1 \in 0 .. Len(layers)
          BY <2>0
        <5>. QED
          BY <5>1, <2>a, <3>1, <3>2
      <4>. HIDE DEF old, T
      <4>. QED
        BY <2>0, <2>a, <3>2, <4>1, SameStack
    <3>4. call' = <<"get", k, old[Len(old)][k]>>
      BY <3>1, <3>2, <2>a
    <3>5. Snapshots!Get(k)
      BY <3>1, <3>3, <3>4, <2>c DEF Snapshots!Get, Snapshots!Top
    <3>. QED
      BY <3>5, <2>c DEF Snapshots!Next
  <2>3. CASE Checkpoint
    <3>. DEFINE goal == Append(old, old[Len(old)])
    <3>1. layers' = Append(layers, NoChanges) /\ base' = base /\ call' = <<"checkpoint">>
      BY <2>3 DEF Checkpoint
    <3>2. /\ Len(layers') = Len(layers) + 1
          /\ \A j \in 1 .. Len(layers) : layers'[j] = layers[j]
          /\ layers'[Len(layers) + 1] = NoChanges
      BY <2>0, <3>1
    <3>3. \A n \in 0 .. Len(layers) : ViewOf(base, layers', n) = ViewOf(base, layers, n)
      <4>1. ASSUME NEW n \in 0 .. Len(layers)
            PROVE  ViewOf(base, layers', n) = ViewOf(base, layers, n)
        <5>1. n \in Nat /\ \A j \in 1 .. n : layers'[j] = layers[j]
          BY <2>0, <3>2
        <5>. QED
          BY <5>1, ViewAgree
      <4>. QED
        BY <4>1
    <3>4. ViewOf(base, layers', Len(layers) + 1) = ViewOf(base, layers, Len(layers))
      <4>1. ViewOf(base, layers', Len(layers) + 1)
              = FlushToBase(layers'[Len(layers) + 1], ViewOf(base, layers', Len(layers)))
        BY <2>0, ViewAbove
      <4>2. FlushToBase(NoChanges, ViewOf(base, layers, Len(layers)))
              = ViewOf(base, layers, Len(layers))
        BY DEF FlushToBase, NoChanges, ViewOf
      <4>. QED
        BY <2>0, <3>2, <3>3, <4>1, <4>2
    <3>5. new = goal
      <4>1. old[Len(old)] \in T
        BY <2>0, <2>a
      <4>2. goal \in Seq(T) /\ Len(goal) = size + 1
        BY <2>a, <4>1
      <4>3. ASSUME NEW i \in 1 .. size + 1
            PROVE  goal[i] = ViewOf(base', layers', Floor + i - 1)
        <5>1. CASE i = size + 1
          <6>1. Floor + i - 1 = Len(layers) + 1
            BY <5>1, <2>0
          <6>2. goal[i] = old[Len(old)]
            BY <5>1, <2>a
          <6>. QED
            BY <6>1, <6>2, <2>a, <3>1, <3>4
        <5>2. CASE i # size + 1
          <6>1. i \in 1 .. size /\ Floor + i - 1 \in 0 .. Len(layers)
            BY <5>2, <2>0, <2>a
          <6>2. goal[i] = view(i)
            BY <6>1, <2>a
          <6>. QED
            BY <6>1, <6>2, <3>1, <3>3
        <5>. QED
          BY <5>1, <5>2
      <4>4. Len(layers') \in Nat /\ Len(layers') >= Floor /\ Len(goal) = Len(layers') - Floor + 1
        BY <2>0, <3>2, <4>2
      <4>. HIDE DEF goal, T
      <4>. QED
        BY <4>2, <4>3, <4>4, SameStack
    <3>6. Len(goal) # 1
      BY <2>a
    <3>7. Snapshots!Checkpoint
      BY <3>1, <3>5, <3>6, <2>c DEF Snapshots!Checkpoint, Snapshots!Settle, Snapshots!Top
    <3>. QED
      BY <3>7, <2>c DEF Snapshots!Next
  <2>b. ASSUME isCheckpoint
        PROVE  /\ Below \in Seq(Changes)
               /\ Len(Below) = Len(layers) - 1
               /\ Len(Below) >= Floor
               /\ size > 1
               /\ layers[Len(layers)] \in Changes
               /\ \A n \in 0 .. Len(layers) - 1 :
                    ViewOf(base, Below, n) = ViewOf(base, layers, n)
    <3>1. Len(layers) > 0 /\ size > 1 /\ Len(layers) - 1 >= Floor
      BY <2>0, <2>b DEF isCheckpoint
    <3>2. /\ Below \in Seq(Changes)
          /\ Len(Below) = Len(layers) - 1
          /\ \A j \in 1 .. Len(layers) - 1 : Below[j] = layers[j]
          /\ layers[Len(layers)] \in Changes
      BY <2>0, <3>1, BelowType
    <3>3. ASSUME NEW n \in 0 .. Len(layers) - 1
          PROVE  ViewOf(base, Below, n) = ViewOf(base, layers, n)
      <4>1. n \in Nat /\ \A j \in 1 .. n : Below[j] = layers[j]
        BY <2>0, <3>2
      <4>. QED
        BY <4>1, ViewAgree
    <3>. QED
      BY <3>1, <3>2, <3>3
  <2>4. CASE Commit
    <3>. DEFINE last == layers[Len(layers)]
                below == SubSeq(old, 1, Len(old) - 2)
                goal == Append(below, old[Len(old)])
    <3>1. isCheckpoint /\ WriteInto(Below, last) /\ call' = <<"commit">>
      BY <2>4 DEF Commit
    <3>2. /\ Len(layers') = Len(layers) - 1
          /\ \A n \in 0 .. Len(layers) - 2 : ViewOf(base', layers', n) = ViewOf(base, Below, n)
          /\ ViewOf(base', layers', Len(layers) - 1)
               = FlushToBase(last, ViewOf(base, Below, Len(layers) - 1))
          /\ base' = IF ~isBucket /\ Len(layers) - 1 = 0
                     THEN ViewOf(base', layers', Len(layers) - 1) ELSE base
      <4>1. /\ Below \in Seq(Changes)
            /\ Len(Below) = Len(layers) - 1
            /\ Len(Below) >= Floor
            /\ last \in Changes
        BY <2>b, <3>1
      <4>2. /\ Len(layers') = Len(Below)
            /\ \A n \in 0 .. Len(Below) - 1 : ViewOf(base', layers', n) = ViewOf(base, Below, n)
            /\ ViewOf(base', layers', Len(Below))
                 = FlushToBase(last, ViewOf(base, Below, Len(Below)))
            /\ base' = IF ~isBucket /\ Len(Below) = 0
                       THEN ViewOf(base', layers', Len(Below)) ELSE base
        <5>. HIDE DEF last
        <5>. QED
          BY <2>0, <3>1, <4>1, WrittenStack
      <4>3. Len(layers) - 1 - 1 = Len(layers) - 2
        BY <2>0
      <4>. QED
        BY <4>1, <4>2, <4>3
    <3>3. \A n \in 0 .. Len(layers) - 2 : ViewOf(base', layers', n) = ViewOf(base, layers, n)
      <4>1. \A n \in 0 .. Len(layers) - 2 : n \in 0 .. Len(layers) - 1
        BY <2>0
      <4>. QED
        BY <4>1, <2>b, <3>1, <3>2
    <3>4. ViewOf(base', layers', Len(layers) - 1) = ViewOf(base, layers, Len(layers))
      <4>. DEFINE n == Len(layers) - 1
      <4>1. n \in Nat /\ n + 1 = Len(layers) /\ n \in 0 .. Len(layers) - 1
        BY <2>0, <2>b, <3>1
      <4>2. ViewOf(base, layers, n + 1) = FlushToBase(layers[n + 1], ViewOf(base, layers, n))
        BY <4>1, ViewAbove
      <4>3. ViewOf(base, Below, n) = ViewOf(base, layers, n)
        BY <4>1, <2>b, <3>1
      <4>. QED
        BY <4>1, <4>2, <4>3, <3>2
    <3>5. /\ below \in Seq(T)
          /\ Len(below) = size - 2
          /\ \A i \in 1 .. size - 2 : below[i] = old[i]
      <4>1. /\ SubSeq(old, 1, Len(old) - 1) \in Seq(T)
            /\ Len(SubSeq(old, 1, Len(old) - 1)) = Len(old) - 1
            /\ \A i \in 1 .. Len(old) - 1 : SubSeq(old, 1, Len(old) - 1)[i] = old[i]
        BY <2>a, WithoutLast
      <4>2. Len(old) = size /\ size > 1 /\ size \in Nat /\ old \in Seq(T)
        BY <2>a, <2>b, <3>1
      <4>3. \A i \in 1 .. size - 2 : old[i] \in T
        <5>. HIDE DEF old, T, size
        <5>. QED
          BY <4>2
      <4>. HIDE DEF old, T, size
      <4>4. /\ SubSeq(old, 1, size - 2) \in Seq(T)
            /\ Len(SubSeq(old, 1, size - 2)) = IF 1 <= size - 2 THEN size - 2 - 1 + 1 ELSE 0
            /\ \A i \in 1 .. size - 2 - 1 + 1 : SubSeq(old, 1, size - 2)[i] = old[1 + i - 1]
        BY <4>2, <4>3, SubSeqProperties
      <4>5. /\ (IF 1 <= size - 2 THEN size - 2 - 1 + 1 ELSE 0) = size - 2
            /\ size - 2 - 1 + 1 = size - 2
        BY <4>2
      <4>6. \A i \in 1 .. size - 2 : SubSeq(old, 1, size - 2)[i] = old[i]
        BY <4>2, <4>4, <4>5
      <4>. QED
        BY <4>2, <4>4, <4>5, <4>6
    <3>6. /\ goal \in Seq(T)
          /\ Len(goal) = size - 1
          /\ \A i \in 1 .. size - 2 : goal[i] = old[i]
          /\ goal[size - 1] = old[Len(old)]
      <4>1. old[Len(old)] \in T /\ size \in Nat /\ size > 1
        BY <2>0, <2>a, <2>b, <3>1
      <4>. HIDE DEF below, T, old, size
      <4>. QED
        BY <3>5, <4>1
    <3>7. new = goal
      <4>1. ASSUME NEW i \in 1 .. size - 1
            PROVE  goal[i] = ViewOf(base', layers', Floor + i - 1)
        <5>1. CASE i = size - 1
          <6>1. Floor + i - 1 = Len(layers) - 1
            BY <5>1, <2>0
          <6>2. goal[i] = ViewOf(base, layers, Len(layers))
            BY <5>1, <3>6, <2>a
          <6>. QED
            BY <6>1, <6>2, <3>4
        <5>2. CASE i # size - 1
          <6>1. i \in 1 .. size - 2 /\ i \in 1 .. size /\ Floor + i - 1 \in 0 .. Len(layers) - 2
            BY <5>2, <2>0
          <6>2. goal[i] = view(i)
            BY <6>1, <3>6, <2>a
          <6>. QED
            BY <6>1, <6>2, <3>3
        <5>. QED
          BY <5>1, <5>2
      <4>2. /\ Len(layers') \in Nat
            /\ Len(layers') >= Floor
            /\ Len(goal) = Len(layers') - Floor + 1
        BY <2>0, <2>b, <3>1, <3>2, <3>6
      <4>3. goal \in Seq(T) /\ Len(goal) = size - 1
        BY <3>6
      <4>. HIDE DEF goal, T
      <4>. QED
        BY <4>1, <4>2, <4>3, SameStack
    <3>8. base' = IF ~isBucket /\ Len(goal) = 1 THEN goal[1] ELSE base
      <4>1. Len(goal) = size - 1 /\ goal[size - 1] = ViewOf(base, layers, Len(layers))
        BY <3>6, <2>a
      <4>. HIDE DEF goal
      <4>2. CASE ~isBucket /\ Len(layers) - 1 = 0
        <5>0. Floor = 0
          BY <4>2 DEF Floor
        <5>1. size - 1 = 1 /\ Len(layers) - 1 = 0
          <6>1. Len(layers) \in Nat
            BY <2>0
          <6>. QED
            BY <4>2, <5>0, <6>1
        <5>2. Len(goal) = 1 /\ goal[1] = ViewOf(base, layers, Len(layers))
          BY <4>1, <5>1
        <5>3. base' = ViewOf(base', layers', Len(layers) - 1)
          BY <4>2, <3>2
        <5>. QED
          BY <4>2, <5>2, <5>3, <3>4
      <4>3. CASE ~(~isBucket /\ Len(layers) - 1 = 0)
        BY <4>1, <4>3, <2>0, <3>2 DEF Floor
      <4>. QED
        BY <4>2, <4>3
    <3>9. Snapshots!Commit
      <4>1. Len(old) > 1
        BY <2>a, <2>b, <3>1
      <4>. QED
        BY <4>1, <3>1, <3>7, <3>8, <2>c DEF Snapshots!Commit, Snapshots!Settle, Snapshots!Top
    <3>. QED
      BY <3>9, <2>c DEF Snapshots!Next
  <2>5. CASE Revert
    <3>. DEFINE goal == SubSeq(old, 1, Len(old) - 1)
    <3>1. isCheckpoint /\ layers' = Below /\ base' = base /\ call' = <<"revert">>
      BY <2>5 DEF Revert
    <3>2. /\ goal \in Seq(T)
          /\ Len(goal) = size - 1
          /\ \A i \in 1 .. size - 1 : goal[i] = old[i]
      BY <2>a, WithoutLast
    <3>3. new = goal
      <4>1. ASSUME NEW i \in 1 .. size - 1
            PROVE  goal[i] = ViewOf(base', layers', Floor + i - 1)
        <5>1. i \in 1 .. size /\ Floor + i - 1 \in 0 .. Len(layers) - 1
          BY <2>0, <2>a
        <5>. QED
          BY <5>1, <2>a, <2>b, <3>1, <3>2
      <4>2. /\ Len(layers') \in Nat
            /\ Len(layers') >= Floor
            /\ Len(goal) = Len(layers') - Floor + 1
        BY <2>0, <2>b, <3>1, <3>2
      <4>. HIDE DEF goal, T
      <4>. QED
        BY <3>2, <4>1, <4>2, SameStack
    <3>4. Snapshots!Revert
      BY <2>a, <2>b, <3>1, <3>3, <2>c DEF Snapshots!Revert
    <3>. QED
      BY <3>4, <2>c DEF Snapshots!Next
  <2>6. CASE Reopen
    <3>1. new = <<base>>
      BY <2>0, <2>6, EmptyStackShape DEF Reopen
    <3>. QED
      BY <2>6, <3>1, <2>c DEF Reopen, Snapshots!Reopen, Snapshots!Next
  <2>7. ASSUME NEW written \in SUBSET Keys, StopInCommit(written) PROVE Snapshots!Next
    <3>. DEFINE last == layers[Len(layers)]
    <3>1. /\ isCheckpoint
          /\ Below = <<>>
          /\ base' = [k \in Keys |->
               IF k \in written THEN FlushToBase(last, base)[k] ELSE base[k]]
          /\ layers' = <<>>
          /\ call' = <<"reopen">>
      BY <2>7 DEF StopInCommit
    <3>2. Len(layers) = 1 /\ Floor = 0 /\ ~isBucket /\ size = 2 /\ last \in Changes
      <4>1. last \in Changes
        BY <2>b, <3>1
      <4>2. Len(layers) - 1 = 0 /\ 0 >= Floor
        <5>1. Len(Below) = 0
          BY <3>1
        <5>2. Len(Below) = Len(layers) - 1 /\ Len(Below) >= Floor
          BY <2>b, <3>1
        <5>. QED
          BY <5>1, <5>2, Zenon
      <4>3. Len(layers) = 1 /\ Floor = 0 /\ size = 2
        <5>1. Len(layers) \in Nat /\ Floor \in Nat
          BY <2>0
        <5>. QED
          BY <4>2, <5>1
      <4>4. ~isBucket
        BY <4>3 DEF Floor
      <4>. QED
        BY <4>1, <4>3, <4>4
    <3>3. old[Len(old)] = FlushToBase(last, base)
      <4>1. \A n \in Nat : ViewOf(base, layers, n + 1)
                             = FlushToBase(layers[n + 1], ViewOf(base, layers, n))
        BY ViewAbove
      <4>2. ViewOf(base, layers, 0) = base
        BY <2>0, ViewAtBase
      <4>3. 0 \in Nat /\ 0 + 1 = 1
        OBVIOUS
      <4>4. ViewOf(base, layers, 1) = FlushToBase(layers[1], base)
        BY <4>1, <4>2, <4>3
      <4>. QED
        BY <4>4, <2>a, <3>2
    <3>4. base' \in Contents /\ \A k \in Keys : base'[k] \in {base[k], old[Len(old)][k]}
      <4>1. FlushToBase(last, base) \in Contents
        BY <2>0, <3>2, FlushTypes
      <4>. HIDE DEF last
      <4>. QED
        BY <4>1, <2>0, <3>1, <3>3
    <3>5. new = <<base'>>
      <4>1. layers' = EmptyStack
        BY <3>1, <3>2 DEF EmptyStack
      <4>. QED
        BY <4>1, <3>4, EmptyStackShape
    <3>6. Snapshots!StopInCommit
      <4>1. Len(old) = 2
        BY <2>a, <3>2
      <4>. QED
        BY <4>1, <3>1, <3>2, <3>4, <3>5, <2>c
        DEF Snapshots!StopInCommit, Snapshots!Contents, Snapshots!Top
    <3>. QED
      BY <3>6, <2>c DEF Snapshots!Next
  <2>8. CASE UNCHANGED vars
    BY <2>8, <2>c DEF vars, Snapshots!vars
  <2>. QED
    BY <2>1, <2>2, <2>3, <2>4, <2>5, <2>6, <2>7, <2>8 DEF Next
<1>. QED
  BY <1>1, <1>2, TypeCorrect, PTL DEF Spec, ImplementsSnapshots, Snapshots!Spec
=============================================================================

--------------------------- MODULE MonitorProofs ---------------------------
(***************************************************************************)
(* Proofs about Monitor: the listener skips no event, and the lists of     *)
(* hashes name no block that is not coming, however the handlers are       *)
(* interleaved and whenever the node is started again.                     *)
(*                                                                         *)
(* A handler holds a list that it read a while ago, and writes it back     *)
(* with one hash more.  The invariants therefore speak of the lists in the *)
(* handlers as well as of those in the database.                           *)
(***************************************************************************)
EXTENDS Monitor, SequenceTheorems, TLAPS

-----------------------------------------------------------------------------
(* Types. *)

Listeners ==
    [phase : {"stopped", "none", "past", "subscribed"}, past : Nat, next : Nat \ {0}]
Tasks ==
    [block : Blocks, event : Nat \ {0}, pc : Running \union Ended, read : Seq(AllBlocks)]

TypeOK ==
    /\ log \in Seq(Blocks)
    /\ listener \in Listeners
    /\ blocksDB \subseteq AllBlocks
    /\ blockHashes \in [Heights -> Seq(AllBlocks)]
    /\ childHashes \in [AllBlocks -> Seq(AllBlocks)]
    /\ latest \in Nat
    /\ tasks \in Seq(Tasks)
    /\ restarts \in Nat

-----------------------------------------------------------------------------
(* The inductive invariant. *)

\* The listener is within the past events while it handles them, and all
\* before its next event has been handled.
ListenerInv ==
    /\ listener.phase = "none" => listener.past = 0
    /\ listener.phase = "past" => listener.next <= listener.past /\ listener.past <= Len(log)
    /\ listener.phase = "past" \/ (listener.phase = "subscribed" /\ listener.past > 0) =>
         \A i \in 1 .. listener.next - 1 : Handled(i)

Writing(k, b) ==
    tasks[k].block = b /\ tasks[k].pc \in {"readChildren", "writeChildren", "store"}

Coming(b) == Stored(b) \/ \E k \in DOMAIN tasks : Writing(k, b)

\* Lists in the database and lists in the handlers name blocks that come.
Holding == {"setLatest", "writeHeight"}
ListsInv ==
    /\ \A h \in Heights : \A b \in ToSet(blockHashes[h]) : Coming(b)
    /\ \A k \in DOMAIN tasks :
         tasks[k].pc \in Holding => \A b \in ToSet(tasks[k].read) : Coming(b)

\* The latest height is that of some listed block, or of one that a handler
\* is about to list; no listed one is higher, and none that a handler is
\* about to list.
LatestInv ==
    /\ latest \in Heights
    /\ LatestIsComing
    /\ \A k \in DOMAIN tasks :
         tasks[k].pc = "writeHeight" => Height[tasks[k].block] <= latest

\* A handler goes beyond the header only with a parent that is stored, and
\* every stored block has all blocks before it.
Rooted(b) == b = Genesis \/ Stored(Parent[b])
ParentsInv ==
    /\ \A b \in blocksDB : Rooted(b)
    /\ \A k \in DOMAIN tasks :
         tasks[k].pc \notin {"header", "lost"} => Rooted(tasks[k].block)

\* A block that was not rejected is stored.
JudgedIsStored ==
    \A k \in DOMAIN tasks : tasks[k].pc \in {"ok", "challenged"} => Stored(tasks[k].block)

Inv ==
    /\ TypeOK
    /\ ListenerInv
    /\ ListsInv
    /\ LatestInv
    /\ ParentsInv
    /\ JudgedIsStored

-----------------------------------------------------------------------------
(* Lists and handlers. *)

\* Heights are numbers, and zero is one of them.
LEMMA HeightTypes ==
  /\ Heights \subseteq Nat /\ 0 \in Heights
  /\ \A b \in AllBlocks : Height[b] \in Heights
  /\ \A b \in Blocks : b \in AllBlocks /\ Parent[b] \in AllBlocks
BY BlockAssumption DEF Heights, AllBlocks

\* What is in a list is at some place of it.
LEMMA InList ==
  ASSUME NEW S, NEW s \in Seq(S), NEW x
  PROVE  x \in ToSet(s) <=> \E i \in 1 .. Len(s) : s[i] = x
BY DEF ToSet

\* A list with one more element.
LEMMA ListOfAppend ==
  ASSUME NEW S, NEW s \in Seq(S), NEW y \in S, NEW x \in ToSet(Append(s, y))
  PROVE  x \in ToSet(s) \/ x = y
<1>1. Append(s, y) \in Seq(S) /\ Len(Append(s, y)) = Len(s) + 1
  OBVIOUS
<1>2. PICK i \in 1 .. Len(Append(s, y)) : Append(s, y)[i] = x
  BY <1>1, InList
<1>3. i \in 1 .. Len(s) => s[i] = x
  BY <1>2
<1>4. i \notin 1 .. Len(s) => i = Len(s) + 1
  BY <1>1
<1>5. Append(s, y)[Len(s) + 1] = y
  OBVIOUS
<1>. QED
  BY <1>2, <1>3, <1>4, <1>5, InList

\* The places of a sequence.
LEMMA Places ==
  ASSUME NEW S, NEW s \in Seq(S)
  PROVE  DOMAIN s = 1 .. Len(s) /\ Len(s) \in Nat /\ \A k \in DOMAIN s : s[k] \in S
OBVIOUS

\* What a handler is about.
LEMMA TaskTypes ==
  ASSUME TypeOK, NEW k \in DOMAIN tasks
  PROVE  LET b == tasks[k].block
         IN  /\ tasks[k] \in Tasks /\ tasks[k].read \in Seq(AllBlocks)
             /\ b \in AllBlocks /\ Parent[b] \in AllBlocks
             /\ Height[b] \in Heights /\ Height[b] \in Nat
<1>1. tasks[k] \in Tasks
  BY Places DEF TypeOK
<1>2. tasks[k].block \in Blocks /\ tasks[k].read \in Seq(AllBlocks)
  BY <1>1 DEF Tasks
<1>. QED
  BY <1>1, <1>2, HeightTypes

\* A new handler comes after those there are, which stay as they are.
LEMMA TaskAdded ==
  ASSUME TypeOK, NEW i \in DOMAIN log, tasks' = Append(tasks, Task(i))
  PROVE  /\ tasks' \in Seq(Tasks)
         /\ DOMAIN tasks \subseteq DOMAIN tasks'
         /\ \A k \in DOMAIN tasks : tasks'[k] = tasks[k]
         /\ \A k \in DOMAIN tasks' : k \in DOMAIN tasks \/ tasks'[k] = Task(i)
         /\ \E k \in DOMAIN tasks' : tasks'[k] = Task(i)
         /\ Task(i).event = i /\ Task(i).pc = "header"
<1>1. /\ log \in Seq(Blocks) /\ tasks \in Seq(Tasks)
  BY DEF TypeOK
<1>2. log[i] \in Blocks /\ i \in Nat \ {0}
  BY <1>1
<1>3. "header" \in Running \union Ended /\ <<>> \in Seq(AllBlocks)
  BY DEF Running
<1>4. Task(i) \in Tasks /\ Task(i).event = i /\ Task(i).pc = "header"
  BY <1>2, <1>3 DEF Task, Tasks
<1>. DEFINE n == Len(tasks)
            t == Task(i)
<1>5. n \in Nat /\ DOMAIN tasks = 1 .. n
  BY <1>1
<1>. HIDE DEF t
<1>6. /\ Append(tasks, t) \in Seq(Tasks) /\ Len(Append(tasks, t)) = n + 1
      /\ Append(tasks, t)[n + 1] = t
      /\ \A k \in 1 .. n : Append(tasks, t)[k] = tasks[k]
  BY <1>1, <1>4 DEF t
<1>7. tasks' = Append(tasks, t)
  BY DEF t
<1>8. DOMAIN tasks' = 1 .. n + 1
  BY <1>6, <1>7
<1>. HIDE DEF n
<1>9. 1 .. n \subseteq 1 .. n + 1 /\ n + 1 \in 1 .. n + 1 /\ \A k \in 1 .. n + 1 : k \in 1 .. n \/ k = n + 1
  BY <1>5
<1>. QED
  BY <1>4, <1>5, <1>6, <1>7, <1>8, <1>9 DEF t

\* A handler goes on, with or without a list; the others wait.
LEMMA TaskMoved ==
  ASSUME TypeOK, NEW k \in DOMAIN tasks, NEW pc \in Running \union Ended,
         NEW list \in Seq(AllBlocks),
         Goto(k, pc) \/ GotoWith(k, pc, list)
  PROVE  /\ tasks' \in Seq(Tasks) /\ DOMAIN tasks' = DOMAIN tasks
         /\ \A j \in DOMAIN tasks : /\ tasks'[j].block = tasks[j].block
                                    /\ tasks'[j].event = tasks[j].event
                                    /\ j # k => tasks'[j] = tasks[j]
         /\ tasks'[k].pc = pc
         /\ GotoWith(k, pc, list) => tasks'[k].read = list
<1>1. tasks \in Seq(Tasks) /\ tasks[k] \in Tasks /\ k \in 1 .. Len(tasks)
  BY DEF TypeOK
<1>2. ASSUME NEW t \in Tasks, tasks' = [tasks EXCEPT ![k] = t]
      PROVE  /\ tasks' \in Seq(Tasks) /\ DOMAIN tasks' = DOMAIN tasks
             /\ tasks'[k] = t /\ \A j \in DOMAIN tasks : j # k => tasks'[j] = tasks[j]
  BY <1>1, <1>2, ExceptSeq
<1>3. CASE Goto(k, pc) /\ ~GotoWith(k, pc, list)
  <2>. DEFINE t == [tasks[k] EXCEPT !.pc = pc]
  <2>1. /\ t \in Tasks /\ t.pc = pc /\ t.block = tasks[k].block /\ t.event = tasks[k].event
        /\ tasks' = [tasks EXCEPT ![k] = t]
    BY <1>1, <1>3 DEF Tasks, Goto
  <2>. HIDE DEF t
  <2>. QED
    BY <1>2, <1>3, <2>1
<1>4. CASE GotoWith(k, pc, list)
  <2>. DEFINE t == [[tasks[k] EXCEPT !.pc = pc] EXCEPT !.read = list]
  <2>1. /\ t \in Tasks /\ t.pc = pc /\ t.block = tasks[k].block /\ t.event = tasks[k].event
        /\ t.read = list
    BY <1>1 DEF Tasks
  <2>2. tasks' = [tasks EXCEPT ![k] = t]
    BY <1>1, <1>4 DEF Tasks, GotoWith
  <2>. HIDE DEF t
  <2>. QED
    BY <1>2, <2>1, <2>2
<1>. QED
  BY <1>3, <1>4

-----------------------------------------------------------------------------
(* What steps have in common. *)

\* What was handled stays handled, as long as the node runs.
LEMMA HandledKept ==
  ASSUME DOMAIN tasks \subseteq DOMAIN tasks',
         \A j \in DOMAIN tasks : tasks'[j].event = tasks[j].event,
         NEW i, Handled(i)
  PROVE  Handled(i)'
BY DEF Handled

\* A handler that only goes on leaves the listener where it is.
LEMMA ListenerWaits ==
  ASSUME Inv, UNCHANGED <<log, listener>>, DOMAIN tasks' = DOMAIN tasks,
         \A j \in DOMAIN tasks : tasks'[j].event = tasks[j].event
  PROVE  ListenerInv'
<1>1. \A i : Handled(i) => Handled(i)'
  BY HandledKept
<1>. QED
  BY <1>1 DEF Inv, ListenerInv

\* The lists in the database are the same, and a handler that holds a list
\* holds one of blocks that come.
LEMMA ListsWait ==
  ASSUME Inv, blockHashes' = blockHashes,
         \A b : Coming(b) => Coming(b)',
         \A j \in DOMAIN tasks' : tasks'[j].pc \in Holding =>
            \A b \in ToSet(tasks'[j].read) : Coming(b)
  PROVE  ListsInv'
BY DEF Inv, ListsInv

\* The handlers about to write the list of a height are the same.
LEMMA LatestWaits ==
  ASSUME Inv, UNCHANGED <<blockHashes, latest>>,
         \A j \in DOMAIN tasks : tasks[j].pc = "writeHeight" =>
            /\ j \in DOMAIN tasks'
            /\ tasks'[j].pc = "writeHeight" /\ tasks'[j].block = tasks[j].block,
         \A j \in DOMAIN tasks' : tasks'[j].pc = "writeHeight" =>
            /\ j \in DOMAIN tasks
            /\ tasks[j].pc = "writeHeight" /\ tasks'[j].block = tasks[j].block
  PROVE  LatestInv'
<1>1. LatestInv
  BY DEF Inv
<1>2. LatestIsComing'
  <2>1. CASE blockHashes[latest] # <<>>
    BY <1>1, <2>1 DEF LatestInv, LatestIsComing
  <2>2. ASSUME NEW k \in DOMAIN tasks, Height[tasks[k].block] = latest, tasks[k].pc = "writeHeight"
        PROVE  LatestIsComing'
    BY <1>1, <2>2 DEF LatestInv, LatestIsComing
  <2>. QED
    BY <1>1, <2>1, <2>2 DEF LatestInv, LatestIsComing
<1>. QED
  BY <1>1, <1>2 DEF LatestInv

\* What is stored stays stored; what is stored in addition, and what a
\* handler goes on with, has its parent.
LEMMA ParentsWait ==
  ASSUME Inv, blocksDB \subseteq blocksDB',
         \A b \in blocksDB' \ blocksDB : Rooted(b),
         \A j \in DOMAIN tasks' : tasks'[j].pc \notin {"header", "lost"} =>
            Rooted(tasks'[j].block)
  PROVE  ParentsInv'
<1>1. \A b : Rooted(b) => Rooted(b)'
  BY DEF Rooted, Stored
<1>. QED
  BY <1>1 DEF Inv, ParentsInv

\* A handler that goes on without storing: what is coming is still coming.
LEMMA ComingKept ==
  ASSUME blocksDB' = blocksDB, NEW k, DOMAIN tasks \subseteq DOMAIN tasks',
         \A j \in DOMAIN tasks : tasks'[j].block = tasks[j].block /\ (j # k => tasks'[j] = tasks[j]),
         k \in DOMAIN tasks /\ tasks[k].pc \in {"readChildren", "writeChildren", "store"} =>
            tasks'[k].pc \in {"readChildren", "writeChildren", "store"}
  PROVE  \A b : Coming(b) => Coming(b)'
<1>. SUFFICES ASSUME NEW b, Coming(b) PROVE Coming(b)'
  OBVIOUS
<1>1. ASSUME NEW j \in DOMAIN tasks, Writing(j, b) PROVE Writing(j, b)'
  BY <1>1 DEF Writing
<1>. QED
  BY <1>1 DEF Coming, Stored

\* A handler is started.
LEMMA StartInv ==
  ASSUME Inv, NEW i \in DOMAIN log, tasks' = Append(tasks, Task(i)),
         listener' \in Listeners, ListenerInv',
         UNCHANGED <<log, stores, restarts>>
  PROVE  Inv'
<1>1. TypeOK
  BY DEF Inv
<1>2. /\ tasks' \in Seq(Tasks)
      /\ DOMAIN tasks \subseteq DOMAIN tasks'
      /\ \A k \in DOMAIN tasks : tasks'[k] = tasks[k]
      /\ \A k \in DOMAIN tasks' : k \in DOMAIN tasks \/ tasks'[k] = Task(i)
      /\ Task(i).event = i /\ Task(i).pc = "header"
  BY <1>1, TaskAdded
<1>3. TypeOK'
  BY <1>1, <1>2 DEF TypeOK, stores
<1>4. \A b : Coming(b) => Coming(b)'
  BY <1>2 DEF stores, Coming, Stored, Writing
<1>5. ASSUME NEW j \in DOMAIN tasks', tasks'[j].pc \in Holding, NEW b \in ToSet(tasks'[j].read)
      PROVE  Coming(b)
  BY <1>2, <1>5 DEF Inv, ListsInv, Holding
<1>a. ListsInv'
  BY <1>4, <1>5, ListsWait DEF stores
<1>b. LatestInv'
  BY <1>2, LatestWaits DEF stores
<1>c. ParentsInv'
  <2>1. ASSUME NEW j \in DOMAIN tasks', tasks'[j].pc \notin {"header", "lost"}
        PROVE  Rooted(tasks'[j].block)
    BY <1>2, <2>1 DEF Inv, ParentsInv
  <2>. QED
    BY <2>1, ParentsWait DEF stores
<1>6. ListsInv' /\ LatestInv' /\ ParentsInv'
  BY <1>a, <1>b, <1>c
<1>7. JudgedIsStored'
  BY <1>2 DEF Inv, JudgedIsStored, Stored, stores
<1>. QED
  BY <1>3, <1>6, <1>7 DEF Inv

\* Only the listener goes on.
LEMMA ListenInv ==
  ASSUME Inv, listener' \in Listeners, ListenerInv',
         UNCHANGED <<log, stores, tasks, restarts>>
  PROVE  Inv'
<1>1. TypeOK'
  BY DEF Inv, TypeOK, stores
<1>2. \A b : Coming(b) <=> Coming(b)'
  BY DEF Coming, Stored, Writing, stores
<1>3. ListsInv' /\ LatestInv' /\ ParentsInv'
  BY <1>2 DEF Inv, ListsInv, LatestInv, LatestIsComing, ParentsInv, Rooted, Stored, stores
<1>4. JudgedIsStored'
  BY DEF Inv, JudgedIsStored, Stored, stores
<1>. QED
  BY <1>1, <1>3, <1>4 DEF Inv

-----------------------------------------------------------------------------
(* The steps of the node. *)

\* In a node that was just started only genesis is listed.
LEMMA StartedInv ==
  ASSUME Started, log \in Seq(Blocks), restarts \in Nat
  PROVE  Inv
<1>1. /\ listener = [phase |-> "stopped", past |-> 0, next |-> 1]
      /\ blocksDB = {Genesis}
      /\ blockHashes = [h \in Heights |-> IF h = 0 THEN <<Genesis>> ELSE <<>>]
      /\ childHashes = [b \in AllBlocks |-> <<>>]
      /\ latest = 0
      /\ tasks = <<>>
  BY DEF Started
<1>2. Genesis \in AllBlocks /\ <<>> \in Seq(AllBlocks) /\ <<Genesis>> \in Seq(AllBlocks)
  BY DEF AllBlocks
<1>3. TypeOK
  <2>1. listener \in Listeners
    BY <1>1 DEF Listeners
  <2>2. blockHashes \in [Heights -> Seq(AllBlocks)] /\ childHashes \in [AllBlocks -> Seq(AllBlocks)]
    BY <1>1, <1>2
  <2>3. tasks \in Seq(Tasks) /\ blocksDB \subseteq AllBlocks
    BY <1>1, <1>2
  <2>. QED
    BY <1>1, <2>1, <2>2, <2>3 DEF TypeOK
<1>4. ListenerInv
  BY <1>1 DEF ListenerInv
<1>5. ASSUME NEW h \in Heights, NEW b \in ToSet(blockHashes[h])
      PROVE  Coming(b)
  <2>1. blockHashes[h] = <<Genesis>> \/ blockHashes[h] = <<>>
    BY <1>1
  <2>2. b = Genesis
    BY <2>1 DEF ToSet
  <2>. QED
    BY <1>1, <2>2 DEF Coming, Stored
<1>6. ListsInv /\ JudgedIsStored
  BY <1>1, <1>5 DEF ListsInv, JudgedIsStored
<1>7. LatestInv
  <2>1. blockHashes[0] = <<Genesis>> /\ \A h \in Heights : h # 0 => blockHashes[h] = <<>>
    BY <1>1, HeightTypes
  <2>2. <<Genesis>> # <<>>
    OBVIOUS
  <2>. QED
    BY <1>1, <2>1, <2>2, HeightTypes DEF LatestInv, LatestIsComing
<1>8. ParentsInv
  BY <1>1 DEF ParentsInv, Rooted
<1>. QED
  BY <1>3, <1>4, <1>6, <1>7, <1>8 DEF Inv

\* A node begins there.
LEMMA InitInv == Init => Inv
<1>. SUFFICES ASSUME Init PROVE Inv
  OBVIOUS
<1>1. log \in Seq(Blocks) /\ restarts \in Nat
  BY DEF Init
<1>. QED
  BY <1>1, StartedInv DEF Init

\* And is there again after a restart.
LEMMA RestartInv ==
  ASSUME Inv, Restart
  PROVE  Inv'
<1>1. Started'
  BY DEF Restart, Started
<1>2. log' \in Seq(Blocks) /\ restarts' \in Nat
  BY DEF Inv, TypeOK, Restart
<1>3. (Started /\ log \in Seq(Blocks) /\ restarts \in Nat => Inv)'
  BY StartedInv, PTL
<1>. QED
  BY <1>1, <1>2, <1>3

\* A block is submitted.
LEMMA SubmitInv ==
  ASSUME Inv, NEW b \in Blocks, Submit(b)
  PROVE  Inv'
<1>1. /\ log \in Seq(Blocks) /\ log' = Append(log, b)
      /\ UNCHANGED <<listener, blocksDB, blockHashes, childHashes, latest, tasks, restarts>>
  BY DEF Inv, TypeOK, Submit, stores
<1>2. log' \in Seq(Blocks) /\ Len(log') = Len(log) + 1 /\ Len(log) \in Nat
  BY <1>1
<1>3. TypeOK'
  BY <1>1, <1>2 DEF Inv, TypeOK
<1>4. \A i : Handled(i) <=> Handled(i)'
  BY <1>1 DEF Handled
<1>5. ListenerInv'
  <2>1. listener.past <= Len(log) => listener.past <= Len(log')
    BY <1>2 DEF Inv, TypeOK, Listeners
  <2>. QED
    BY <1>1, <1>4, <2>1 DEF Inv, ListenerInv
<1>6. \A c : Coming(c) <=> Coming(c)'
  BY <1>1 DEF Coming, Stored, Writing
<1>7. ListsInv' /\ LatestInv' /\ ParentsInv'
  BY <1>1, <1>6 DEF Inv, ListsInv, LatestInv, LatestIsComing, ParentsInv, Rooted, Stored
<1>8. JudgedIsStored'
  BY <1>1 DEF Inv, JudgedIsStored, Stored
<1>. QED
  BY <1>3, <1>5, <1>7, <1>8 DEF Inv

-----------------------------------------------------------------------------
(* The steps of the listener. *)

\* The listener looks for past events.
LEMMA GetPastEventsInv ==
  ASSUME Inv, GetPastEvents
  PROVE  Inv'
<1>1. /\ log \in Seq(Blocks) /\ Len(log) \in Nat
      /\ listener' = [phase |-> IF log = <<>> THEN "none" ELSE "past",
                      past |-> Len(log), next |-> 1]
      /\ UNCHANGED <<log, stores, tasks, restarts>>
  BY DEF Inv, TypeOK, GetPastEvents
<1>2. listener' \in Listeners
  BY <1>1 DEF Listeners
<1>3. ListenerInv'
  <2>1. log = <<>> => Len(log) = 0
    OBVIOUS
  <2>2. log # <<>> => 1 <= Len(log)
    BY <1>1
  <2>3. \A i \in 1 .. listener'.next - 1 : FALSE
    BY <1>1
  <2>. QED
    BY <1>1, <2>1, <2>2, <2>3 DEF ListenerInv
<1>. QED
  BY <1>1, <1>2, <1>3, ListenInv

\* The listener starts a handler for its next event, and goes to the event
\* after it or, from the last past one, back to that one.
LEMMA HandlePastEventInv ==
  ASSUME Inv, HandlePastEvent
  PROVE  Inv'
<1>0. PICK i \in Nat \ {0}, last \in Nat : i = listener.next /\ last = listener.past
  BY DEF Inv, TypeOK, Listeners
<1>1. /\ listener \in Listeners /\ log \in Seq(Blocks) /\ listener.phase = "past"
      /\ tasks' = Append(tasks, Task(i)) /\ UNCHANGED <<log, stores, restarts>>
  BY <1>0 DEF Inv, TypeOK, HandlePastEvent
<1>2. i \in Nat /\ i # 0 /\ last \in Nat /\ i <= last /\ last <= Len(log) /\ Len(log) \in Nat
  BY <1>0, <1>1 DEF Inv, ListenerInv
<1>3. i \in DOMAIN log
  BY <1>1, <1>2
<1>4. /\ listener'.past = last /\ listener' \in Listeners
      /\ \/ i < last /\ listener'.phase = "past" /\ listener'.next = i + 1
         \/ i = last /\ listener'.phase = "subscribed" /\ listener'.next = last
  <2>1. i < last => listener' = [listener EXCEPT !.next = i + 1]
    BY <1>0 DEF HandlePastEvent
  <2>2. ~(i < last) => listener' = [listener EXCEPT !.phase = "subscribed", !.next = last]
    BY <1>0 DEF HandlePastEvent, Subscribe
  <2>3. CASE i < last
    BY <1>0, <1>1, <1>2, <2>1, <2>3 DEF Listeners
  <2>4. CASE i = last
    <3>1. ~(i < last) /\ last \in Nat \ {0}
      BY <1>2, <2>4
    <3>. QED
      BY <1>0, <1>1, <2>2, <2>4, <3>1 DEF Listeners
  <2>5. i < last \/ i = last
    BY <1>2
  <2>. QED
    BY <2>3, <2>4, <2>5
<1>5. ListenerInv'
  <2>1. /\ DOMAIN tasks \subseteq DOMAIN tasks'
        /\ \A k \in DOMAIN tasks : tasks'[k] = tasks[k]
        /\ \E k \in DOMAIN tasks' : tasks'[k] = Task(i)
        /\ Task(i).event = i
    BY <1>1, <1>3, TaskAdded DEF Inv
  <2>2. Handled(i)'
    BY <2>1 DEF Handled
  <2>3. ASSUME NEW j \in 1 .. i - 1
        PROVE  Handled(j)'
    BY <1>0, <1>1, <2>1, HandledKept DEF Inv, ListenerInv
  <2>4. \A j \in 1 .. i : j = i \/ j \in 1 .. i - 1
    BY <1>2
  <2>5. \A j \in 1 .. listener'.next - 1 : j \in 1 .. i
    BY <1>2, <1>4
  <2>6. \A j \in 1 .. listener'.next - 1 : Handled(j)'
    BY <2>2, <2>3, <2>4, <2>5
  <2>7. listener'.phase = "past" => listener'.next <= last /\ last <= Len(log')
    BY <1>1, <1>2, <1>4
  <2>. QED
    BY <1>4, <2>6, <2>7 DEF ListenerInv
<1>. QED
  BY <1>1, <1>3, <1>4, <1>5, StartInv

\* Without past events nothing is promised of those at the start.
LEMMA GetBlockNumberInv ==
  ASSUME Inv, GetBlockNumber
  PROVE  Inv'
<1>1. PICK next \in {Len(log), Len(log) + 1} \ {0} :
        listener' = [listener EXCEPT !.phase = "subscribed", !.next = next]
  BY DEF GetBlockNumber, Subscribe
<1>2. /\ listener \in Listeners /\ Len(log) \in Nat /\ listener.phase = "none"
      /\ listener.past = 0 /\ UNCHANGED <<log, stores, tasks, restarts>>
  BY DEF Inv, TypeOK, ListenerInv, GetBlockNumber
<1>3. next \in Nat \ {0}
  BY <1>1, <1>2
<1>4. listener' \in Listeners /\ listener'.phase = "subscribed" /\ listener'.past = 0
  BY <1>1, <1>2, <1>3 DEF Listeners
<1>5. ListenerInv'
  BY <1>4 DEF ListenerInv
<1>. QED
  BY <1>2, <1>4, <1>5, ListenInv

\* An event is delivered.
LEMMA DeliverInv ==
  ASSUME Inv, Deliver
  PROVE  Inv'
<1>0. PICK i \in Nat \ {0} : i = listener.next
  BY DEF Inv, TypeOK, Listeners
<1>1. /\ listener \in Listeners /\ listener.phase = "subscribed" /\ i \in DOMAIN log
      /\ tasks' = Append(tasks, Task(i)) /\ listener' = [listener EXCEPT !.next = i + 1]
      /\ UNCHANGED <<log, stores, restarts>>
  BY <1>0 DEF Inv, TypeOK, Deliver
<1>2. i \in Nat /\ i # 0
  BY <1>1
<1>3. /\ listener' \in Listeners /\ listener'.phase = "subscribed"
      /\ listener'.past = listener.past /\ listener'.next = i + 1
  BY <1>1, <1>2 DEF Listeners
<1>4. ListenerInv'
  <2>1. /\ DOMAIN tasks \subseteq DOMAIN tasks'
        /\ \A k \in DOMAIN tasks : tasks'[k] = tasks[k]
        /\ \E k \in DOMAIN tasks' : tasks'[k] = Task(i)
        /\ Task(i).event = i
    BY <1>1, TaskAdded DEF Inv
  <2>2. Handled(i)'
    BY <2>1 DEF Handled
  <2>3. ASSUME listener.past > 0, NEW j \in 1 .. i - 1
        PROVE  Handled(j)'
    BY <1>0, <1>1, <2>1, <2>3, HandledKept DEF Inv, ListenerInv
  <2>4. i + 1 - 1 = i /\ \A j \in 1 .. i : j = i \/ j \in 1 .. i - 1
    BY <1>2
  <2>5. listener.past > 0 => \A j \in 1 .. listener'.next - 1 : Handled(j)'
    BY <1>3, <2>2, <2>3, <2>4
  <2>. QED
    BY <1>3, <2>5 DEF ListenerInv
<1>. QED
  BY <1>1, <1>3, <1>4, StartInv

-----------------------------------------------------------------------------
(* The steps of a handler. *)

\* A handler goes on without a change of the stores.
LEMMA ReadingInv ==
  ASSUME Inv, NEW k \in DOMAIN tasks, NEW pc \in Running \union Ended,
         NEW list \in Seq(AllBlocks), Goto(k, pc) \/ GotoWith(k, pc, list),
         UNCHANGED <<log, listener, stores, restarts>>,
         tasks[k].pc \in {"readChildren", "writeChildren", "store"} =>
            pc \in {"readChildren", "writeChildren", "store"},
         tasks[k].pc # "writeHeight" /\ pc # "writeHeight",
         pc \in Holding =>
            GotoWith(k, pc, list) /\ \A b \in ToSet(list) : Coming(b),
         pc \notin {"header", "lost"} => Rooted(tasks[k].block),
         pc \in {"ok", "challenged"} => Stored(tasks[k].block)
  PROVE  Inv'
<1>1. /\ tasks' \in Seq(Tasks) /\ DOMAIN tasks' = DOMAIN tasks
      /\ \A j \in DOMAIN tasks : /\ tasks'[j].block = tasks[j].block
                                 /\ tasks'[j].event = tasks[j].event
                                 /\ j # k => tasks'[j] = tasks[j]
      /\ tasks'[k].pc = pc
      /\ GotoWith(k, pc, list) => tasks'[k].read = list
  BY TaskMoved DEF Inv
<1>2. UNCHANGED <<blocksDB, blockHashes, childHashes, latest>>
  BY DEF stores
<1>3. TypeOK'
  BY <1>1, <1>2 DEF Inv, TypeOK
<1>4. ListenerInv'
  BY <1>1, ListenerWaits
<1>5. \A b : Coming(b) => Coming(b)'
  BY <1>1, <1>2, ComingKept
<1>6. ASSUME NEW j \in DOMAIN tasks', tasks'[j].pc \in Holding, NEW b \in ToSet(tasks'[j].read)
      PROVE  Coming(b)
  BY <1>1, <1>6 DEF Inv, ListsInv
<1>a. ListsInv'
  BY <1>2, <1>5, <1>6, ListsWait
<1>b. LatestInv'
  BY <1>1, <1>2, LatestWaits
<1>c. ParentsInv'
  <2>1. ASSUME NEW j \in DOMAIN tasks', tasks'[j].pc \notin {"header", "lost"}
        PROVE  Rooted(tasks'[j].block)
    BY <1>1, <2>1 DEF Inv, ParentsInv
  <2>. QED
    BY <1>2, <2>1, ParentsWait
<1>7. ListsInv' /\ LatestInv' /\ ParentsInv'
  BY <1>a, <1>b, <1>c
<1>8. JudgedIsStored'
  BY <1>1, <1>2 DEF Inv, JudgedIsStored, Stored
<1>. QED
  BY <1>3, <1>4, <1>7, <1>8 DEF Inv

\* An audit begins.
LEMMA AuditInv ==
  ASSUME Inv, NEW k \in DOMAIN tasks, Audit(k)
  PROVE  Inv'
<1>1. PICK pc \in {"lost", "proved", "has"} :
        Goto(k, pc) /\ (pc # "lost" => Rooted(tasks[k].block))
  BY DEF Audit, Rooted, Stored
<1>2. pc \in Running \union Ended /\ pc \notin Holding /\ <<>> \in Seq(AllBlocks)
  BY DEF Running, Ended, Holding
<1>3. tasks[k].pc = "header" /\ UNCHANGED <<log, listener, stores, restarts>>
  BY DEF Audit, At
<1>. QED
  BY <1>1, <1>2, <1>3, ReadingInv

\* A block that is stored already is not put again.
LEMMA HasBlockInv ==
  ASSUME Inv, NEW k \in DOMAIN tasks, HasBlock(k)
  PROVE  Inv'
<1>. DEFINE pc == IF tasks[k].block \in blocksDB THEN AfterPut(tasks[k].block) ELSE "readHeight"
<1>1. /\ Goto(k, pc) /\ tasks[k].pc = "has" /\ UNCHANGED <<log, listener, stores, restarts>>
  BY DEF HasBlock, At
<1>2. /\ pc \in Running \union Ended /\ pc # "writeHeight" /\ pc \notin Holding
      /\ <<>> \in Seq(AllBlocks)
  BY DEF Running, Ended, AfterPut, Holding
<1>4. Rooted(tasks[k].block)
  BY <1>1 DEF Inv, ParentsInv
<1>3. pc \in {"ok", "challenged"} => Stored(tasks[k].block)
  BY DEF AfterPut, Stored
<1>. HIDE DEF pc
<1>. QED
  BY <1>1, <1>2, <1>3, <1>4, ReadingInv

\* The list that a handler reads names blocks that are coming.
LEMMA ReadHashesInv ==
  ASSUME Inv, NEW k \in DOMAIN tasks, ReadHashes(k)
  PROVE  Inv'
<1>. DEFINE h == Height[tasks[k].block]
            list == blockHashes[h]
<1>1. /\ GotoWith(k, "setLatest", list) /\ tasks[k].pc = "readHeight"
      /\ UNCHANGED <<log, listener, stores, restarts>>
  BY DEF ReadHashes, At
<1>2. tasks[k] \in Tasks /\ h \in Heights
  BY TaskTypes DEF Inv
<1>3. list \in Seq(AllBlocks) /\ \A b \in ToSet(list) : Coming(b)
  BY <1>2 DEF Inv, TypeOK, ListsInv
<1>4. "setLatest" \in Running \union Ended
  BY DEF Running
<1>5. Rooted(tasks[k].block)
  BY <1>1 DEF Inv, ParentsInv
<1>. HIDE DEF list
<1>. QED
  BY <1>1, <1>3, <1>4, <1>5, ReadingInv

\* So does that of the children.
LEMMA ReadChildrenInv ==
  ASSUME Inv, NEW k \in DOMAIN tasks, ReadChildren(k)
  PROVE  Inv'
<1>. DEFINE list == childHashes[Parent[tasks[k].block]]
<1>1. /\ GotoWith(k, "writeChildren", list) /\ tasks[k].pc = "readChildren"
      /\ UNCHANGED <<log, listener, stores, restarts>>
  BY DEF ReadChildren, At
<1>2. tasks[k] \in Tasks /\ Parent[tasks[k].block] \in AllBlocks
  BY TaskTypes DEF Inv
<1>3. list \in Seq(AllBlocks)
  BY <1>2 DEF Inv, TypeOK
<1>4. "writeChildren" \in Running \union Ended /\ "writeChildren" \notin Holding
  BY DEF Running, Holding
<1>5. Rooted(tasks[k].block)
  BY <1>1 DEF Inv, ParentsInv
<1>. HIDE DEF list
<1>. QED
  BY <1>1, <1>3, <1>4, <1>5, ReadingInv

\* The latest height is raised for a list that is about to be written.
LEMMA SetLatestInv ==
  ASSUME Inv, NEW k \in DOMAIN tasks, SetLatest(k)
  PROVE  Inv'
<1>. DEFINE h == Height[tasks[k].block]
<1>1. /\ tasks[k].pc = "setLatest"
      /\ latest' = (IF h >= latest THEN h ELSE latest)
      /\ Goto(k, "writeHeight")
      /\ UNCHANGED <<log, listener, blocksDB, blockHashes, childHashes, restarts>>
  BY DEF SetLatest, At
<1>2. /\ tasks[k] \in Tasks /\ h \in Heights /\ h \in Nat
  BY TaskTypes DEF Inv
<1>3. "writeHeight" \in Running \union Ended /\ <<>> \in Seq(AllBlocks)
  BY DEF Running
<1>4. /\ tasks' \in Seq(Tasks) /\ DOMAIN tasks' = DOMAIN tasks
      /\ \A j \in DOMAIN tasks : /\ tasks'[j].block = tasks[j].block
                                 /\ tasks'[j].event = tasks[j].event
                                 /\ j # k => tasks'[j] = tasks[j]
      /\ tasks'[k].pc = "writeHeight"
  BY <1>1, <1>3, TaskMoved DEF Inv
<1>5. tasks'[k].read = tasks[k].read
  BY <1>1, <1>2 DEF Inv, TypeOK, Tasks, Goto
<1>6. LatestInv /\ latest \in Nat
  BY DEF Inv, TypeOK
<1>7. latest' \in Nat /\ latest' \in Heights /\ latest <= latest' /\ h <= latest'
  BY <1>1, <1>2, <1>6 DEF LatestInv
<1>8. TypeOK'
  BY <1>1, <1>4, <1>7 DEF Inv, TypeOK
<1>9. ListenerInv'
  BY <1>1, <1>4, ListenerWaits
<1>10. \A c : Coming(c) => Coming(c)'
  BY <1>1, <1>4, ComingKept
<1>11. ListsInv'
  <2>1. ASSUME NEW j \in DOMAIN tasks', tasks'[j].pc \in Holding, NEW b \in ToSet(tasks'[j].read)
        PROVE  Coming(b)
    <3>1. tasks[j].pc \in Holding /\ tasks'[j].read = tasks[j].read
      BY <1>1, <1>4, <1>5, <2>1 DEF Holding
    <3>. QED
      BY <1>4, <2>1, <3>1 DEF Inv, ListsInv
  <2>. QED
    BY <1>1, <1>10, <2>1, ListsWait
<1>12. LatestInv'
  <2>1. ASSUME NEW g \in Heights, g <= latest PROVE g <= latest'
    BY <1>6, <1>7, <2>1, HeightTypes
  <2>2. \A g \in Heights : blockHashes'[g] # <<>> => g <= latest'
    BY <1>1, <1>6, <2>1 DEF LatestInv, LatestIsComing
  <2>3. \/ blockHashes'[latest'] # <<>>
        \/ \E j \in DOMAIN tasks' :
              Height[tasks'[j].block] = latest' /\ tasks'[j].pc = "writeHeight"
    <3>1. CASE latest' = h
      BY <1>4, <3>1
    <3>2. CASE latest' # h
      <4>1. latest' = latest
        BY <1>1, <3>2
      <4>2. CASE blockHashes[latest] # <<>>
        BY <1>1, <4>1, <4>2
      <4>3. ASSUME NEW j \in DOMAIN tasks, Height[tasks[j].block] = latest,
                   tasks[j].pc = "writeHeight"
            PROVE  Height[tasks'[j].block] = latest' /\ tasks'[j].pc = "writeHeight"
        BY <1>1, <1>4, <4>1, <4>3
      <4>. QED
        BY <1>4, <1>6, <4>2, <4>3 DEF LatestInv, LatestIsComing
    <3>. QED
      BY <3>1, <3>2
  <2>4. ASSUME NEW j \in DOMAIN tasks', tasks'[j].pc = "writeHeight"
        PROVE  Height[tasks'[j].block] <= latest'
    <3>1. CASE j = k
      BY <1>4, <1>7, <3>1
    <3>2. CASE j # k
      <4>1. Height[tasks[j].block] <= latest /\ Height[tasks[j].block] \in Heights
        BY <1>4, <1>6, <2>4, <3>2, TaskTypes DEF LatestInv, Inv
      <4>. QED
        BY <1>4, <2>1, <4>1
    <3>. QED
      BY <3>1, <3>2
  <2>. QED
    BY <1>7, <2>2, <2>3, <2>4 DEF LatestInv, LatestIsComing
<1>13. ParentsInv'
  <2>1. ASSUME NEW j \in DOMAIN tasks', tasks'[j].pc \notin {"header", "lost"}
        PROVE  Rooted(tasks'[j].block)
    BY <1>1, <1>4, <2>1 DEF Inv, ParentsInv
  <2>. QED
    BY <1>1, <2>1, ParentsWait
<1>14. JudgedIsStored'
  BY <1>1, <1>4 DEF Inv, JudgedIsStored, Stored
<1>. QED
  BY <1>8, <1>9, <1>11, <1>12, <1>13, <1>14 DEF Inv

\* The list of a height is written back with one block more, whose handler
\* is about to store it.
LEMMA WriteHashesInv ==
  ASSUME Inv, NEW k \in DOMAIN tasks, WriteHashes(k)
  PROVE  Inv'
<1>. DEFINE b == tasks[k].block
            h == Height[b]
            list == Append(tasks[k].read, b)
<1>1. /\ tasks[k].pc = "writeHeight"
      /\ blockHashes' = [blockHashes EXCEPT ![h] = list]
      /\ GotoWith(k, "readChildren", <<>>)
      /\ UNCHANGED <<log, listener, blocksDB, childHashes, latest, restarts>>
  BY DEF WriteHashes, At
<1>2. /\ tasks[k] \in Tasks /\ b \in AllBlocks /\ h \in Heights /\ h \in Nat
      /\ tasks[k].read \in Seq(AllBlocks)
  BY TaskTypes DEF Inv
<1>3. /\ list \in Seq(AllBlocks) /\ list # <<>>
      /\ \A c \in ToSet(list) : c \in ToSet(tasks[k].read) \/ c = b
  BY <1>2, ListOfAppend
<1>4. "readChildren" \in Running \union Ended /\ <<>> \in Seq(AllBlocks)
  BY DEF Running
<1>5. /\ tasks' \in Seq(Tasks) /\ DOMAIN tasks' = DOMAIN tasks
      /\ \A j \in DOMAIN tasks : /\ tasks'[j].block = tasks[j].block
                                 /\ tasks'[j].event = tasks[j].event
                                 /\ j # k => tasks'[j] = tasks[j]
      /\ tasks'[k].pc = "readChildren"
  BY <1>1, <1>4, TaskMoved DEF Inv
<1>6. /\ blockHashes \in [Heights -> Seq(AllBlocks)] /\ latest \in Nat
  BY DEF Inv, TypeOK
<1>. HIDE DEF list
<1>7. /\ blockHashes' \in [Heights -> Seq(AllBlocks)]
      /\ blockHashes'[h] = list
      /\ \A g \in Heights : g # h => blockHashes'[g] = blockHashes[g]
  BY <1>1, <1>2, <1>3, <1>6
<1>8. TypeOK'
  BY <1>1, <1>2, <1>5, <1>6, <1>7 DEF Inv, TypeOK
<1>9. ListenerInv'
  BY <1>1, <1>5, ListenerWaits
<1>10. \A c : Coming(c) => Coming(c)'
  BY <1>1, <1>5, ComingKept
<1>11. \A c \in ToSet(list) : Coming(c)'
  <2>1. Writing(k, b)'
    BY <1>5 DEF Writing
  <2>2. ASSUME NEW c \in ToSet(list), c = b
        PROVE  Coming(c)'
    BY <1>5, <2>2 DEF Writing, Coming
  <2>3. \A c \in ToSet(tasks[k].read) : Coming(c)
    BY <1>1 DEF Inv, ListsInv, Holding
  <2>. QED
    BY <1>3, <1>10, <2>2, <2>3
<1>12. ListsInv'
  <2>1. ASSUME NEW g \in Heights, NEW c \in ToSet(blockHashes'[g])
        PROVE  Coming(c)'
    BY <1>7, <1>10, <1>11 DEF Inv, ListsInv
  <2>2. ASSUME NEW j \in DOMAIN tasks', tasks'[j].pc \in Holding,
               NEW c \in ToSet(tasks'[j].read)
        PROVE  Coming(c)'
    BY <1>5, <1>10, <2>2 DEF Inv, ListsInv, Holding
  <2>. QED
    BY <2>1, <2>2 DEF ListsInv
<1>13. LatestInv'
  <2>1. LatestInv /\ latest' = latest /\ h <= latest
    BY <1>1 DEF Inv, LatestInv
  <2>2. \A g \in Heights : blockHashes'[g] # <<>> => g <= latest
    BY <1>7, <2>1 DEF LatestInv, LatestIsComing
  <2>3. \/ blockHashes'[latest] # <<>>
        \/ \E j \in DOMAIN tasks' :
              Height[tasks'[j].block] = latest /\ tasks'[j].pc = "writeHeight"
    <3>1. CASE latest = h
      BY <1>3, <1>7, <3>1
    <3>2. CASE latest # h
      <4>1. CASE blockHashes[latest] # <<>>
        BY <1>7, <2>1, <3>2, <4>1 DEF LatestInv
      <4>2. ASSUME NEW j \in DOMAIN tasks, Height[tasks[j].block] = latest,
                   tasks[j].pc = "writeHeight"
            PROVE  Height[tasks'[j].block] = latest /\ tasks'[j].pc = "writeHeight"
        BY <1>5, <3>2, <4>2
      <4>. QED
        BY <1>5, <2>1, <4>1, <4>2 DEF LatestInv, LatestIsComing
    <3>. QED
      BY <3>1, <3>2
  <2>4. ASSUME NEW j \in DOMAIN tasks', tasks'[j].pc = "writeHeight"
        PROVE  Height[tasks'[j].block] <= latest
    BY <1>5, <2>1, <2>4 DEF LatestInv
  <2>. QED
    BY <2>1, <2>2, <2>3, <2>4 DEF LatestInv, LatestIsComing
<1>15. ParentsInv'
  <2>1. ASSUME NEW j \in DOMAIN tasks', tasks'[j].pc \notin {"header", "lost"}
        PROVE  Rooted(tasks'[j].block)
    BY <1>1, <1>5, <2>1 DEF Inv, ParentsInv
  <2>. QED
    BY <1>1, <2>1, ParentsWait
<1>14. JudgedIsStored'
  BY <1>1, <1>5 DEF Inv, JudgedIsStored, Stored
<1>. QED
  BY <1>8, <1>9, <1>12, <1>13, <1>14, <1>15 DEF Inv

\* The list of the children is written.
LEMMA WriteChildrenInv ==
  ASSUME Inv, NEW k \in DOMAIN tasks, WriteChildren(k)
  PROVE  Inv'
<1>. DEFINE b == tasks[k].block
            list == Append(tasks[k].read, b)
<1>1. /\ tasks[k].pc = "writeChildren"
      /\ childHashes' = [childHashes EXCEPT ![Parent[b]] = list]
      /\ GotoWith(k, "store", <<>>)
      /\ UNCHANGED <<log, listener, blocksDB, blockHashes, latest, restarts>>
  BY DEF WriteChildren, At
<1>2. /\ tasks[k] \in Tasks /\ b \in AllBlocks /\ Parent[b] \in AllBlocks
      /\ list \in Seq(AllBlocks)
  BY TaskTypes DEF Inv
<1>3. "store" \in Running \union Ended /\ <<>> \in Seq(AllBlocks)
  BY DEF Running
<1>4. /\ tasks' \in Seq(Tasks) /\ DOMAIN tasks' = DOMAIN tasks
      /\ \A j \in DOMAIN tasks : /\ tasks'[j].block = tasks[j].block
                                 /\ tasks'[j].event = tasks[j].event
                                 /\ j # k => tasks'[j] = tasks[j]
      /\ tasks'[k].pc = "store"
  BY <1>1, <1>3, TaskMoved DEF Inv
<1>. HIDE DEF list
<1>5. TypeOK'
  BY <1>1, <1>2, <1>4 DEF Inv, TypeOK
<1>6. ListenerInv'
  BY <1>1, <1>4, ListenerWaits
<1>7. \A c : Coming(c) => Coming(c)'
  BY <1>1, <1>4, ComingKept
<1>8. ASSUME NEW j \in DOMAIN tasks', tasks'[j].pc \in Holding, NEW c \in ToSet(tasks'[j].read)
      PROVE  Coming(c)
  BY <1>4, <1>8 DEF Inv, ListsInv, Holding
<1>a. ListsInv'
  BY <1>1, <1>7, <1>8, ListsWait
<1>b. LatestInv'
  BY <1>1, <1>4, LatestWaits
<1>c. ParentsInv'
  <2>1. ASSUME NEW j \in DOMAIN tasks', tasks'[j].pc \notin {"header", "lost"}
        PROVE  Rooted(tasks'[j].block)
    BY <1>1, <1>4, <2>1 DEF Inv, ParentsInv
  <2>. QED
    BY <1>1, <2>1, ParentsWait
<1>9. ListsInv' /\ LatestInv' /\ ParentsInv'
  BY <1>a, <1>b, <1>c
<1>10. JudgedIsStored'
  BY <1>1, <1>4 DEF Inv, JudgedIsStored, Stored
<1>. QED
  BY <1>5, <1>6, <1>9, <1>10 DEF Inv

\* The block is stored, and is coming no more but there.
LEMMA StoreBlockInv ==
  ASSUME Inv, NEW k \in DOMAIN tasks, StoreBlock(k)
  PROVE  Inv'
<1>. DEFINE b == tasks[k].block
            pc == AfterPut(b)
<1>1. /\ tasks[k].pc = "store" /\ blocksDB' = blocksDB \union {b} /\ Goto(k, pc)
      /\ UNCHANGED <<log, listener, blockHashes, childHashes, latest, restarts>>
  BY DEF StoreBlock, At
<1>2. tasks[k] \in Tasks /\ b \in AllBlocks
  BY TaskTypes DEF Inv
<1>3. /\ pc \in Running \union Ended /\ pc # "writeHeight" /\ pc \notin Holding
      /\ <<>> \in Seq(AllBlocks)
  BY DEF Ended, AfterPut, Holding
<1>. HIDE DEF pc
<1>4. /\ tasks' \in Seq(Tasks) /\ DOMAIN tasks' = DOMAIN tasks
      /\ \A j \in DOMAIN tasks : /\ tasks'[j].block = tasks[j].block
                                 /\ tasks'[j].event = tasks[j].event
                                 /\ j # k => tasks'[j] = tasks[j]
      /\ tasks'[k].pc = pc
  BY <1>1, <1>3, TaskMoved DEF Inv
<1>5. TypeOK'
  BY <1>1, <1>2, <1>4 DEF Inv, TypeOK
<1>6. ListenerInv'
  BY <1>1, <1>4, ListenerWaits
<1>7. ASSUME NEW c, Coming(c) PROVE Coming(c)'
  <2>1. ASSUME NEW j \in DOMAIN tasks, Writing(j, c)
        PROVE  Coming(c)'
    <3>1. CASE j = k
      BY <1>1, <2>1, <3>1 DEF Writing, Coming, Stored
    <3>2. CASE j # k
      BY <1>4, <2>1, <3>2 DEF Writing, Coming
    <3>. QED
      BY <3>1, <3>2
  <2>2. Stored(c) => Coming(c)'
    BY <1>1 DEF Stored, Coming
  <2>. QED
    BY <1>7, <2>1, <2>2 DEF Coming
<1>8. ListsInv'
  <2>1. ASSUME NEW j \in DOMAIN tasks', tasks'[j].pc \in Holding, NEW c \in ToSet(tasks'[j].read)
        PROVE  Coming(c)'
    BY <1>3, <1>4, <1>7, <2>1 DEF Inv, ListsInv
  <2>2. \A g \in Heights : \A c \in ToSet(blockHashes'[g]) : Coming(c)'
    BY <1>1, <1>7 DEF Inv, ListsInv
  <2>. QED
    BY <2>1, <2>2 DEF ListsInv
<1>9. LatestInv'
  BY <1>1, <1>3, <1>4, LatestWaits
<1>11. ParentsInv'
  <2>1. Rooted(b)
    BY <1>1 DEF Inv, ParentsInv
  <2>2. ASSUME NEW j \in DOMAIN tasks', tasks'[j].pc \notin {"header", "lost"}
        PROVE  Rooted(tasks'[j].block)
    BY <1>4, <2>1, <2>2 DEF Inv, ParentsInv
  <2>. QED
    BY <1>1, <2>1, <2>2, ParentsWait
<1>10. JudgedIsStored'
  BY <1>1, <1>4 DEF Inv, JudgedIsStored, Stored
<1>. QED
  BY <1>5, <1>6, <1>8, <1>9, <1>10, <1>11 DEF Inv

\* Nothing that happens breaks the invariant.
LEMMA NextInv == Inv /\ [Next]_vars => Inv'
<1>. SUFFICES ASSUME Inv, [Next]_vars PROVE Inv'
  OBVIOUS
<1>1. CASE ListenerStep
  BY <1>1, GetPastEventsInv, HandlePastEventInv, GetBlockNumberInv, DeliverInv DEF ListenerStep
<1>2. ASSUME NEW k \in DOMAIN tasks, TaskStep(k) PROVE Inv'
  BY <1>2, AuditInv, HasBlockInv, ReadHashesInv, SetLatestInv, WriteHashesInv, ReadChildrenInv,
     WriteChildrenInv, StoreBlockInv DEF TaskStep
<1>3. CASE UNCHANGED vars
  <2>1. UNCHANGED <<log, stores, tasks, restarts, listener>>
    BY <1>3 DEF vars
  <2>2. ListenerInv'
    BY <2>1, ListenerWaits
  <2>3. listener' \in Listeners
    BY <2>1 DEF Inv, TypeOK
  <2>. QED
    BY <2>1, <2>2, <2>3, ListenInv
<1>. QED
  BY <1>1, <1>2, <1>3, RestartInv, SubmitInv DEF Next

\* The invariant holds in all states that a node reaches.
LEMMA Invariant == Spec => []Inv
BY InitInv, NextInv, PTL DEF Spec

-----------------------------------------------------------------------------
(* What is promised. *)

\* The databases, the listener and the handlers are of their types.
THEOREM Types == Spec => []TypeOK
<1>1. Inv => TypeOK
  BY DEF Inv
<1>. QED
  BY <1>1, Invariant, PTL

\* The hash of a block is listed only if the block is stored or a handler is
\* about to store it, although handlers write lists that they read earlier.
THEOREM Listed == Spec => []ListedIsComing
<1>1. Inv => ListedIsComing
  BY DEF Inv, ListsInv, Coming, Writing, ListedIsComing
<1>. QED
  BY <1>1, Invariant, PTL

\* A subscribed node that found past events at its start has begun to handle
\* every event before the next one it awaits, whatever was submitted while
\* it started.  A handler may have ended as lost.
THEOREM Skipped == Spec => []NothingSkipped
<1>1. Inv => NothingSkipped
  BY DEF Inv, ListenerInv, NothingSkipped
<1>. QED
  BY <1>1, Invariant, PTL

\* No listed block is higher than the latest height, which is that of a
\* block that is listed or that a handler is about to list.
THEOREM Latest == Spec => []LatestIsComing
<1>1. Inv => LatestIsComing
  BY DEF Inv, LatestInv
<1>. QED
  BY <1>1, Invariant, PTL

\* What is judged well or challenged is stored, and what is stored, but
\* genesis, has its parent stored.
Founded ==
    /\ JudgedIsStored
    /\ \A b \in blocksDB \ {Genesis} : Stored(Parent[b])

\* A block that the node judges well, or challenges, is stored, and so are
\* its parent and, step by step, all blocks before it (checkHeader and
\* putBlock, however their awaits are interleaved).
THEOREM Judged == Spec => []Founded
<1>1. Inv => Founded
  BY DEF Inv, ParentsInv, Rooted, Founded
<1>. QED
  BY <1>1, Invariant, PTL
=============================================================================

------------------------------- MODULE Monitor -------------------------------
(***************************************************************************)
(* The node that audits submitted blocks, packages/monitor: the listener   *)
(* for BlockSubmitted (parent-listeners/event-listener.ts and              *)
(* block-submission-listener.ts), the handler of the auditor               *)
(* (auditor/index.ts) and the block databases (db/).                       *)
(*                                                                         *)
(* One thread runs every handler up to its next await; the audits of       *)
(* several blocks are therefore interleaved there.  tasks holds one record *)
(* per delivered event, and a step of a task is one operation on a         *)
(* database or on the parent chain together with the code up to the next.  *)
(* The databases live in memory: a restart begins with genesis alone.  The *)
(* position that the listener keeps in its database is therefore read only *)
(* at a start that finds none, and is left out.                            *)
(*                                                                         *)
(* A definition under a comment line that begins with \* is a mistaken     *)
(* form of the one after it, which no specification uses: it shows which   *)
(* property notices which mistake.                                         *)
(***************************************************************************)
EXTENDS Integers, FiniteSets, SequencesExt

CONSTANTS
    Blocks,        \* the block hashes that may be submitted
    Genesis,
    Parent,        \* Parent[b] is header.parentHash
    Height,        \* Height[b] is header.number
    Verdict,       \* what an audit of b on the state of its parent comes to
    MaxSubmitted,  \* bound on the BlockSubmitted events
    MaxRunning,    \* bound on the handlers that run at the same time
    MaxRestarts    \* bound on restarts of the node

Verdicts == {"ok", "provable", "challenge", "throws"}
AllBlocks == Blocks \union {Genesis}
Heights == {Height[b] : b \in AllBlocks}

ASSUME BlockAssumption ==
    /\ Genesis \notin Blocks
    /\ Parent \in [Blocks -> AllBlocks]
    /\ Height \in [AllBlocks -> Nat]
    /\ Height[Genesis] = 0
    /\ Verdict \in [Blocks -> Verdicts]

VARIABLES
    log,          \* the blocks of the BlockSubmitted events, one per parent block
    listener,     \* the EventListener: phase, number of past events, next event
    blocksDB,     \* the blocks in BlockDatabase
    blockHashes,  \* height -> its list in BlockHashDatabase
    childHashes,  \* parent hash -> its list in BlockHashDatabase
    latest,       \* _latest of BlockHashDatabase
    tasks,        \* the handlers started in this run of the node
    restarts      \* how often the node was started again

stores == <<blocksDB, blockHashes, childHashes, latest>>
vars == <<log, listener, stores, tasks, restarts>>

Running == {"header", "has", "readHeight", "setLatest",
            "writeHeight", "readChildren", "writeChildren", "store"}
Ended == {"ok", "challenged", "proved", "lost"}

(* A handler for the i-th event.                                           *)
Task(i) == [block |-> log[i], event |-> i, pc |-> "header", read |-> <<>>]

-----------------------------------------------------------------------------
(* Database.create puts genesis into the empty databases.                  *)
Started ==
    /\ listener = [phase |-> "stopped", past |-> 0, next |-> 1]
    /\ blocksDB = {Genesis}
    /\ blockHashes = [h \in Heights |-> IF h = 0 THEN <<Genesis>> ELSE <<>>]
    /\ childHashes = [b \in AllBlocks |-> <<>>]
    /\ latest = 0
    /\ tasks = <<>>

Init ==
    /\ log = <<>>
    /\ restarts = 0
    /\ Started

(* submitBlock only takes a block whose parent was submitted.              *)
Submit(b) ==
    /\ Len(log) < MaxSubmitted
    /\ Parent[b] \in {Genesis} \union ToSet(log)
    /\ log' = Append(log, b)
    /\ UNCHANGED <<listener, stores, tasks, restarts>>

\* Keeps the lists of hashes, but not the blocks.
RestartKeepsHashes ==
    /\ restarts < MaxRestarts
    /\ restarts' = restarts + 1
    /\ listener' = [phase |-> "stopped", past |-> 0, next |-> 1]
    /\ blocksDB' = {Genesis}
    /\ tasks' = <<>>
    /\ UNCHANGED <<log, blockHashes, childHashes, latest>>

Restart ==
    /\ restarts < MaxRestarts
    /\ restarts' = restarts + 1
    /\ listener' = [phase |-> "stopped", past |-> 0, next |-> 1]
    /\ blocksDB' = {Genesis}
    /\ blockHashes' = [h \in Heights |-> IF h = 0 THEN <<Genesis>> ELSE <<>>]
    /\ childHashes' = [b \in AllBlocks |-> <<>>]
    /\ latest' = 0
    /\ tasks' = <<>>
    /\ UNCHANGED log

-----------------------------------------------------------------------------
(* EventListener.start.                                                    *)

Subscribe(next) ==
    listener' = [listener EXCEPT !.phase = "subscribed", !.next = next]

CanStart == Cardinality({k \in DOMAIN tasks : tasks[k].pc \in Running}) < MaxRunning

(* There is no position yet: the past events are read.                     *)
GetPastEvents ==
    /\ listener.phase = "stopped"
    /\ listener' = [phase |-> IF log = <<>> THEN "none" ELSE "past",
                    past |-> Len(log), next |-> 1]
    /\ UNCHANGED <<log, stores, tasks, restarts>>

\* Subscribes from the current block in every case.
HandlePastThenNow ==
    /\ listener.phase = "past"
    /\ CanStart
    /\ tasks' = Append(tasks, Task(listener.next))
    /\ IF listener.next < listener.past
       THEN listener' = [listener EXCEPT !.next = @ + 1]
       ELSE Subscribe(Len(log))
    /\ UNCHANGED <<log, stores, restarts>>

(* The past events are handled one after the other; the audit that each    *)
(* starts is not awaited.  After the last one the listener subscribes from *)
(* the block of that event, which it will get once more.                   *)
HandlePastEvent ==
    /\ listener.phase = "past"
    /\ CanStart
    /\ tasks' = Append(tasks, Task(listener.next))
    /\ IF listener.next < listener.past
       THEN listener' = [listener EXCEPT !.next = @ + 1]
       ELSE Subscribe(listener.past)
    /\ UNCHANGED <<log, stores, restarts>>

(* There were none: it subscribes from the current block, which may be     *)
(* later than the block in which it looked, and is the one of the last     *)
(* event or a later one.                                                   *)
GetBlockNumber ==
    /\ listener.phase = "none"
    /\ \E next \in {Len(log), Len(log) + 1} \ {0} : Subscribe(next)
    /\ UNCHANGED <<log, stores, tasks, restarts>>

(* The callback of the subscription.  It awaits the transaction of the     *)
(* event and emits block-submitted, whose handler begins with checkHeader. *)
Deliver ==
    /\ listener.phase = "subscribed"
    /\ listener.next \in DOMAIN log
    /\ CanStart
    /\ tasks' = Append(tasks, Task(listener.next))
    /\ listener' = [listener EXCEPT !.next = @ + 1]
    /\ UNCHANGED <<log, stores, restarts>>

-----------------------------------------------------------------------------
At(k, pc) == k \in DOMAIN tasks /\ tasks[k].pc = pc
Goto(k, pc) == tasks' = [tasks EXCEPT ![k].pc = pc]
GotoWith(k, pc, list) == tasks' = [tasks EXCEPT ![k].pc = pc, ![k].read = list]

(* checkHeader reads the parent from the database.  An unknown parent is   *)
(* an unexpected error: it is logged and the block is not looked at again. *)
(* What the rest of the audit reads does not change any more.              *)
Audit(k) ==
    /\ At(k, "header")
    /\ LET b == tasks[k].block IN
          Goto(k, CASE Parent[b] \notin blocksDB \/ Verdict[b] = "throws" -> "lost"
                    [] Parent[b] \in blocksDB /\ Verdict[b] = "provable" -> "proved"
                    [] OTHER -> "has")
    /\ UNCHANGED <<log, listener, stores, restarts>>

(* proveError and challengeBlock send a transaction; that it may fail is   *)
(* logged, or rejects a promise nobody waits for, and changes nothing.     *)
AfterPut(b) == IF Verdict[b] = "challenge" THEN "challenged" ELSE "ok"

(* Database.putBlock.                                                      *)
HasBlock(k) ==
    /\ At(k, "has")
    /\ Goto(k, IF tasks[k].block \in blocksDB
               THEN AfterPut(tasks[k].block) ELSE "readHeight")
    /\ UNCHANGED <<log, listener, stores, restarts>>

ReadHashes(k) ==
    /\ At(k, "readHeight")
    /\ GotoWith(k, "setLatest", blockHashes[Height[tasks[k].block]])
    /\ UNCHANGED <<log, listener, stores, restarts>>

\* Takes every height that is put for the latest.
SetAnyLatest(k) ==
    /\ At(k, "setLatest")
    /\ latest' = Height[tasks[k].block]
    /\ Goto(k, "writeHeight")
    /\ UNCHANGED <<log, listener, blocksDB, blockHashes, childHashes, restarts>>

(* BlockHashDatabase.update sets _latest at once and awaits two writes: of *)
(* that height, which is only read when the database is opened, and of the *)
(* list.                                                                   *)
SetLatest(k) ==
    /\ At(k, "setLatest")
    /\ latest' = IF Height[tasks[k].block] >= latest THEN Height[tasks[k].block] ELSE latest
    /\ Goto(k, "writeHeight")
    /\ UNCHANGED <<log, listener, blocksDB, blockHashes, childHashes, restarts>>

WriteHashes(k) ==
    /\ At(k, "writeHeight")
    /\ blockHashes' = [blockHashes EXCEPT ![Height[tasks[k].block]] =
                          Append(tasks[k].read, tasks[k].block)]
    /\ GotoWith(k, "readChildren", <<>>)
    /\ UNCHANGED <<log, listener, blocksDB, childHashes, latest, restarts>>

ReadChildren(k) ==
    /\ At(k, "readChildren")
    /\ GotoWith(k, "writeChildren", childHashes[Parent[tasks[k].block]])
    /\ UNCHANGED <<log, listener, stores, restarts>>

\* Writes only if the list is still the one that was read, and never retries.
WriteIfUnchanged(k) ==
    /\ At(k, "writeChildren")
    /\ tasks[k].read = childHashes[Parent[tasks[k].block]]
    /\ childHashes' = [childHashes EXCEPT ![Parent[tasks[k].block]] =
                          Append(tasks[k].read, tasks[k].block)]
    /\ GotoWith(k, "store", <<>>)
    /\ UNCHANGED <<log, listener, blocksDB, blockHashes, latest, restarts>>

WriteChildren(k) ==
    /\ At(k, "writeChildren")
    /\ childHashes' = [childHashes EXCEPT ![Parent[tasks[k].block]] =
                          Append(tasks[k].read, tasks[k].block)]
    /\ GotoWith(k, "store", <<>>)
    /\ UNCHANGED <<log, listener, blocksDB, blockHashes, latest,
                   restarts>>

StoreBlock(k) ==
    /\ At(k, "store")
    /\ blocksDB' = blocksDB \union {tasks[k].block}
    /\ Goto(k, AfterPut(tasks[k].block))
    /\ UNCHANGED <<log, listener, blockHashes, childHashes, latest,
                   restarts>>

TaskStep(k) ==
    \/ Audit(k)
    \/ HasBlock(k) \/ ReadHashes(k) \/ SetLatest(k) \/ WriteHashes(k)
    \/ ReadChildren(k) \/ WriteChildren(k) \/ StoreBlock(k)

ListenerStep == GetPastEvents \/ HandlePastEvent \/ GetBlockNumber \/ Deliver

Next ==
    \/ \E b \in Blocks : Submit(b)
    \/ Restart
    \/ ListenerStep
    \/ \E k \in DOMAIN tasks : TaskStep(k)

(* The event loop runs every handler whose operation has ended.            *)
MaxTasks == 2 * MaxSubmitted
Fairness == WF_vars(ListenerStep) /\ \A k \in 1 .. MaxTasks : WF_vars(TaskStep(k))

Spec == Init /\ [][Next]_vars /\ Fairness

-----------------------------------------------------------------------------
Stored(b) == b \in blocksDB

(* The hash of a block is listed before the block is stored.  A hash that  *)
(* getBlock finds in the list of a height belongs to a block that is there *)
(* or that some handler is about to put.                                   *)
ListedIsComing ==
    \A h \in Heights : \A b \in ToSet(blockHashes[h]) :
        \/ Stored(b)
        \/ \E k \in DOMAIN tasks :
              tasks[k].block = b /\ tasks[k].pc \in {"readChildren", "writeChildren", "store"}

(* No listed block is higher than the latest height, in whatever order     *)
(* blocks of several heights are put, and some block of that height is     *)
(* listed, or about to be: latest() may ask for the list before it is      *)
(* there, and never asks for one that nobody writes.                       *)
LatestIsComing ==
    /\ \A h \in Heights : blockHashes[h] # <<>> => h <= latest
    /\ \/ blockHashes[latest] # <<>>
       \/ \E k \in DOMAIN tasks : Height[tasks[k].block] = latest /\ tasks[k].pc = "writeHeight"

(* An event has a handler.  The handler may still have ended as lost.      *)
Handled(i) == \E k \in DOMAIN tasks : tasks[k].event = i

(* A node that found past events at its start and has subscribed has begun *)
(* to handle each event before the next one it awaits, whatever the parent *)
(* chain did while it was starting.                                        *)
NothingSkipped ==
    listener.phase = "subscribed" /\ listener.past > 0 =>
        \A i \in 1 .. listener.next - 1 : Handled(i)

(* A block whose event is still to come to a node that has its parent is   *)
(* judged in the end, however many other audits run, unless the node is    *)
(* started again.                                                          *)
JudgedIfParentKnown ==
    \A i \in 1 .. MaxSubmitted :
        (/\ i \in DOMAIN log
         /\ listener.phase = "subscribed" /\ listener.next =< i
         /\ Stored(Parent[log[i]])
         /\ Verdict[log[i]] # "throws")
        ~> \/ listener.phase # "subscribed"
           \/ \E k \in DOMAIN tasks :
                 /\ i \in DOMAIN log /\ tasks[k].block = log[i]
                 /\ tasks[k].pc \in Ended \ {"lost"}
=============================================================================

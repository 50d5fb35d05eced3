--------------------------- MODULE ChallengeMonitor ---------------------------
(***************************************************************************)
(* The node of an operator that answers challenges, packages/monitor:      *)
(* challenge-monitor/index.ts with the listeners for BlockChallenge and    *)
(* ChallengeResponse (parent-listeners/) and the records of challenges     *)
(* (db/challenge-database.ts, packages/block/src/block-challenge.ts).      *)
(*                                                                         *)
(* As in Monitor one thread runs each handler up to its next await, and    *)
(* the databases live in memory.  A handler reads the record of a block,   *)
(* changes it and writes it back; the event of a challenge then makes the  *)
(* monitor execute the block up to the challenged transaction and send its *)
(* witness to the peg, of which here is only what concerns answers.        *)
(*                                                                         *)
(* A definition under a comment line that begins with \* is a mistaken     *)
(* form of the one after it, which no specification uses: it shows which   *)
(* property notices which mistake.                                         *)
(***************************************************************************)
EXTENDS Integers, FiniteSets, SequencesExt

CONSTANTS
    Blocks,        \* submitted blocks
    Own,           \* those of this operator
    Transactions,  \* indexes of transactions of a block
    Throwing,      \* transactions that runTx does not get through: the nonce or
                   \* the balance is wrong, or they call a precompile (evm.ts:239)
    Unwitnessed,   \* those it executes without a message: calls of the relay,
                   \* creations
    MaxChallenges, \* bound on the BlockChallenge events
    MaxRestarts    \* bound on restarts of the node

ASSUME OwnAssumption == Own \subseteq Blocks
ASSUME TransactionAssumption == Transactions \subseteq Nat
ASSUME BoundAssumption == MaxChallenges \in Nat

VARIABLES
    step,      \* the step of each challenge in the peg
    witnessed, \* the transactions whose witness the peg has
    log,       \* the events of each kind, one per parent block
    mempool,   \* the answers that were sent and are not mined
    stored,    \* the blocks in the node's database
    records,   \* block -> the step of each challenge in its BlockChallenge
    listener,  \* the EventListener of each kind: phase, past events, next event
    tasks,     \* the handlers of this run: where each is, and what it has read
    restarts   \* how often the node was started again

peg == <<step, witnessed, log, mempool>>
node == <<stored, records, listener, tasks>>
vars == <<peg, node, restarts>>

Kinds == {"BlockChallenge", "ChallengeResponse"}
Challenges == Blocks \X Transactions
NewRecord == [t \in Transactions |-> "NONE"]

(* A handler has the kind and the number of its event, and the phase in    *)
(* which its listener started it: the last past event comes in both.       *)
Tasks == Kinds \X (1 .. MaxChallenges) \X {"past", "subscribed"}
Kind(k) == k[1]
Block(k) == log[k[1]][k[2]][1]
Index(k) == log[k[1]][k[2]][2]

Started ==
    /\ stored = {}
    /\ records = [b \in Blocks |-> NewRecord]
    /\ listener = [kind \in Kinds |-> [phase |-> "stopped", past |-> 0, next |-> 1]]
    /\ tasks = [k \in Tasks |-> [pc |-> "idle", read |-> NewRecord]]

Init ==
    /\ step = [c \in Challenges |-> "NONE"]
    /\ witnessed = {}
    /\ log = [kind \in Kinds |-> <<>>]
    /\ mempool = {}
    /\ Started
    /\ restarts = 0

-----------------------------------------------------------------------------
(* The peg.                                                                *)

challengeTransaction(c) ==
    /\ Len(log["BlockChallenge"]) < MaxChallenges
    /\ step[c] = "NONE"
    /\ step' = [step EXCEPT ![c] = "PENDING"]
    /\ log' = [log EXCEPT !["BlockChallenge"] = Append(@, c)]
    /\ UNCHANGED <<witnessed, mempool, node, restarts>>

(* Nobody listens to the event of a timeout; one after the last challenge  *)
(* within the bound changes nothing that the node sees.                    *)
challengeTimeout(c) ==
    /\ Len(log["BlockChallenge"]) < MaxChallenges
    /\ step[c] # "NONE"
    /\ step' = [step EXCEPT ![c] = "NONE"]
    /\ UNCHANGED <<witnessed, log, mempool, node, restarts>>

(* A second answer reverts.                                                *)
respondToChallenge(c) ==
    /\ c \in mempool
    /\ mempool' = mempool \ {c}
    /\ IF c \in witnessed THEN UNCHANGED <<step, witnessed, log>>
       ELSE /\ witnessed' = witnessed \union {c}
            /\ step' = [step EXCEPT ![c] = "RECEIVED"]
            /\ log' = [log EXCEPT !["ChallengeResponse"] = Append(@, c)]
    /\ UNCHANGED <<node, restarts>>

-----------------------------------------------------------------------------
(* The operator stores a block that it submits; others share the database. *)
putBlock(b) ==
    /\ b \notin stored
    /\ stored' = stored \union {b}
    /\ UNCHANGED <<peg, records, listener, tasks, restarts>>

Restart ==
    /\ restarts < MaxRestarts
    /\ restarts' = restarts + 1
    /\ stored' = {}
    /\ records' = [b \in Blocks |-> NewRecord]
    /\ listener' = [kind \in Kinds |-> [phase |-> "stopped", past |-> 0, next |-> 1]]
    /\ tasks' = [k \in Tasks |-> [pc |-> "idle", read |-> NewRecord]]
    /\ UNCHANGED peg

-----------------------------------------------------------------------------
(* EventListener.start.  The listener of responses starts when the other   *)
(* one has subscribed.                                                     *)

Begins(kind, i, phase) == tasks' = [tasks EXCEPT ![<<kind, i, phase>>].pc = "get"]

Subscribe(kind, next) ==
    listener' = [listener EXCEPT ![kind].phase = "subscribed", ![kind].next = next]

GetPastEvents(kind) ==
    /\ listener[kind].phase = "stopped"
    /\ kind = "ChallengeResponse" => listener["BlockChallenge"].phase = "subscribed"
    /\ listener' = [listener EXCEPT ![kind] =
           [phase |-> IF log[kind] = <<>> THEN "none" ELSE "past",
            past |-> Len(log[kind]), next |-> 1]]
    /\ UNCHANGED <<peg, stored, records, tasks, restarts>>

\* Past events are not awaited.
PastIsBegun(kind) == TRUE

(* Each past event is awaited.                                             *)
PastIsHandled(kind) ==
    \A k \in Tasks : Kind(k) = kind => tasks[k].pc \notin {"get", "put"}

HandlePastEvent(kind) ==
    /\ listener[kind].phase = "past"
    /\ PastIsHandled(kind)
    /\ listener[kind].next <= listener[kind].past
    /\ Begins(kind, listener[kind].next, "past")
    /\ listener' = [listener EXCEPT ![kind].next = @ + 1]
    /\ UNCHANGED <<peg, stored, records, restarts>>

\* Subscribes from the block after the current one.
SubscribeFromNow(kind) ==
    /\ listener[kind].phase = "past"
    /\ PastIsHandled(kind)
    /\ listener[kind].next > listener[kind].past
    /\ Subscribe(kind, Len(log[kind]) + 1)
    /\ UNCHANGED <<peg, stored, records, tasks, restarts>>

(* It subscribes from the block of the last one, which comes once more.    *)
SubscribeFromPast(kind) ==
    /\ listener[kind].phase = "past"
    /\ PastIsHandled(kind)
    /\ listener[kind].next > listener[kind].past
    /\ Subscribe(kind, listener[kind].past)
    /\ UNCHANGED <<peg, stored, records, tasks, restarts>>

(* Without past events it subscribes from the current block, which may be  *)
(* later than the block in which it looked.                                *)
GetBlockNumber(kind) ==
    /\ listener[kind].phase = "none"
    /\ \E next \in {Len(log[kind]), Len(log[kind]) + 1} \ {0} : Subscribe(kind, next)
    /\ UNCHANGED <<peg, stored, records, tasks, restarts>>

Deliver(kind) ==
    /\ listener[kind].phase = "subscribed"
    /\ listener[kind].next \in DOMAIN log[kind]
    /\ Begins(kind, listener[kind].next, "subscribed")
    /\ listener' = [listener EXCEPT ![kind].next = @ + 1]
    /\ UNCHANGED <<peg, stored, records, restarts>>

-----------------------------------------------------------------------------
At(k, pc) == tasks[k].pc = pc
Goto(k, pc) == tasks' = [tasks EXCEPT ![k].pc = pc, ![k].read = NewRecord]

(* ChallengeDatabase.get.                                                  *)
Get(k) ==
    /\ At(k, "get")
    /\ tasks' = [tasks EXCEPT ![k].pc = "put", ![k].read = records[Block(k)]]
    /\ UNCHANGED <<peg, stored, records, listener, restarts>>

(* What is read of a challenge that is not there throws.                   *)
Undefined(k) ==
    Kind(k) = "ChallengeResponse" /\ tasks[k].read[Index(k)] = "NONE"

(* The changed record is written, and the event is emitted.                *)
Put(k) ==
    /\ At(k, "put") /\ ~Undefined(k)
    /\ LET new == IF Kind(k) = "ChallengeResponse" THEN "RECEIVED" ELSE "PENDING"
       IN records' = [records EXCEPT ![Block(k)] = [tasks[k].read EXCEPT ![Index(k)] = new]]
    /\ Goto(k, IF Kind(k) = "ChallengeResponse" THEN "done" ELSE "emitted")
    /\ UNCHANGED <<peg, stored, listener, restarts>>

(* The handler of a past event takes the start of the node with it.        *)
Throw(k) ==
    /\ At(k, "put") /\ Undefined(k)
    /\ Goto(k, "lost")
    /\ listener' = IF k[3] = "past"
                   THEN [listener EXCEPT !["ChallengeResponse"].phase = "failed"] ELSE listener
    /\ UNCHANGED <<peg, stored, records, restarts>>

(* The transactions before it are executed, on a tree of the handler's     *)
(* own, and then the challenged one, whose witness is the answer.          *)
GivesWitness(c) ==
    /\ c \notin Unwitnessed
    /\ \A t \in Transactions : t <= c[2] => <<c[1], t>> \notin Throwing

(* A block that is not stored is null, and throws; with a block that the   *)
(* operator submits its parent is stored.  What throws ends the handler,   *)
(* which nobody catches.                                                   *)
handleChallenge(k) ==
    /\ At(k, "emitted")
    /\ Goto(k, IF Block(k) \notin stored THEN "lost"
               ELSE IF Block(k) \notin Own THEN "done"
               ELSE IF GivesWitness(<<Block(k), Index(k)>>) THEN "answer" ELSE "lost")
    /\ UNCHANGED <<peg, stored, records, listener, restarts>>

Answer(k) ==
    /\ At(k, "answer")
    /\ mempool' = mempool \union {<<Block(k), Index(k)>>}
    /\ Goto(k, "done")
    /\ UNCHANGED <<step, witnessed, log, stored, records, listener, restarts>>

-----------------------------------------------------------------------------
ListenerStep(kind) ==
    \/ GetPastEvents(kind) \/ HandlePastEvent(kind)
    \/ SubscribeFromPast(kind) \/ GetBlockNumber(kind) \/ Deliver(kind)
TaskStep(k) == Get(k) \/ Put(k) \/ Throw(k) \/ handleChallenge(k) \/ Answer(k)

Next ==
    \/ \E c \in Challenges :
          challengeTransaction(c) \/ challengeTimeout(c) \/ respondToChallenge(c)
    \/ \E b \in Blocks : putBlock(b)
    \/ Restart
    \/ \E kind \in Kinds : ListenerStep(kind)
    \/ \E k \in Tasks : TaskStep(k)

(* The event loop runs some handler as long as the operation of one has    *)
(* ended, the listeners go on, and the parent chain takes what is sent to  *)
(* it.                                                                     *)
Fairness ==
    /\ WF_vars(\E kind \in Kinds : ListenerStep(kind))
    /\ WF_vars(\E k \in Tasks : TaskStep(k))
    /\ WF_vars(\E c \in Challenges : respondToChallenge(c))

Spec == Init /\ [][Next]_vars /\ Fairness

-----------------------------------------------------------------------------
(* The i-th challenge will come to the node as it is.                      *)
StillToHear(i) ==
    LET l == listener["BlockChallenge"]
    IN l.phase = "stopped" \/ (l.phase \in {"past", "subscribed"} /\ l.next <= i)

(* A challenge of the operator's own block is answered in the end if the   *)
(* block is stored before the node hears of the challenge: whether it was  *)
(* raised before the node started, while it started or later, however many *)
(* times it is delivered, whatever other handlers do to the records, and   *)
(* also if the transaction was challenged before; unless the node is       *)
(* started again.  A transaction whose execution gives no witness is never *)
(* answered, nor one that comes after a transaction that throws.           *)
AnsweredIfStored ==
    \A r \in 0 .. MaxRestarts, i \in 1 .. MaxChallenges :
        LET raised == i \in DOMAIN log["BlockChallenge"]
            c == log["BlockChallenge"][i]
        IN (/\ restarts = r /\ raised /\ c[1] \in Own \intersect stored
            /\ GivesWitness(c) /\ StillToHear(i))
           ~> ((raised /\ c \in witnessed) \/ restarts > r)

(* A response throws, and as a past event keeps the node from starting,    *)
(* only if the challenge that it answers is not one that the node found    *)
(* when it started: no two handlers, of whatever events, lose such a one   *)
(* from the records.                                                       *)
ResponseThrowsOnlyIfNew ==
    \A k \in Tasks :
        Kind(k) = "ChallengeResponse" /\ At(k, "lost") =>
            <<Block(k), Index(k)>> \notin
                ToSet(SubSeq(log["BlockChallenge"], 1, listener["BlockChallenge"].past))
=============================================================================

------------------------ MODULE ChallengeMonitorProofs ------------------------
(***************************************************************************)
(* Proofs about ChallengeMonitor: the records keep every challenge that    *)
(* the node found when it started, so that the response to such a one      *)
(* never throws.                                                           *)
(*                                                                         *)
(* A handler writes back a record that it read a while ago, and may so     *)
(* undo what another one wrote in between.  Two facts keep this from the   *)
(* challenges found at the start: while they are handled there is only one *)
(* handler, and afterwards every handler has read a record that has them.  *)
(***************************************************************************)
EXTENDS ChallengeMonitor, SequenceTheorems, TLAPS

-----------------------------------------------------------------------------
(* Types. *)

Steps == {"NONE", "PENDING", "RECEIVED"}
Records == [Transactions -> Steps]
Listeners ==
    [phase : {"stopped", "none", "past", "subscribed", "failed"}, past : Nat, next : Nat]
Handlers ==
    [pc : {"idle", "get", "put", "emitted", "answer", "done", "lost"}, read : Records]

TypeOK ==
    /\ step \in [Challenges -> Steps]
    /\ witnessed \subseteq Challenges
    /\ log \in [Kinds -> Seq(Challenges)]
    /\ mempool \subseteq Challenges
    /\ stored \subseteq Blocks
    /\ records \in [Blocks -> Records]
    /\ listener \in [Kinds -> Listeners]
    /\ tasks \in [Tasks -> Handlers]
    /\ restarts \in Nat

-----------------------------------------------------------------------------
(* The inductive invariant. *)

first == listener["BlockChallenge"]
raised == log["BlockChallenge"]
Runs(k) == tasks[k].pc \in {"get", "put"}
Recorded(c) == records[c[1]][c[2]] # "NONE"

\* A listener found its past events in the log.  The challenges are listened
\* to first; there are not more of them than handlers.
ListenersInv ==
    /\ \A kind \in Kinds :
         LET l == listener[kind]
         IN  /\ l.past <= Len(log[kind])
             /\ l.phase \in {"stopped", "none"} => l.past = 0
             /\ l.phase = "past" => l.next \in 1 .. l.past + 1
    /\ first.phase # "failed"
    /\ first.phase # "subscribed" => listener["ChallengeResponse"].phase = "stopped"
    /\ Len(raised) <= MaxChallenges

\* A handler has an event; before the node has subscribed there is none but
\* of the past events, and only the last of them runs.  Challenges are
\* answered, responses are not.
HandlersInv ==
    \A k \in Tasks : tasks[k].pc # "idle" =>
        /\ k[2] \in DOMAIN log[Kind(k)]
        /\ listener[Kind(k)].phase \notin {"stopped", "none"}
        /\ tasks[k].pc \in {"emitted", "answer"} => Kind(k) = "BlockChallenge"
        /\ first.phase = "past" /\ Runs(k) => k = <<"BlockChallenge", first.next - 1, "past">>

\* The past challenges that were handled are in the records.
RecordsInv ==
    \A i \in 1 .. first.past :
        \/ first.phase = "past" /\ i >= first.next
        \/ Recorded(raised[i])
        \/ first.phase = "past" /\ Runs(<<"BlockChallenge", i, "past">>)

\* What a handler has read has all of them that the record has.
ReadInv ==
    \A k \in Tasks, i \in 1 .. first.past :
        tasks[k].pc = "put" /\ Block(k) = raised[i][1] /\ Recorded(raised[i]) =>
            tasks[k].read[raised[i][2]] # "NONE"

\* No handler has thrown at one of them.
LostInv ==
    \A k \in Tasks, i \in 1 .. first.past :
        Kind(k) = "ChallengeResponse" /\ At(k, "lost") => <<Block(k), Index(k)>> # raised[i]

Inv ==
    /\ TypeOK
    /\ ListenersInv
    /\ HandlersInv
    /\ RecordsInv
    /\ ReadInv
    /\ LostInv

-----------------------------------------------------------------------------
(* Events and handlers. *)

\* What a handler is: its kind is one of the two, and its number one of the
\* numbers of events.
LEMMA TaskTypes ==
  ASSUME NEW k \in Tasks
  PROVE  Kind(k) \in Kinds /\ Kind(k) = k[1] /\ k[2] \in 1 .. MaxChallenges
BY DEF Tasks, Kind

\* An event is a challenge, which is a transaction of a block.
LEMMA EventTypes ==
  ASSUME TypeOK, NEW kind \in Kinds
  PROVE  /\ log[kind] \in Seq(Challenges)
         /\ DOMAIN log[kind] = 1 .. Len(log[kind]) /\ Len(log[kind]) \in Nat
         /\ \A i \in DOMAIN log[kind] :
              /\ log[kind][i] \in Challenges
              /\ log[kind][i][1] \in Blocks /\ log[kind][i][2] \in Transactions
<1>1. log[kind] \in Seq(Challenges)
  BY DEF TypeOK
<1>2. DOMAIN log[kind] = 1 .. Len(log[kind]) /\ Len(log[kind]) \in Nat
  BY <1>1
<1>3. \A i \in DOMAIN log[kind] : log[kind][i] \in Challenges
  BY <1>1
<1>4. \A c \in Challenges : c[1] \in Blocks /\ c[2] \in Transactions
  BY DEF Challenges
<1>. QED
  BY <1>1, <1>2, <1>3, <1>4

\* The listeners and their kinds.
LEMMA ListenerTypes ==
  ASSUME TypeOK
  PROVE  /\ "BlockChallenge" \in Kinds /\ "ChallengeResponse" \in Kinds
         /\ \A kind \in Kinds : listener[kind] \in Listeners
         /\ first \in Listeners /\ first.past \in Nat /\ first.next \in Nat
BY DEF TypeOK, Kinds, Listeners, first

\* The past challenges are events.
LEMMA PastTypes ==
  ASSUME TypeOK, ListenersInv, NEW i \in 1 .. first.past
  PROVE  /\ i \in Nat /\ i \in DOMAIN raised
         /\ raised[i] \in Challenges /\ raised[i][1] \in Blocks /\ raised[i][2] \in Transactions
         /\ raised[i] = <<raised[i][1], raised[i][2]>>
<1>1. DOMAIN raised = 1 .. Len(raised) /\ Len(raised) \in Nat /\ first.past \in Nat
  BY EventTypes, ListenerTypes DEF raised
<1>2. i \in Nat /\ i \in DOMAIN raised
  <2>1. first.past <= Len(raised)
    BY ListenerTypes DEF ListenersInv, first, raised
  <2>. QED
    BY <1>1, <2>1
<1>3. raised[i] \in Challenges /\ raised[i][1] \in Blocks /\ raised[i][2] \in Transactions
  BY <1>2, EventTypes, ListenerTypes DEF raised
<1>. QED
  BY <1>2, <1>3 DEF Challenges

\* There is a handler for each past challenge.
LEMMA PastHandlers ==
  ASSUME TypeOK, ListenersInv, NEW i \in 1 .. first.past
  PROVE  /\ <<"BlockChallenge", i, "past">> \in Tasks
         /\ Kind(<<"BlockChallenge", i, "past">>) = "BlockChallenge"
<1>1. i \in 1 .. Len(raised) /\ Len(raised) \in Nat
  BY PastTypes, EventTypes, ListenerTypes DEF raised
<1>2. i \in 1 .. MaxChallenges
  BY <1>1, BoundAssumption DEF ListenersInv
<1>. QED
  BY <1>2, ListenerTypes DEF Tasks, Kind

\* A handler that does something is about a transaction of a block.
LEMMA HandlerTypes ==
  ASSUME TypeOK, HandlersInv, NEW k \in Tasks, tasks[k].pc # "idle"
  PROVE  /\ tasks[k] \in Handlers /\ tasks[k].read \in Records
         /\ Block(k) \in Blocks /\ Index(k) \in Transactions
         /\ Kind(k) \in Kinds /\ Kind(k) = k[1] /\ k[2] \in DOMAIN log[Kind(k)]
<1>1. tasks[k] \in Handlers /\ tasks[k].read \in Records
  BY DEF TypeOK, Handlers
<1>2. Kind(k) \in Kinds /\ Kind(k) = k[1] /\ k[2] \in DOMAIN log[Kind(k)]
  BY TaskTypes DEF HandlersInv
<1>. QED
  BY <1>1, <1>2, EventTypes DEF Block, Index

\* Records are functions with one step per transaction, the new one too.
LEMMA RecordTypes ==
  ASSUME NEW r \in Records, NEW t \in Transactions, NEW s \in Steps
  PROVE  /\ NewRecord \in Records
         /\ [r EXCEPT ![t] = s] \in Records /\ [r EXCEPT ![t] = s][t] = s
         /\ \A u \in Transactions : u # t => [r EXCEPT ![t] = s][u] = r[u]
BY DEF Records, NewRecord, Steps

\* A handler begins, if there is one of that number.
LEMMA Begun ==
  ASSUME TypeOK, NEW kind, NEW i, NEW phase, Begins(kind, i, phase)
  PROVE  /\ tasks' \in [Tasks -> Handlers]
         /\ \A k \in Tasks : k # <<kind, i, phase>> => tasks'[k] = tasks[k]
         /\ \A k \in Tasks : k = <<kind, i, phase>> =>
              tasks'[k].pc = "get" /\ tasks'[k].read = tasks[k].read
<1>. DEFINE x == <<kind, i, phase>>
<1>1. tasks \in [Tasks -> Handlers] /\ tasks' = [tasks EXCEPT ![x].pc = "get"]
  BY DEF TypeOK, Begins
<1>. HIDE DEF x
<1>2. \A k \in Tasks : k # x => tasks'[k] = tasks[k]
  BY <1>1
<1>3. ASSUME NEW k \in Tasks, k = x
      PROVE  /\ tasks'[k] \in Handlers
             /\ tasks'[k].pc = "get" /\ tasks'[k].read = tasks[k].read
  <2>1. tasks[k] \in Handlers /\ tasks'[k] = [tasks[k] EXCEPT !.pc = "get"]
    BY <1>1, <1>3
  <2>. QED
    BY <2>1 DEF Handlers
<1>4. \A k \in Tasks : tasks'[k] \in Handlers
  BY <1>1, <1>2, <1>3
<1>5. tasks' \in [Tasks -> Handlers]
  BY <1>1, <1>4
<1>. QED
  BY <1>2, <1>3, <1>5 DEF x

\* A handler goes on to where it has read nothing.
LEMMA Gone ==
  ASSUME TypeOK, NEW k \in Tasks, NEW pc \in {"emitted", "answer", "done", "lost"}, Goto(k, pc)
  PROVE  /\ tasks' \in [Tasks -> Handlers]
         /\ tasks'[k].pc = pc
         /\ \A j \in Tasks \ {k} : tasks'[j] = tasks[j]
<1>1. NewRecord \in Records
  BY DEF Records, NewRecord, Steps
<1>2. tasks \in [Tasks -> Handlers] /\ tasks[k] \in Handlers
  BY DEF TypeOK
<1>3. tasks' = [tasks EXCEPT ![k] = [tasks[k] EXCEPT !.pc = pc, !.read = NewRecord]]
  BY <1>2 DEF Goto
<1>4. [tasks[k] EXCEPT !.pc = pc, !.read = NewRecord] \in Handlers
  BY <1>1, <1>2 DEF Handlers
<1>5. [tasks[k] EXCEPT !.pc = pc, !.read = NewRecord].pc = pc
  BY <1>2 DEF Handlers
<1>. QED
  BY <1>2, <1>3, <1>4, <1>5

-----------------------------------------------------------------------------
(* The start, and the steps of the peg. *)

PegTypes ==
    /\ step \in [Challenges -> Steps]
    /\ witnessed \subseteq Challenges
    /\ log \in [Kinds -> Seq(Challenges)]
    /\ Len(raised) <= MaxChallenges
    /\ mempool \subseteq Challenges
    /\ restarts \in Nat

\* A node that was started, or started again, knows no past challenge.
LEMMA StartedInv == PegTypes /\ Started => Inv
<1>. SUFFICES ASSUME PegTypes, Started PROVE Inv
  OBVIOUS
<1>1. NewRecord \in Records
  BY DEF Records, NewRecord, Steps
<1>2. TypeOK
  <2>1. [phase |-> "stopped", past |-> 0, next |-> 1] \in Listeners
    BY DEF Listeners
  <2>2. [pc |-> "idle", read |-> NewRecord] \in Handlers
    BY <1>1 DEF Handlers
  <2>. QED
    BY <1>1, <2>1, <2>2 DEF TypeOK, Started, PegTypes
<1>3. \A kind \in Kinds : listener[kind].phase = "stopped" /\ listener[kind].past = 0
  BY DEF Started
<1>4. \A k \in Tasks : tasks[k].pc = "idle"
  BY DEF Started
<1>5. Len(raised) \in Nat
  BY <1>2, EventTypes, ListenerTypes DEF raised
<1>6. ListenersInv
  BY <1>3, <1>5, ListenerTypes, <1>2 DEF ListenersInv, first, PegTypes
<1>7. \A i \in 1 .. first.past : FALSE
  BY <1>3, ListenerTypes, <1>2 DEF first
<1>. QED
  BY <1>2, <1>4, <1>6, <1>7 DEF Inv, HandlersInv, RecordsInv, ReadInv, LostInv, At

\* The invariant holds at the start of the node.
LEMMA InitInv == Init => Inv
<1>. SUFFICES ASSUME Init PROVE Inv
  OBVIOUS
<1>1. raised = <<>>
  BY DEF Init, Kinds, raised
<1>2. PegTypes
  BY <1>1, BoundAssumption DEF Init, Steps, PegTypes
<1>. QED
  BY <1>2, StartedInv DEF Init

\* A restart leaves the peg as it is.
LEMMA RestartInv ==
  ASSUME Inv, Restart
  PROVE  Inv'
<1>1. PegTypes'
  BY DEF Inv, TypeOK, ListenersInv, PegTypes, raised, Restart, peg
<1>2. Started'
  BY DEF Restart, Started
<1>3. (PegTypes /\ Started => Inv)'
  BY StartedInv, PTL
<1>. QED
  BY <1>1, <1>2, <1>3

\* A step that leaves the node and the events alone.
LEMMA NodeIsSame ==
  ASSUME Inv, TypeOK', UNCHANGED <<log, records, listener, tasks>>
  PROVE  Inv'
BY DEF Inv, ListenersInv, HandlersInv, RecordsInv, ReadInv, LostInv,
       first, raised, Runs, Recorded, Block, Index, Kind, At

\* One more event leaves the earlier ones.
LEMMA LogGrows ==
  ASSUME TypeOK, NEW kind \in Kinds, NEW c \in Challenges,
         log' = [log EXCEPT ![kind] = Append(@, c)]
  PROVE  /\ log' \in [Kinds -> Seq(Challenges)]
         /\ \A m \in Kinds \ {kind} : log'[m] = log[m]
         /\ Len(log'[kind]) = Len(log[kind]) + 1
         /\ \A m \in Kinds : \A i \in DOMAIN log[m] :
              i \in DOMAIN log'[m] /\ log'[m][i] = log[m][i]
<1>1. log \in [Kinds -> Seq(Challenges)] /\ log[kind] \in Seq(Challenges)
  BY DEF TypeOK
<1>2. log'[kind] = Append(log[kind], c) /\ \A m \in Kinds \ {kind} : log'[m] = log[m]
  BY <1>1
<1>. DEFINE s == log[kind]
<1>3. /\ Append(s, c) \in Seq(Challenges) /\ Len(Append(s, c)) = Len(s) + 1
      /\ \A i \in DOMAIN s : i \in DOMAIN Append(s, c) /\ Append(s, c)[i] = s[i]
  <2>1. s \in Seq(Challenges)
    BY <1>1
  <2>. HIDE DEF s
  <2>. QED
    BY <2>1
<1>4. log' \in [Kinds -> Seq(Challenges)]
  BY <1>1, <1>3
<1>. QED
  BY <1>1, <1>2, <1>3, <1>4

\* A step of the peg that adds an event.
LEMMA NodeHasMore ==
  ASSUME Inv, TypeOK', UNCHANGED <<records, listener, tasks>>,
         NEW kind \in Kinds, NEW c \in Challenges,
         log' = [log EXCEPT ![kind] = Append(@, c)],
         kind = "BlockChallenge" => Len(raised) < MaxChallenges
  PROVE  Inv'
<1>. USE DEF Inv
<1>1. \A m \in Kinds : \A i \in DOMAIN log[m] :
        i \in DOMAIN log'[m] /\ log'[m][i] = log[m][i]
  BY LogGrows
<1>2. first' = first /\ first \in Listeners /\ "BlockChallenge" \in Kinds
  BY ListenerTypes DEF first
<1>3. Len(raised) <= Len(raised)' /\ Len(raised)' <= MaxChallenges
  <2>1. Len(raised) \in Nat
    BY EventTypes, <1>2 DEF raised
  <2>2. CASE kind = "BlockChallenge"
    BY <2>1, <2>2, LogGrows, BoundAssumption DEF raised
  <2>3. CASE kind # "BlockChallenge"
    BY <2>1, <2>3, LogGrows, <1>2 DEF raised, ListenersInv
  <2>. QED
    BY <2>2, <2>3
<1>4. ListenersInv'
  <2>1. ASSUME NEW m \in Kinds
        PROVE  listener[m].past <= Len(log'[m])
    <3>1. Len(log[m]) \in Nat /\ Len(log'[m]) \in Nat /\ listener[m].past \in Nat
      BY EventTypes, ListenerTypes DEF Listeners
    <3>2. Len(log'[m]) = Len(log[m]) + 1 \/ log'[m] = log[m]
      BY LogGrows
    <3>3. listener[m].past <= Len(log[m])
      BY DEF ListenersInv
    <3>. QED
      BY <3>1, <3>2, <3>3
  <2>. QED
    BY <1>2, <1>3, <2>1 DEF ListenersInv
<1>5. \A i \in 1 .. first.past : raised'[i] = raised[i]
  BY <1>1, <1>2, PastTypes DEF raised
<1>6. \A k \in Tasks : tasks[k].pc # "idle" =>
        /\ k[2] \in DOMAIN log'[Kind(k)]
        /\ Block(k)' = Block(k) /\ Index(k)' = Index(k)
  BY <1>1, HandlerTypes DEF Block, Index
<1>7. HandlersInv'
  BY <1>2, <1>6 DEF HandlersInv, Runs, Kind
<1>8. RecordsInv'
  BY <1>2, <1>5 DEF RecordsInv, Recorded, Runs
<1>9. ReadInv'
  BY <1>2, <1>5, <1>6 DEF ReadInv, Recorded
<1>10. LostInv'
  BY <1>2, <1>5, <1>6 DEF LostInv, At, Kind
<1>. QED
  BY <1>4, <1>7, <1>8, <1>9, <1>10

\* A challenge is raised.
LEMMA ChallengeInv ==
  ASSUME Inv, NEW c \in Challenges, challengeTransaction(c)
  PROVE  Inv'
<1>1. "BlockChallenge" \in Kinds /\ TypeOK
  BY ListenerTypes DEF Inv
<1>2. log' \in [Kinds -> Seq(Challenges)]
  BY <1>1, LogGrows DEF challengeTransaction
<1>3. TypeOK'
  BY <1>1, <1>2 DEF TypeOK, challengeTransaction, node, Steps
<1>. QED
  BY <1>1, <1>3, NodeHasMore DEF challengeTransaction, node, raised

\* A challenge times out.
LEMMA TimeoutInv ==
  ASSUME Inv, NEW c \in Challenges, challengeTimeout(c)
  PROVE  Inv'
<1>1. TypeOK'
  BY DEF Inv, TypeOK, challengeTimeout, node, Steps
<1>. QED
  BY <1>1, NodeIsSame DEF challengeTimeout, node

\* An answer is mined.
LEMMA RespondInv ==
  ASSUME Inv, NEW c \in Challenges, respondToChallenge(c)
  PROVE  Inv'
<1>1. "ChallengeResponse" \in Kinds /\ TypeOK
  BY ListenerTypes DEF Inv
<1>2. CASE c \in witnessed
  <2>1. TypeOK'
    BY <1>1, <1>2 DEF TypeOK, respondToChallenge, node
  <2>. QED
    BY <1>2, <2>1, NodeIsSame DEF respondToChallenge, node
<1>3. CASE c \notin witnessed
  <2>1. log' \in [Kinds -> Seq(Challenges)]
    BY <1>1, <1>3, LogGrows DEF respondToChallenge
  <2>2. TypeOK'
    BY <1>1, <1>3, <2>1 DEF TypeOK, respondToChallenge, node, Steps
  <2>. QED
    BY <1>1, <1>3, <2>2, NodeHasMore DEF respondToChallenge, node
<1>. QED
  BY <1>2, <1>3

\* A block is stored.
LEMMA PutBlockInv ==
  ASSUME Inv, NEW b \in Blocks, putBlock(b)
  PROVE  Inv'
<1>1. TypeOK'
  BY DEF Inv, TypeOK, putBlock, peg
<1>. QED
  BY <1>1, NodeIsSame DEF putBlock, peg

-----------------------------------------------------------------------------
(* The steps of the listeners. *)

\* What was read, and who has thrown, is as before when no handler comes to
\* where it has read something or has thrown.
LEMMA ReadersAreSame ==
  ASSUME Inv, TypeOK', UNCHANGED <<log, records>>, first'.past = first.past,
         \A k \in Tasks : tasks'[k].pc \in {"put", "lost"} => tasks'[k] = tasks[k]
  PROVE  ReadInv' /\ LostInv'
<1>1. raised' = raised /\ \A k \in Tasks : Kind(k)' = Kind(k) /\ Block(k)' = Block(k) /\ Index(k)' = Index(k)
  BY DEF raised, Kind, Block, Index
<1>. QED
  BY <1>1 DEF Inv, ReadInv, LostInv, At, Recorded

\* Events are found, or none: no handler of their kind has begun.
LEMMA GetPastEventsInv ==
  ASSUME Inv, NEW kind \in Kinds, GetPastEvents(kind)
  PROVE  Inv'
<1>. USE DEF Inv
<1>. DEFINE l == [phase |-> IF log[kind] = <<>> THEN "none" ELSE "past",
                  past |-> Len(log[kind]), next |-> 1]
<1>1. Len(log[kind]) \in Nat /\ log[kind] \in Seq(Challenges)
  BY EventTypes
<1>2. l \in Listeners
  BY <1>1 DEF Listeners
<1>3. /\ listener' = [listener EXCEPT ![kind] = l]
      /\ UNCHANGED <<step, witnessed, log, mempool, stored, records, tasks, restarts>>
  BY DEF GetPastEvents, peg
<1>4. l.past = Len(log[kind]) /\ l.next = 1 /\ l.phase \in {"none", "past"}
      /\ (l.phase = "none" => l.past = 0)
  BY <1>1
<1>. HIDE DEF l
<1>5. TypeOK'
  BY <1>2, <1>3 DEF TypeOK
<1>6. listener'[kind] = l /\ \A m \in Kinds \ {kind} : listener'[m] = listener[m]
  BY <1>3 DEF TypeOK
<1>7. ListenersInv'
  <2>1. \A m \in Kinds :
          /\ listener'[m].past <= Len(log[m])
          /\ listener'[m].phase \in {"stopped", "none"} => listener'[m].past = 0
          /\ listener'[m].phase = "past" => listener'[m].next \in 1 .. listener'[m].past + 1
    BY <1>1, <1>4, <1>6 DEF ListenersInv
  <2>2. CASE kind = "BlockChallenge"
    <3>1. /\ first'.phase # "failed" /\ listener'["ChallengeResponse"].phase = "stopped"
      BY <1>4, <1>6, <2>2, ListenerTypes DEF ListenersInv, first, GetPastEvents
    <3>. QED
      BY <2>1, <3>1, <1>3 DEF ListenersInv, raised
  <2>3. CASE kind = "ChallengeResponse"
    <3>1. first' = first /\ first.phase = "subscribed"
      BY <1>6, <2>3, ListenerTypes DEF first, GetPastEvents
    <3>. QED
      BY <2>1, <3>1, <1>3 DEF ListenersInv, raised
  <2>. QED
    BY <2>2, <2>3 DEF Kinds
<1>8. \A k \in Tasks : Kind(k) = kind => tasks[k].pc = "idle"
  BY DEF GetPastEvents, HandlersInv
<1>9. CASE kind = "BlockChallenge"
  <2>1. \A k \in Tasks : tasks'[k].pc = "idle"
    <3>1. first.phase = "stopped"
      BY <1>9 DEF GetPastEvents, first
    <3>2. \A k \in Tasks : Kind(k) = "ChallengeResponse" => tasks[k].pc = "idle"
      BY <3>1 DEF ListenersInv, HandlersInv
    <3>. QED
      BY <1>3, <1>8, <1>9, <3>2, TaskTypes DEF Kinds
  <2>2. first' = l
    BY <1>6, <1>9 DEF first
  <2>3. \A i \in 1 .. l.past : l.phase = "past" /\ i >= l.next
    BY <1>1, <1>4
  <2>. QED
    BY <1>5, <1>7, <2>1, <2>2, <2>3 DEF HandlersInv, RecordsInv, ReadInv, LostInv, At
<1>10. CASE kind = "ChallengeResponse"
  <2>1. first' = first
    BY <1>6, <1>10, ListenerTypes DEF first
  <2>2. HandlersInv'
    <3>1. \A k \in Tasks : tasks[k].pc # "idle" => listener'[Kind(k)] = listener[Kind(k)]
      BY <1>6, <1>8, TaskTypes
    <3>. QED
      BY <1>3, <2>1, <3>1 DEF HandlersInv, Kind, Runs
  <2>3. RecordsInv'
    BY <1>3, <2>1 DEF RecordsInv, raised, Recorded, Runs
  <2>4. ReadInv' /\ LostInv'
    BY <1>3, <1>5, <2>1, ReadersAreSame
  <2>. QED
    BY <1>5, <1>7, <2>2, <2>3, <2>4
<1>. QED
  BY <1>9, <1>10 DEF Kinds

\* The next event is handled: by a handler in the phase of its listener.
LEMMA Handles ==
  ASSUME Inv, NEW kind \in Kinds, NEW phase \in {"past", "subscribed"},
         listener[kind].phase = phase,
         Begins(kind, listener[kind].next, phase),
         listener[kind].next \in DOMAIN log[kind],
         phase = "past" => PastIsHandled(kind) /\ listener[kind].next <= listener[kind].past,
         listener' = [listener EXCEPT ![kind].next = @ + 1],
         UNCHANGED <<peg, stored, records, restarts>>
  PROVE  Inv'
<1>. USE DEF Inv
<1>. DEFINE n == listener[kind].next
            x == <<kind, n, phase>>
<1>1. /\ UNCHANGED <<step, witnessed, log, mempool, stored, records, restarts>>
      /\ n \in Nat /\ n >= 1
  BY EventTypes DEF peg
<1>2. /\ listener \in [Kinds -> Listeners] /\ listener[kind] \in Listeners
  BY DEF TypeOK
<1>3. /\ [listener[kind] EXCEPT !.next = n + 1] \in Listeners
      /\ [listener[kind] EXCEPT !.next = n + 1].next = n + 1
      /\ [listener[kind] EXCEPT !.next = n + 1].past = listener[kind].past
      /\ [listener[kind] EXCEPT !.next = n + 1].phase = phase
  BY <1>1, <1>2 DEF Listeners
<1>4. /\ listener' \in [Kinds -> Listeners]
      /\ listener'[kind] = [listener[kind] EXCEPT !.next = n + 1]
      /\ \A m \in Kinds \ {kind} : listener'[m] = listener[m]
  BY <1>2, <1>3
<1>5. /\ tasks' \in [Tasks -> Handlers]
      /\ \A k \in Tasks : k # x => tasks'[k] = tasks[k]
      /\ \A k \in Tasks : k = x => tasks'[k].pc = "get"
  BY Begun
<1>6. TypeOK'
  BY <1>1, <1>4, <1>5 DEF TypeOK
<1>7. \A m \in Kinds : /\ listener'[m].phase = listener[m].phase
                        /\ listener'[m].past = listener[m].past
  BY <1>3, <1>4
<1>8. first'.phase = first.phase /\ first'.past = first.past
  BY <1>7, ListenerTypes DEF first
<1>9. ListenersInv'
  <2>1. ASSUME NEW m \in Kinds, listener'[m].phase = "past"
        PROVE  listener'[m].next \in 1 .. listener'[m].past + 1
    <3>1. CASE m = kind
      <4>1. listener'[m].next = n + 1 /\ n <= listener[kind].past /\ listener[kind].past \in Nat
        BY <1>2, <1>3, <1>4, <1>7, <2>1, <3>1 DEF Listeners
      <4>2. listener'[m].past = listener[kind].past
        BY <1>7, <3>1
      <4>. HIDE DEF n
      <4>. QED
        BY <1>1, <4>1, <4>2
    <3>2. CASE m # kind
      BY <1>4, <2>1, <3>2 DEF ListenersInv
    <3>. QED
      BY <3>1, <3>2
  <2>2. listener'["ChallengeResponse"].phase = listener["ChallengeResponse"].phase
    BY <1>7, ListenerTypes
  <2>. QED
    BY <1>1, <1>7, <1>8, <2>1, <2>2 DEF ListenersInv, raised
<1>10. Kind(x) = kind /\ x[2] = n /\ x[1] = kind
  BY DEF Kind
<1>. HIDE DEF x
<1>11. ReadInv' /\ LostInv'
  <2>1. \A k \in Tasks : tasks'[k].pc \in {"put", "lost"} => tasks'[k] = tasks[k]
    BY <1>5
  <2>. QED
    BY <1>1, <1>6, <1>8, <2>1, ReadersAreSame
<1>12. phase = "subscribed" => first.phase = "subscribed"
  <2>1. kind = "ChallengeResponse" /\ phase = "subscribed" => first.phase = "subscribed"
    BY DEF ListenersInv
  <2>. QED
    BY <2>1 DEF first, Kinds
<1>13. phase = "past" /\ kind = "ChallengeResponse" => first.phase = "subscribed"
  BY DEF ListenersInv
<1>14. first.phase = "past" =>
         /\ kind = "BlockChallenge" /\ phase = "past"
         /\ first.next = n /\ first'.next = n + 1
         /\ \A k \in Tasks : ~ Runs(k)
  <2>. SUFFICES ASSUME first.phase = "past"
                PROVE  /\ kind = "BlockChallenge" /\ phase = "past"
                       /\ first.next = n /\ first'.next = n + 1
                       /\ \A k \in Tasks : ~ Runs(k)
    OBVIOUS
  <2>1. kind = "BlockChallenge" /\ phase = "past"
    BY <1>12, <1>13 DEF Kinds
  <2>2. first.next = n /\ first'.next = n + 1
    BY <1>3, <1>4, <2>1 DEF first
  <2>3. ASSUME NEW k \in Tasks, Runs(k) PROVE FALSE
    <3>1. Kind(k) = "BlockChallenge"
      <4>1. k = <<"BlockChallenge", first.next - 1, "past">>
        BY <2>3 DEF HandlersInv, Runs
      <4>. QED
        BY <4>1 DEF Kind
    <3>. QED
      BY <2>1, <2>3, <3>1 DEF PastIsHandled, Runs
  <2>. QED
    BY <2>1, <2>2, <2>3
<1>15. HandlersInv'
  <2>. SUFFICES ASSUME NEW k \in Tasks, tasks'[k].pc # "idle"
                PROVE  /\ k[2] \in DOMAIN log[Kind(k)]
                       /\ listener'[Kind(k)].phase \notin {"stopped", "none"}
                       /\ tasks'[k].pc \in {"emitted", "answer"} => Kind(k) = "BlockChallenge"
                       /\ first'.phase = "past" /\ Runs(k)' => k = <<"BlockChallenge", first'.next - 1, "past">>
    BY <1>1 DEF HandlersInv, Kind
  <2>1. CASE k = x
    <3>1. first'.phase = "past" => k = <<"BlockChallenge", first'.next - 1, "past">>
      <4>1. ASSUME first.phase = "past" PROVE k = <<"BlockChallenge", first'.next - 1, "past">>
        <5>1. first'.next - 1 = n
          BY <1>1, <1>14, <4>1
        <5>. QED
          BY <1>14, <2>1, <4>1, <5>1 DEF x
      <4>. QED
        BY <1>8, <4>1
    <3>2. k[2] \in DOMAIN log[Kind(k)] /\ listener'[Kind(k)].phase = phase
      BY <1>7, <1>10, <2>1
    <3>. QED
      BY <1>5, <2>1, <3>1, <3>2
  <2>2. CASE k # x
    <3>1. tasks'[k] = tasks[k]
      BY <1>5, <2>2
    <3>2. listener'[Kind(k)].phase = listener[Kind(k)].phase
      BY <1>7, TaskTypes
    <3>3. ~ (first'.phase = "past" /\ Runs(k)')
      BY <1>8, <1>14, <3>1 DEF Runs
    <3>. QED
      BY <3>1, <3>2, <3>3 DEF HandlersInv
  <2>. QED
    BY <2>1, <2>2
<1>16. RecordsInv'
  <2>. SUFFICES ASSUME NEW i \in 1 .. first.past
                PROVE  \/ first'.phase = "past" /\ i >= first'.next
                       \/ Recorded(raised[i])
                       \/ first'.phase = "past" /\ Runs(<<"BlockChallenge", i, "past">>)'
    BY <1>1, <1>8 DEF RecordsInv, Recorded, raised
  <2>1. CASE first.phase # "past"
    BY <2>1 DEF RecordsInv
  <2>2. CASE first.phase = "past"
    <3>1. i \in DOMAIN raised /\ i \in 1 .. Len(raised) /\ Len(raised) \in Nat
      BY PastTypes, EventTypes, ListenerTypes DEF raised
    <3>4. <<"BlockChallenge", i, "past">> \in Tasks
      BY PastHandlers
    <3>5. CASE i = n
      <4>1. <<"BlockChallenge", i, "past">> = x
        BY <1>14, <2>2, <3>5 DEF x
      <4>. QED
        BY <1>5, <1>8, <2>2, <3>4, <4>1 DEF Runs
    <3>6. CASE i # n
      <4>1. i >= n => i >= first'.next
        BY <1>1, <1>14, <2>2, <3>1, <3>6
      <4>2. ~ Runs(<<"BlockChallenge", i, "past">>)
        BY <1>14, <2>2, <3>4
      <4>. QED
        BY <1>8, <1>14, <2>2, <4>1, <4>2 DEF RecordsInv
    <3>. QED
      BY <3>5, <3>6
  <2>. QED
    BY <2>1, <2>2
<1>. QED
  BY <1>6, <1>9, <1>11, <1>15, <1>16

\* A past event is handled.
LEMMA HandlePastEventInv ==
  ASSUME Inv, NEW kind \in Kinds, HandlePastEvent(kind)
  PROVE  Inv'
<1>1. listener[kind].next \in DOMAIN log[kind]
  <2>1. /\ listener[kind].next \in 1 .. listener[kind].past + 1
        /\ listener[kind].past <= Len(log[kind])
    BY DEF Inv, ListenersInv, HandlePastEvent
  <2>2. listener[kind].past \in Nat /\ Len(log[kind]) \in Nat /\ DOMAIN log[kind] = 1 .. Len(log[kind])
    BY ListenerTypes, EventTypes DEF Inv, Listeners
  <2>. QED
    BY <2>1, <2>2 DEF HandlePastEvent
<1>. QED
  BY <1>1, Handles DEF HandlePastEvent

\* An event is delivered.
LEMMA DeliverInv ==
  ASSUME Inv, NEW kind \in Kinds, Deliver(kind)
  PROVE  Inv'
BY Handles DEF Deliver

\* A listener subscribes, when all past challenges are in the records.
LEMMA SubscribeInv ==
  ASSUME Inv, NEW kind \in Kinds, NEW next \in Nat, Subscribe(kind, next),
         \/ listener[kind].phase = "none"
         \/ /\ listener[kind].phase = "past"
            /\ PastIsHandled(kind) /\ listener[kind].next > listener[kind].past,
         UNCHANGED <<peg, stored, records, tasks, restarts>>
  PROVE  Inv'
<1>. USE DEF Inv
<1>1. /\ UNCHANGED <<step, witnessed, log, mempool, stored, records, tasks, restarts>>
  BY DEF peg
<1>2. /\ listener \in [Kinds -> Listeners] /\ listener[kind] \in Listeners
  BY DEF TypeOK
<1>. DEFINE l == [listener[kind] EXCEPT !.phase = "subscribed", !.next = next]
<1>3. l \in Listeners /\ l.phase = "subscribed" /\ l.past = listener[kind].past
  BY <1>2 DEF Listeners
<1>4. listener' = [listener EXCEPT ![kind] = l]
  BY <1>2 DEF Subscribe
<1>. HIDE DEF l
<1>5. /\ listener' \in [Kinds -> Listeners] /\ listener'[kind] = l
      /\ \A m \in Kinds \ {kind} : listener'[m] = listener[m]
  BY <1>2, <1>3, <1>4
<1>6. TypeOK'
  BY <1>1, <1>5 DEF TypeOK
<1>7. \A m \in Kinds : listener'[m].past = listener[m].past
  BY <1>3, <1>5
<1>8. first'.past = first.past
  BY <1>7, ListenerTypes DEF first
<1>9. kind = "BlockChallenge" => first' = l /\ listener'["ChallengeResponse"] = listener["ChallengeResponse"]
  BY <1>5, ListenerTypes DEF first
<1>10. kind = "ChallengeResponse" => first' = first /\ first.phase = "subscribed"
  BY <1>5, ListenerTypes DEF first, ListenersInv
<1>11. first'.phase = "subscribed"
  BY <1>3, <1>9, <1>10 DEF Kinds
<1>12. ListenersInv'
  <2>1. \A m \in Kinds :
          /\ listener'[m].phase \in {"stopped", "none"} => listener'[m].past = 0
          /\ listener'[m].phase = "past" => listener'[m].next \in 1 .. listener'[m].past + 1
    BY <1>3, <1>5 DEF ListenersInv
  <2>. QED
    BY <1>1, <1>7, <1>11, <2>1 DEF ListenersInv, raised
<1>13. HandlersInv'
  <2>1. \A m \in Kinds : listener[m].phase \notin {"stopped", "none"} =>
                            listener'[m].phase \notin {"stopped", "none"}
    BY <1>3, <1>5
  <2>. QED
    BY <1>1, <1>11, <2>1, TaskTypes DEF HandlersInv, Kind
<1>14. RecordsInv'
  <2>. SUFFICES ASSUME NEW i \in 1 .. first.past PROVE Recorded(raised[i])
    BY <1>1, <1>8 DEF RecordsInv, Recorded, raised
  <2>1. CASE kind = "BlockChallenge"
    <3>1. first.phase = "past"
      <4>1. first.past \in Nat
        BY ListenerTypes
      <4>. QED
        BY <2>1, <4>1 DEF ListenersInv, first
    <3>2. PastIsHandled("BlockChallenge") /\ first.next > first.past
      BY <2>1, <3>1 DEF first
    <3>4. <<"BlockChallenge", i, "past">> \in Tasks /\ Kind(<<"BlockChallenge", i, "past">>) = "BlockChallenge"
      BY PastHandlers
    <3>5. ~ Runs(<<"BlockChallenge", i, "past">>)
      BY <3>2, <3>4 DEF PastIsHandled, Runs
    <3>6. ~ (i >= first.next)
      BY <3>2, ListenerTypes
    <3>. QED
      BY <3>5, <3>6 DEF RecordsInv
  <2>2. CASE kind = "ChallengeResponse"
    BY <1>10, <2>2 DEF RecordsInv
  <2>. QED
    BY <2>1, <2>2 DEF Kinds
<1>15. ReadInv' /\ LostInv'
  BY <1>1, <1>6, <1>8, ReadersAreSame
<1>. QED
  BY <1>6, <1>12, <1>13, <1>14, <1>15

\* A listener subscribes after the past events.
LEMMA SubscribeFromPastInv ==
  ASSUME Inv, NEW kind \in Kinds, SubscribeFromPast(kind)
  PROVE  Inv'
<1>1. listener[kind].past \in Nat
  BY ListenerTypes DEF Inv, Listeners
<1>. QED
  BY <1>1, SubscribeInv DEF SubscribeFromPast

\* A listener subscribes when there is none.
LEMMA GetBlockNumberInv ==
  ASSUME Inv, NEW kind \in Kinds, GetBlockNumber(kind)
  PROVE  Inv'
<1>1. PICK next \in {Len(log[kind]), Len(log[kind]) + 1} \ {0} : Subscribe(kind, next)
  BY DEF GetBlockNumber
<1>2. next \in Nat
  BY EventTypes DEF Inv
<1>. QED
  BY <1>1, <1>2, SubscribeInv DEF GetBlockNumber

-----------------------------------------------------------------------------
(* The steps of the handlers. *)

\* While a handler of a response runs, and while one runs at all that is not
\* that of a past challenge, all past challenges are in the records.
LEMMA AllRecorded ==
  ASSUME Inv, NEW i \in 1 .. first.past, first.phase # "past"
  PROVE  Recorded(raised[i])
BY DEF Inv, RecordsInv

\* A handler of a response runs only after the node has subscribed.
LEMMA ResponsesComeLater ==
  ASSUME Inv, NEW k \in Tasks, tasks[k].pc # "idle", Kind(k) = "ChallengeResponse"
  PROVE  first.phase = "subscribed"
<1>1. listener["ChallengeResponse"].phase \notin {"stopped", "none"}
  BY DEF Inv, HandlersInv
<1>. QED
  BY <1>1 DEF Inv, ListenersInv

\* The record that a handler reads has what the records have.
LEMMA GetInv ==
  ASSUME Inv, NEW k \in Tasks, Get(k)
  PROVE  Inv'
<1>. USE DEF Inv
<1>1. /\ UNCHANGED <<step, witnessed, log, mempool, stored, records, listener, restarts>>
  BY DEF Get, peg
<1>2. /\ tasks \in [Tasks -> Handlers] /\ tasks[k] \in Handlers /\ tasks[k].pc = "get"
      /\ records[Block(k)] \in Records
  BY HandlerTypes DEF TypeOK, Get, At
<1>3. tasks' = [tasks EXCEPT ![k] = [tasks[k] EXCEPT !.pc = "put", !.read = records[Block(k)]]]
  BY <1>2 DEF Get
<1>4. /\ [tasks[k] EXCEPT !.pc = "put", !.read = records[Block(k)]] \in Handlers
      /\ [tasks[k] EXCEPT !.pc = "put", !.read = records[Block(k)]].pc = "put"
      /\ [tasks[k] EXCEPT !.pc = "put", !.read = records[Block(k)]].read = records[Block(k)]
  BY <1>2 DEF Handlers
<1>5. /\ tasks' \in [Tasks -> Handlers]
      /\ tasks'[k].pc = "put" /\ tasks'[k].read = records[Block(k)]
      /\ \A j \in Tasks \ {k} : tasks'[j] = tasks[j]
  BY <1>2, <1>3, <1>4
<1>6. TypeOK'
  BY <1>1, <1>5 DEF TypeOK
<1>7. /\ first' = first /\ raised' = raised
      /\ \A j \in Tasks : Kind(j)' = Kind(j) /\ Block(j)' = Block(j) /\ Index(j)' = Index(j)
      /\ \A c : Recorded(c)' = Recorded(c)
      /\ \A j \in Tasks : Runs(j)' = Runs(j)
  BY <1>1, <1>2, <1>5 DEF first, raised, Kind, Block, Index, Recorded, Runs
<1>8. ListenersInv'
  BY <1>1, <1>7 DEF ListenersInv
<1>9. HandlersInv'
  BY <1>1, <1>2, <1>5, <1>7 DEF HandlersInv
<1>10. RecordsInv'
  <2>. SUFFICES ASSUME NEW i \in 1 .. first.past, first.phase = "past", Runs(<<"BlockChallenge", i, "past">>)
                PROVE  Runs(<<"BlockChallenge", i, "past">>)'
    BY <1>7 DEF RecordsInv
  <2>1. <<"BlockChallenge", i, "past">> \in Tasks
    BY PastHandlers
  <2>. QED
    BY <1>7, <2>1
<1>11. ReadInv'
  <2>. SUFFICES ASSUME NEW j \in Tasks, NEW i \in 1 .. first.past,
                       tasks'[j].pc = "put", Block(j) = raised[i][1], Recorded(raised[i])
                PROVE  tasks'[j].read[raised[i][2]] # "NONE"
    BY <1>7 DEF ReadInv
  <2>1. CASE j = k
    BY <1>5, <2>1 DEF Recorded
  <2>2. CASE j # k
    BY <1>5, <2>2 DEF ReadInv
  <2>. QED
    BY <2>1, <2>2
<1>12. LostInv'
  BY <1>5, <1>7 DEF LostInv, At
<1>. QED
  BY <1>6, <1>8, <1>9, <1>10, <1>11, <1>12

\* A handler that has written, thrown or gone on runs no longer; the rest of
\* the invariant is as it was unless the records change.
LEMMA GoesOn ==
  ASSUME Inv, NEW k \in Tasks, tasks[k].pc # "idle",
         NEW pc \in {"emitted", "answer", "done", "lost"}, Goto(k, pc),
         pc \in {"emitted", "answer"} => Kind(k) = "BlockChallenge",
         UNCHANGED <<log, restarts>>,
         listener' \in [Kinds -> Listeners], first' = first,
         \A m \in Kinds : /\ listener'[m].past = listener[m].past
                          /\ listener'[m].next = listener[m].next
                          /\ \/ listener'[m].phase = listener[m].phase
                             \/ first.phase = "subscribed" /\ listener'[m].phase = "failed"
  PROVE  /\ tasks' \in [Tasks -> Handlers]
         /\ raised' = raised
         /\ \A j \in Tasks : Kind(j)' = Kind(j) /\ Block(j)' = Block(j) /\ Index(j)' = Index(j)
         /\ tasks'[k].pc = pc
         /\ \A j \in Tasks \ {k} : tasks'[j] = tasks[j]
         /\ ListenersInv'
         /\ HandlersInv'
<1>. USE DEF Inv
<1>1. /\ tasks' \in [Tasks -> Handlers]
      /\ tasks'[k].pc = pc
      /\ \A j \in Tasks \ {k} : tasks'[j] = tasks[j]
  BY Gone
<1>2. /\ raised' = raised
      /\ \A j \in Tasks : Kind(j)' = Kind(j) /\ Block(j)' = Block(j) /\ Index(j)' = Index(j)
  BY DEF raised, Kind, Block, Index
<1>3. ListenersInv'
  <2>1. ASSUME NEW m \in Kinds
        PROVE  /\ listener'[m].past <= Len(log'[m])
               /\ listener'[m].phase \in {"stopped", "none"} => listener'[m].past = 0
               /\ listener'[m].phase = "past" => listener'[m].next \in 1 .. listener'[m].past + 1
    BY DEF ListenersInv
  <2>2. first.phase # "subscribed" => listener'["ChallengeResponse"].phase = "stopped"
    BY ListenerTypes DEF ListenersInv
  <2>. QED
    BY <1>2, <2>1, <2>2 DEF ListenersInv
<1>4. HandlersInv'
  <2>. SUFFICES ASSUME NEW j \in Tasks, tasks'[j].pc # "idle"
                PROVE  /\ j[2] \in DOMAIN log[Kind(j)]
                       /\ listener'[Kind(j)].phase \notin {"stopped", "none"}
                       /\ tasks'[j].pc \in {"emitted", "answer"} => Kind(j) = "BlockChallenge"
                       /\ first.phase = "past" /\ Runs(j)' => j = <<"BlockChallenge", first.next - 1, "past">>
    BY <1>2 DEF HandlersInv
  <2>1. tasks[j].pc # "idle"
    BY <1>1
  <2>2. /\ j[2] \in DOMAIN log[Kind(j)]
        /\ listener[Kind(j)].phase \notin {"stopped", "none"}
    BY <2>1 DEF HandlersInv
  <2>3. listener'[Kind(j)].phase \notin {"stopped", "none"}
    BY <2>2, TaskTypes
  <2>4. CASE j = k
    BY <1>1, <2>2, <2>3, <2>4 DEF Runs
  <2>5. CASE j # k
    <3>1. tasks'[j] = tasks[j]
      BY <1>1, <2>5
    <3>. QED
      BY <2>1, <2>2, <2>3, <3>1 DEF HandlersInv, Runs
  <2>. QED
    BY <2>4, <2>5
<1>. QED
  BY <1>1, <1>2, <1>3, <1>4

\* The record that is written has every past challenge that the records
\* had, and the challenge of the event.
LEMMA PutInv ==
  ASSUME Inv, NEW k \in Tasks, Put(k)
  PROVE  Inv'
<1>. USE DEF Inv
<1>. DEFINE b == Block(k)
            t == Index(k)
            new == IF Kind(k) = "ChallengeResponse" THEN "RECEIVED" ELSE "PENDING"
            pc == IF Kind(k) = "ChallengeResponse" THEN "done" ELSE "emitted"
            r == [tasks[k].read EXCEPT ![t] = new]
<1>1. /\ UNCHANGED <<step, witnessed, log, mempool, stored, listener, restarts>>
      /\ tasks[k].pc = "put"
  BY DEF Put, peg, At
<1>2. /\ tasks[k].read \in Records /\ b \in Blocks /\ t \in Transactions
      /\ Kind(k) \in Kinds /\ records \in [Blocks -> Records]
  BY <1>1, HandlerTypes DEF TypeOK
<1>3. r \in Records /\ r[t] # "NONE"
      /\ \A u \in Transactions : u # t => r[u] = tasks[k].read[u]
  <2>1. new \in Steps /\ new # "NONE"
    BY DEF Steps
  <2>. HIDE DEF new, b, t
  <2>. QED
    BY <1>2, <2>1, RecordTypes
<1>4. records' = [records EXCEPT ![b] = r]
  BY DEF Put
<1>5. /\ pc \in {"emitted", "done"} /\ Goto(k, pc)
      /\ pc = "emitted" => Kind(k) = "BlockChallenge"
  BY <1>2 DEF Put, Kinds
<1>. HIDE DEF b, t, new, pc, r
<1>6. records' \in [Blocks -> Records] /\ records'[b] = r
      /\ \A d \in Blocks \ {b} : records'[d] = records[d]
  BY <1>2, <1>3, <1>4
<1>7. first' = first
  BY <1>1 DEF first
<1>8. /\ tasks' \in [Tasks -> Handlers]
      /\ raised' = raised
      /\ \A j \in Tasks : Kind(j)' = Kind(j) /\ Block(j)' = Block(j) /\ Index(j)' = Index(j)
      /\ tasks'[k].pc = pc
      /\ \A j \in Tasks \ {k} : tasks'[j] = tasks[j]
      /\ ListenersInv'
      /\ HandlersInv'
  BY <1>1, <1>5, <1>7, GoesOn DEF TypeOK
<1>9. TypeOK'
  BY <1>1, <1>6, <1>8 DEF TypeOK
<1>10. ASSUME NEW i \in 1 .. first.past, Recorded(raised[i])
       PROVE  Recorded(raised[i])'
  <2>1. raised[i][1] \in Blocks /\ raised[i][2] \in Transactions /\ raised' = raised
    BY <1>8, PastTypes
  <2>2. CASE raised[i][1] = b
    <3>1. tasks[k].read[raised[i][2]] # "NONE"
      BY <1>1, <1>10, <2>2 DEF ReadInv, b
    <3>2. r[raised[i][2]] # "NONE"
      BY <1>3, <2>1, <3>1
    <3>. QED
      BY <1>6, <2>1, <2>2, <3>2 DEF Recorded
  <2>3. CASE raised[i][1] # b
    BY <1>6, <1>10, <2>1, <2>3 DEF Recorded
  <2>. QED
    BY <2>2, <2>3
<1>11. RecordsInv'
  <2>. SUFFICES ASSUME NEW i \in 1 .. first.past, first.phase = "past" => ~ (i >= first.next)
                PROVE  \/ Recorded(raised[i])'
                       \/ first.phase = "past" /\ Runs(<<"BlockChallenge", i, "past">>)'
    BY <1>7, <1>8 DEF RecordsInv
  <2>1. CASE Recorded(raised[i])
    BY <1>10, <2>1
  <2>2. CASE ~ Recorded(raised[i])
    <3>. DEFINE x == <<"BlockChallenge", i, "past">>
    <3>1. first.phase = "past" /\ Runs(x)
      BY <2>2 DEF RecordsInv
    <3>2. k = <<"BlockChallenge", first.next - 1, "past">>
      BY <1>1, <3>1 DEF HandlersInv, Runs
    <3>3. x \in Tasks
      BY PastHandlers
    <3>4. x = k
      BY <3>1, <3>2, <3>3 DEF HandlersInv, Runs
    <3>5. b = raised[i][1] /\ t = raised[i][2]
      BY <3>4 DEF Block, Index, b, t, raised
    <3>6. Recorded(raised[i])'
      <4>1. raised[i][1] \in Blocks /\ raised[i][2] \in Transactions
        BY PastTypes
      <4>. QED
        BY <1>3, <1>6, <1>8, <3>5, <4>1 DEF Recorded
    <3>. QED
      BY <3>6
  <2>. QED
    BY <2>1, <2>2
<1>12. ReadInv'
  <2>. SUFFICES ASSUME NEW j \in Tasks, NEW i \in 1 .. first.past,
                       tasks'[j].pc = "put", Block(j) = raised[i][1]
                PROVE  tasks'[j].read[raised[i][2]] # "NONE"
    BY <1>7, <1>8 DEF ReadInv
  <2>1. j # k /\ tasks'[j] = tasks[j]
    BY <1>5, <1>8
  <2>2. first.phase # "past"
    <3>. SUFFICES ASSUME first.phase = "past" PROVE j = k
      BY <2>1
    <3>. QED
      BY <1>1, <2>1 DEF HandlersInv, Runs
  <2>3. Recorded(raised[i])
    BY <2>2, AllRecorded
  <2>. QED
    BY <2>1, <2>3 DEF ReadInv
<1>13. LostInv'
  <2>1. tasks'[k].pc # "lost"
    BY <1>5, <1>8
  <2>. QED
    BY <1>7, <1>8, <2>1 DEF LostInv, At
<1>. QED
  BY <1>8, <1>9, <1>11, <1>12, <1>13

\* A step of a handler that leaves the records alone: of one that runs no
\* more, or that runs for a response.
LEMMA RecordsAreSame ==
  ASSUME Inv, NEW k \in Tasks, tasks[k].pc # "idle",
         Runs(k) => Kind(k) = "ChallengeResponse",
         tasks'[k].pc \notin {"get", "put"},
         \A j \in Tasks \ {k} : tasks'[j] = tasks[j],
         first' = first, raised' = raised, UNCHANGED records,
         \A j \in Tasks : Kind(j)' = Kind(j) /\ Block(j)' = Block(j) /\ Index(j)' = Index(j),
         tasks'[k].pc = "lost" /\ Kind(k) = "ChallengeResponse" =>
            \A i \in 1 .. first.past : <<Block(k), Index(k)>> # raised[i]
  PROVE  RecordsInv' /\ ReadInv' /\ LostInv'
<1>. USE DEF Inv
<1>1. \A c : Recorded(c)' = Recorded(c)
  BY DEF Recorded
<1>2. ReadInv'
  BY <1>1 DEF ReadInv
<1>3. LostInv'
  BY DEF LostInv, At
<1>4. RecordsInv'
  <2>. SUFFICES ASSUME NEW i \in 1 .. first.past, first.phase = "past",
                       Runs(<<"BlockChallenge", i, "past">>)
                PROVE  Runs(<<"BlockChallenge", i, "past">>)'
    BY <1>1 DEF RecordsInv
  <2>1. ~ Runs(k)
    BY ResponsesComeLater
  <2>2. <<"BlockChallenge", i, "past">> \in Tasks \ {k}
    BY <2>1, PastHandlers
  <2>. QED
    BY <2>2 DEF Runs
<1>. QED
  BY <1>2, <1>3, <1>4

\* The response to a past challenge finds it in what was read.
LEMMA ThrowInv ==
  ASSUME Inv, NEW k \in Tasks, Throw(k)
  PROVE  Inv'
<1>. USE DEF Inv
<1>1. /\ UNCHANGED <<step, witnessed, log, mempool, stored, records, restarts>>
      /\ tasks[k].pc = "put" /\ Kind(k) = "ChallengeResponse"
      /\ tasks[k].read[Index(k)] = "NONE" /\ Goto(k, "lost")
  BY DEF Throw, peg, At, Undefined
<1>2. first.phase = "subscribed"
  BY <1>1, ResponsesComeLater
<1>3. /\ listener' \in [Kinds -> Listeners] /\ first' = first
      /\ \A m \in Kinds : /\ listener'[m].past = listener[m].past
                           /\ listener'[m].next = listener[m].next
                           /\ \/ listener'[m].phase = listener[m].phase
                              \/ first.phase = "subscribed" /\ listener'[m].phase = "failed"
  <2>1. CASE k[3] = "past"
    <3>. DEFINE l == [listener["ChallengeResponse"] EXCEPT !.phase = "failed"]
    <3>1. /\ listener \in [Kinds -> Listeners]
          /\ listener["ChallengeResponse"] \in Listeners
      BY ListenerTypes DEF TypeOK
    <3>2. /\ l \in Listeners /\ l.phase = "failed"
          /\ l.past = listener["ChallengeResponse"].past
          /\ l.next = listener["ChallengeResponse"].next
      BY <3>1 DEF Listeners
    <3>3. listener' = [listener EXCEPT !["ChallengeResponse"] = l]
      BY <2>1, <3>1 DEF Throw
    <3>. HIDE DEF l
    <3>4. /\ listener'["ChallengeResponse"] = l /\ listener' \in [Kinds -> Listeners]
          /\ \A m \in Kinds \ {"ChallengeResponse"} : listener'[m] = listener[m]
      BY <3>1, <3>2, <3>3, ListenerTypes
    <3>. QED
      BY <1>2, <3>2, <3>4, ListenerTypes DEF first
  <2>2. CASE k[3] # "past"
    BY <2>2 DEF Throw, first, TypeOK
  <2>. QED
    BY <2>1, <2>2
<1>4. /\ tasks' \in [Tasks -> Handlers]
      /\ raised' = raised
      /\ \A j \in Tasks : Kind(j)' = Kind(j) /\ Block(j)' = Block(j) /\ Index(j)' = Index(j)
      /\ tasks'[k].pc = "lost"
      /\ \A j \in Tasks \ {k} : tasks'[j] = tasks[j]
      /\ ListenersInv'
      /\ HandlersInv'
  BY <1>1, <1>3, GoesOn
<1>5. TypeOK'
  BY <1>1, <1>3, <1>4 DEF TypeOK
<1>6. ASSUME NEW i \in 1 .. first.past, <<Block(k), Index(k)>> = raised[i]
      PROVE  FALSE
  <2>1. Recorded(raised[i])
    BY <1>2, AllRecorded
  <2>2. Block(k) = raised[i][1] /\ Index(k) = raised[i][2]
    BY <1>6
  <2>. QED
    BY <1>1, <2>1, <2>2 DEF ReadInv
<1>7. RecordsInv' /\ ReadInv' /\ LostInv'
  BY <1>1, <1>3, <1>4, <1>6, RecordsAreSame
<1>. QED
  BY <1>4, <1>5, <1>7

\* A challenge is answered, or not.
LEMMA handleChallengeInv ==
  ASSUME Inv, NEW k \in Tasks, handleChallenge(k)
  PROVE  Inv'
<1>. USE DEF Inv
<1>1. /\ UNCHANGED <<step, witnessed, log, mempool, stored, records, listener, restarts>>
      /\ tasks[k].pc = "emitted"
  BY DEF handleChallenge, peg, At
<1>2. Kind(k) = "BlockChallenge"
  BY <1>1 DEF HandlersInv
<1>3. PICK pc \in {"lost", "done", "answer"} : Goto(k, pc)
  BY DEF handleChallenge
<1>4. first' = first /\ listener \in [Kinds -> Listeners]
  BY <1>1 DEF first, TypeOK
<1>5. /\ tasks' \in [Tasks -> Handlers]
      /\ raised' = raised
      /\ \A j \in Tasks : Kind(j)' = Kind(j) /\ Block(j)' = Block(j) /\ Index(j)' = Index(j)
      /\ tasks'[k].pc = pc
      /\ \A j \in Tasks \ {k} : tasks'[j] = tasks[j]
      /\ ListenersInv'
      /\ HandlersInv'
  BY <1>1, <1>2, <1>3, <1>4, GoesOn
<1>6. TypeOK'
  BY <1>1, <1>5 DEF TypeOK
<1>7. RecordsInv' /\ ReadInv' /\ LostInv'
  BY <1>1, <1>2, <1>4, <1>5, RecordsAreSame DEF Runs
<1>. QED
  BY <1>5, <1>6, <1>7

\* An answer is sent.
LEMMA AnswerInv ==
  ASSUME Inv, NEW k \in Tasks, Answer(k)
  PROVE  Inv'
<1>. USE DEF Inv
<1>1. /\ UNCHANGED <<step, witnessed, log, stored, records, listener, restarts>>
      /\ mempool' = mempool \union {<<Block(k), Index(k)>>}
      /\ tasks[k].pc = "answer" /\ Goto(k, "done")
  BY DEF Answer, At
<1>2. Block(k) \in Blocks /\ Index(k) \in Transactions
  BY <1>1, HandlerTypes
<1>3. first' = first /\ listener \in [Kinds -> Listeners]
  BY <1>1 DEF first, TypeOK
<1>4. /\ tasks' \in [Tasks -> Handlers]
      /\ raised' = raised
      /\ \A j \in Tasks : Kind(j)' = Kind(j) /\ Block(j)' = Block(j) /\ Index(j)' = Index(j)
      /\ tasks'[k].pc = "done"
      /\ \A j \in Tasks \ {k} : tasks'[j] = tasks[j]
      /\ ListenersInv'
      /\ HandlersInv'
  BY <1>1, <1>3, GoesOn
<1>5. TypeOK'
  BY <1>1, <1>2, <1>4 DEF TypeOK, Challenges
<1>6. RecordsInv' /\ ReadInv' /\ LostInv'
  BY <1>1, <1>3, <1>4, RecordsAreSame DEF Runs
<1>. QED
  BY <1>4, <1>5, <1>6

-----------------------------------------------------------------------------
(* The specification. *)

\* Every step keeps the invariant.
LEMMA NextInv == Inv /\ [Next]_vars => Inv'
<1>. SUFFICES ASSUME Inv, [Next]_vars PROVE Inv'
  OBVIOUS
<1>1. CASE Next
  <2>1. ASSUME NEW c \in Challenges,
               challengeTransaction(c) \/ challengeTimeout(c) \/ respondToChallenge(c)
        PROVE  Inv'
    BY <2>1, ChallengeInv, TimeoutInv, RespondInv
  <2>2. ASSUME NEW b \in Blocks, putBlock(b) PROVE Inv'
    BY <2>2, PutBlockInv
  <2>3. CASE Restart
    BY <2>3, RestartInv
  <2>4. ASSUME NEW kind \in Kinds, ListenerStep(kind) PROVE Inv'
    BY <2>4, GetPastEventsInv, HandlePastEventInv, SubscribeFromPastInv,
       GetBlockNumberInv, DeliverInv DEF ListenerStep
  <2>5. ASSUME NEW k \in Tasks, TaskStep(k) PROVE Inv'
    BY <2>5, GetInv, PutInv, ThrowInv, handleChallengeInv, AnswerInv DEF TaskStep
  <2>. QED
    BY <1>1, <2>1, <2>2, <2>3, <2>4, <2>5 DEF Next
<1>2. CASE UNCHANGED vars
  <2>1. TypeOK'
    BY <1>2 DEF Inv, TypeOK, vars, peg, node
  <2>. QED
    BY <1>2, <2>1, NodeIsSame DEF vars, peg, node
<1>. QED
  BY <1>1, <1>2

\* The invariant holds always.
LEMMA Invariant == Spec => []Inv
BY InitInv, NextInv, PTL DEF Spec

\* The state of the node and of the peg has its type.
THEOREM Types == Spec => []TypeOK
BY Invariant, PTL DEF Inv

\* ChallengeDatabase: once the node has subscribed, the records have every
\* challenge that it found when it started, whatever the handlers of later
\* events write back.
THEOREM PastIsRecorded ==
  Spec => [](first.phase # "past" => \A i \in 1 .. first.past : Recorded(raised[i]))
<1>1. Inv => (first.phase # "past" => \A i \in 1 .. first.past : Recorded(raised[i]))
  BY AllRecorded
<1>. QED
  BY <1>1, Invariant, PTL

\* The handler of ChallengeResponse throws only at the response to a
\* challenge that was raised after the node had looked for past events.
THEOREM Responses == Spec => []ResponseThrowsOnlyIfNew
<1>1. Inv => ResponseThrowsOnlyIfNew
  <2>. SUFFICES ASSUME Inv, NEW k \in Tasks, Kind(k) = "ChallengeResponse", At(k, "lost"),
                       <<Block(k), Index(k)>> \in ToSet(SubSeq(raised, 1, first.past))
                PROVE  FALSE
    BY DEF ResponseThrowsOnlyIfNew, raised, first
  <2>. USE DEF Inv
  <2>1. /\ raised \in Seq(Challenges) /\ Len(raised) \in Nat /\ first.past \in Nat
        /\ first.past <= Len(raised)
    BY EventTypes, ListenerTypes DEF raised, first, ListenersInv
  <2>. DEFINE s == SubSeq(raised, 1, first.past)
  <2>2. Len(s) = first.past /\ \A i \in 1 .. first.past : s[i] = raised[i]
    BY <2>1
  <2>3. s \in Seq(Challenges)
    BY <2>1
  <2>. HIDE DEF s
  <2>4. PICK i \in DOMAIN s : s[i] = <<Block(k), Index(k)>>
    BY DEF ToSet, s
  <2>5. i \in 1 .. first.past
    BY <2>2, <2>3, <2>4
  <2>. QED
    BY <2>2, <2>4, <2>5 DEF LostInv
<1>. QED
  BY <1>1, Invariant, PTL
===============================================================================

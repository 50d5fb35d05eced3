---------------------------- MODULE MCBlockAudit ----------------------------
(* Instances of BlockAudit for TLC.                                        *)
EXTENDS BlockAudit, TLC

CONSTANTS zero, relay, coinbase, alice, bob, contract, fresh, wrong

Accounts == {zero, relay, coinbase, alice, bob, contract, fresh}

(* Taken from a set, so that TLC has put its fields in their order.        *)
ParentState == CHOOSE s \in {
    [balance |-> [a \in Accounts |-> IF a = alice THEN 6 ELSE IF a = bob THEN 1 ELSE 0],
     nonce |-> [a \in Accounts |-> 0],
     code |-> [a \in Accounts |-> a = contract],
     exits |-> <<>>]} : s = s

Incoming(from, to, value) ==
    [incoming |-> TRUE, from |-> from, to |-> to, nonce |-> 0, gas |-> 1,
     price |-> 0, value |-> value, data |-> 1]
MCQueue == <<Incoming(alice, bob, 1), Incoming(fresh, zero, 0),
             Incoming(alice, contract, 1), Incoming(alice, relay, 1)>>

Signed(from, to, nonce, gas, price, value, data) ==
    [incoming |-> FALSE, from |-> from, to |-> to, nonce |-> nonce, gas |-> gas,
     price |-> price, value |-> value, data |-> data]

(* A draft of a leaf: its form, its transaction and how its root is chosen. *)
Draft(form, t, claim) == [form |-> form, tx |-> t, claim |-> claim]
Claims == {"run", "simple", "wrong"}
AnySigned ==
    {Draft("signed", Signed(alice, to, n, g, p, v, d), c) :
        to \in Accounts \ {fresh}, n \in 0..1, g \in 1..4, p \in 0..1, v \in 0..2,
        d \in 0..1, c \in Claims}
Plain(to, c) == Draft("signed", Signed(alice, to, 0, 3, 1, 1, 0), c)
OddForms == {[Plain(bob, "run") EXCEPT !.form = f] : f \in Forms}
FewSigned ==
    {Plain(to, c) : to \in {bob, contract}, c \in Claims}
    \union {Draft("signed", Signed(from, relay, 0, 3, 1, 1, 1), "run") : from \in {alice, bob}}
    \union {Draft("signed", Signed(alice, bob, 1, 2, 0, 1, 0), c) : c \in Claims}
IncomingDrafts(n) == {Draft(f, MCQueue[n], c) : f \in {"root", "malformed"}, c \in Claims}

Ran(s, t) == IF CanRun(s, t) THEN runTx(s, t) ELSE s
RECURSIVE Filled(_, _)
Filled(s, drafts) ==
    IF drafts = <<>> THEN <<>>
    ELSE LET d == Head(drafts)
             after == IF d.claim # "simple" THEN Ran(s, d.tx)
                      ELSE IF d.tx.incoming THEN SimpleIncomingRoot(s, d.tx)
                      ELSE IF s.balance[d.tx.from] < d.tx.value + BaseGas * d.tx.price
                      THEN s
                      ELSE SimpleSignedRoot(s, d.tx.from, d.tx)
         IN <<[form |-> d.form, tx |-> d.tx,
               root |-> IF d.claim = "wrong" THEN wrong ELSE after]>>
            \o Filled(after, Tail(drafts))

ParentHeader(n) ==
    [number |-> 1, timestamp |-> 1, incomingIndex |-> 0, incomingCount |-> n,
     stateRoot |-> ParentState, exitsRoot |-> <<>>]

(* A block with the drafts ins and outs after n incoming transactions.     *)
Built(n, ins, outs) ==
    LET ls == Filled(ParentState, ins \o outs)
        root == IF ls = <<>> THEN ParentState ELSE ls[Len(ls)].root
    IN [parent |-> ParentHeader(n),
        header |-> [number |-> 2, timestamp |-> 2, incomingIndex |-> n,
                    incomingCount |-> Len(ins), stateRoot |-> root,
                    exitsRoot |-> IF root = wrong THEN <<>> ELSE root.exits],
        leaves |-> ls]

InRuns ==
    {<<n, <<>>>> : n \in 0..1}
    \union UNION {{<<n, <<d>>>> : d \in IncomingDrafts(n + 1)} : n \in 0..3}
OutRuns == {<<>>} \union {<<d>> : d \in OddForms \union FewSigned}
           \union {<<d, e>> : d \in FewSigned, e \in FewSigned}
OneEach ==
    {Built(0, <<>>, <<d>>) : d \in AnySigned}
    \union {Built(r[1], r[2], o) : r \in InRuns, o \in OutRuns}
    \union {Built(0, <<Draft("root", MCQueue[1], "run"), d>>, <<>>) : d \in IncomingDrafts(2)}

(* One field of the header is wrong.                                       *)
BadHeaders ==
    LET good == {Built(0, <<>>, <<Plain(bob, "run")>>),
                 Built(0, <<Draft("root", MCQueue[1], "run")>>, <<Plain(contract, "run")>>),
                 Built(0, <<>>, <<Draft("signed", Signed(alice, relay, 0, 3, 1, 1, 1), "run")>>)}
    IN UNION {{[b EXCEPT !.header.number = 1], [b EXCEPT !.header.timestamp = 1],
               [b EXCEPT !.header.incomingIndex = 1], [b EXCEPT !.header.incomingCount = 2],
               [b EXCEPT !.header.stateRoot = wrong],
               [b EXCEPT !.header.stateRoot = ParentState],
               [b EXCEPT !.header.exitsRoot = <<>>],
               [b EXCEPT !.header.exitsRoot = <<[from |-> bob, value |-> 1]>>]} : b \in good}
MCBlocks == OneEach \union BadHeaders
=============================================================================

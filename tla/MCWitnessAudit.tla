--------------------------- MODULE MCWitnessAudit ----------------------------
(* Instances of WitnessAudit for TLC.                                       *)
EXTENDS WitnessAudit, TLC

CONSTANTS zero, ones, relayAddress, precompile, c1, c2, alice, bob, carol, miner, slot,
          other

MCAddresses == {zero, ones, relayAddress, precompile, c1, c2, alice, bob, carol, miner}
MCContracts == {c1, c2}
MCMaxRecords == <<3, 1, 1>>

Funds == (alice :> 30) @@ (bob :> 1) @@ (c1 :> 2) @@ (c2 :> 1) @@ [a \in MCAddresses |-> 0]
NoSlots == [c \in {c1, c2} |-> [k \in {slot, other} |-> NoLeaf]]
World(leaf, exits) ==
    [balance |-> Funds, nonce |-> [a \in MCAddresses |-> 0],
     stored |-> {alice, bob, c1, c2},
     storage |-> [NoSlots EXCEPT ![c1][slot] = leaf], exits |-> exits]
Plain == World(NoLeaf, <<>>)
OneExit == <<[from |-> bob, value |-> 0, gas |-> 0]>>

Transaction(incoming, from, to, gas, value, data) ==
    [incoming |-> incoming, from |-> from, to |-> to, gas |-> gas,
     price |-> IF incoming THEN 0 ELSE 1, value |-> value, data |-> data]
Signed(to, gas, value, data) == Transaction(FALSE, alice, to, gas, value, data)

Ins(op, key, value, gas, data) ==
    [op |-> op, key |-> key, value |-> value, gas |-> gas, data |-> data]
Get(op, key) == Ins(op, key, 0, 0, "other")

Begin(state0, t, coinbase, cached, code, archived) ==
    [before |-> state0, tx |-> t, coinbase |-> coinbase, known |-> cached,
     code |-> code, archived |-> archived]

(* Accounts without code, the child relay, and incoming transactions.       *)
Simple ==
    {Begin(World(NoLeaf, exits), t, miner, {}, {}, {}) :
        exits \in {<<>>, OneExit},
        t \in {Signed(to, gas, value, data) : to \in {bob, carol, relayAddress},
                  gas \in {2, 8}, value \in {0, 1}, data \in {"exit", "lax", "other"}}
              \union {Transaction(TRUE, from, to, 8, value, data) :
                  from \in {zero, bob, carol}, to \in {carol, relayAddress},
                  value \in {0, 1}, data \in {"exit", "other"}}}

(* Instructions that only look.                                             *)
Looks ==
    {Begin(Plain, Signed(c1, 8, 1, "other"), coinbase, {}, code, archived) :
        coinbase \in {miner, zero}, archived \in {{}, {c1}},
        code \in {{Get("BALANCE", a) : a \in {c1, bob, carol}} \union {Get("SELFBALANCE", zero)},
                  {Get(op, a) : op \in {"EXTCODESIZE", "EXTCODEHASH", "EXTCODECOPY"},
                                a \in {c1, bob, carol}},
                  {Get(op, zero) : op \in {"COINBASE", "HEADER", "BLOCKHASH", "LOG"}}}}

(* Storage.                                                                 *)
Stores ==
    {Begin(World(leaf, <<>>), t, miner, cached, code, {}) :
        leaf \in {NoLeaf, Short(1), Short(2)},
        cached \in {{}, {c1}},
        t \in {Signed(c1, 14, 0, "other"), Transaction(TRUE, zero, c1, 12, 0, "other")},
        code \in {{Get("SLOAD", slot)} \union {Ins("SSTORE", slot, v, 0, "other") : v \in 0..2}}}

(* Messages to contracts and to the child relay.                            *)
Messages(exits, codes) ==
    {Begin(World(NoLeaf, exits), Signed(c1, 14, 0, "other"), miner, {}, code, {}) : code \in codes}
Calls ==
    Messages(<<>>,
        {{Ins("CALL", c2, 1, 5, "other"), Ins("CALL", c1, 1, 5, "other"),
          Ins("CALL", bob, 1, 1, "other"), Ins("SSTORE", slot, 0, 0, "other")},
         {Ins("CALL", c2, 3, 1, "other"), Ins("CALL", c2, 0, 1, "other"),
          Get("SELFBALANCE", zero), Get("LOG", zero)},
         {Ins("SSTORE", slot, 1, 0, "other"), Ins("STATICCALL", precompile, 0, 0, "other"),
          Ins("STATICCALL", c2, 0, 0, "other")}})
    \union UNION {Messages(exits,
        {{Ins("CALL", c2, 0, 5, "other"), Ins("CALL", relayAddress, 1, 4, "exit"),
          Get("SELFBALANCE", zero)},
         {Ins("CALL", relayAddress, v, g, "exit") : v \in {1, 3}, g \in {2, 4}}
         \union {Ins("CALL", relayAddress, 0, 4, d) : d \in {"lax", "other"}}})
        : exits \in {<<>>, OneExit}}

(* A message whose checkpoint is not the last one when it ends, and two or  *)
(* three checkpoints that are left open.                                    *)
Leaks ==
    {Begin(Plain, Signed(c1, 14, 0, "other"), miner, {},
           {Ins("CALL", c2, 1, 6, "other"), Get("SELFBALANCE", zero),
            Ins("STATICCALL", precompile, 0, 0, "other")}, {}),
     Begin(Plain, Transaction(TRUE, zero, c1, 12, 1, "other"), miner, {},
           {Ins("CALL", c2, v, 2, "other") : v \in {0, 1}}
           \union {Ins("STATICCALL", precompile, 0, 0, "other")}, {})}

(* What comes after a call that fails, and after a store into another slot. *)
Mixes ==
    {Begin(Plain, t, miner, {}, {Ins("CALL", c2, v, 1, "other")} \union code, {}) :
        v \in {0, 1},
        t \in {Signed(c1, 14, 0, "other"), Transaction(TRUE, zero, c1, 12, 1, "other")},
        code \in {{Get(op, c1) : op \in {"EXTCODESIZE", "EXTCODEHASH", "EXTCODECOPY"}},
                  {Ins("CALL", relayAddress, 0, 4, d) : d \in {"lax", "other"}},
                  {Ins("CALL", relayAddress, 2, 4, "exit")},
                  {Ins("SSTORE", slot, 1, 0, "other"), Ins("SSTORE", other, 1, 0, "other")}}}

MCSetups == Simple \union Looks \union Stores \union Calls \union Leaks \union Mixes
=============================================================================

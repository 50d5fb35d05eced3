------------------------------ MODULE MCVMParts ------------------------------
(* An instance for TLC of the two parts of the VM that know of nothing     *)
(* else, one at a time: a database with checkpoints under its state, and a *)
(* call of the interpreter on instructions that touch no state.            *)
EXTENDS CheckpointDB, Machine, TLC

MachineAtRest ==
    /\ code = <<>> /\ stack = <<>> /\ memory = <<>> /\ returnValue = <<>>
    /\ programCounter = 0 /\ memoryWordCount = 0 /\ gasLeft = 0
    /\ status = "none"

DatabaseAtRest == isBucket = FALSE /\ base = NoChanges /\ layers = <<>> /\ call = <<"none">>

PartsInit == (Init /\ MachineAtRest) \/ (MachineInit /\ DatabaseAtRest)
PartsNext ==
    \/ status = "none" /\ Next /\ UNCHANGED machineVars
    \/ MachineNext /\ UNCHANGED vars
PartsSpec == PartsInit /\ [][PartsNext]_<<vars, machineVars>>

Symmetry == Permutations(Keys) \union Permutations(Values)

-----------------------------------------------------------------------------

Few == {0, 1, 3, 13}
Operands(o) ==
    IF o \in Ternary THEN [1..3 -> {0, 1, 2, 5, 31, 32, 33, 62, 63}] ELSE IF o \in Unary THEN [1..1 -> Word]
    ELSE [1..2 -> Word]
Control == {"PUSH1", "PUSH2", "JUMP", "JUMPI", "JUMPDEST", "CREATE", "PC"}
Stacked == {"PUSH1", "DUP1", "DUP2", "SWAP1", "SWAP2", "POP", "ADD", "STOP", "GAS"}
Touching ==
    {"MLOAD", "MSTORE", "MSTORE8", "CALLDATALOAD", "CALLDATASIZE", "CALLDATACOPY",
     "CODESIZE", "CODECOPY", "RETURNDATASIZE", "RETURNDATACOPY", "MSIZE", "RETURN", "REVERT"}

Calls(cs, ss, gas) == [codes |-> cs, stacks |-> ss, gas |-> gas]
MCStarts ==
    {Calls({<<o>>}, Operands(o), 20) : o \in Arithmetic}
    \union {Calls([1..n -> Control], {<<>>}, 40) : n \in 0..5}
    \union {Calls([1..3 -> Stacked], {<<>>, <<4, 5>>, <<1, 2, 3>>}, 8),
            Calls([1..2 -> Touching], [1..4 -> Few], 10)}

MCCallData == <<1, 2, 3>>
MCReturnData == <<2, 1>>
MCByteOf ==
    [o \in Control \union Stacked \union Touching |->
        CASE o = "PUSH1" -> 2 [] o = "JUMP" -> 3 [] o = "JUMPDEST" -> 1 [] o = "PC" -> 2
          [] OTHER -> 0]
=============================================================================

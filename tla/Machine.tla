------------------------------- MODULE Machine -------------------------------
(***************************************************************************)
(* One call of the interpreter (packages/vm/lib/evm/interpreter.ts) on     *)
(* instructions that touch nothing outside it: the stack, the memory, the  *)
(* jumps and the data given to it.  The instructions that read or change   *)
(* the state, and calls, are in Interpreter.                               *)
(*                                                                         *)
(* A definition under a comment line that begins with \* is a mistaken     *)
(* form of the one after it, which no specification uses: it shows which   *)
(* property notices which mistake.                                         *)
(***************************************************************************)
EXTENDS Words

CONSTANTS
    StackLimit,   \* 1024
    MaxNumber,    \* the offsets that a JavaScript number and array can hold
    ByteOf,       \* the byte that stands for an instruction
    callData, returnData,   \* what every call is given
    Starts        \* the calls to look at: codes, stacks and gas

VARIABLES
    code,              \* the instructions of the call, and the data among them
    programCounter,    \* as in the code, from zero
    stack,             \* the top first
    memory,            \* bytes
    memoryWordCount,
    gasLeft,
    status,            \* run, success, revert or exception
    returnValue

machineVars == <<code, programCounter, stack, memory, memoryWordCount, gasLeft, status, returnValue>>

-----------------------------------------------------------------------------
PushSize(op) == CASE op = "PUSH1" -> 1 [] op = "PUSH2" -> 2 [] OTHER -> 0
DupPosition(op) == CASE op = "DUP1" -> 1 [] op = "DUP2" -> 2 [] OTHER -> 0
SwapPosition(op) == CASE op = "SWAP1" -> 1 [] op = "SWAP2" -> 2 [] OTHER -> 0
Pushed == {"PUSH1", "PUSH2"}
Copied == {"DUP1", "DUP2", "SWAP1", "SWAP2"}
Given == {"CALLDATASIZE", "CODESIZE", "RETURNDATASIZE", "PC", "MSIZE", "GAS"}
Copies == {"CALLDATACOPY", "CODECOPY", "RETURNDATACOPY"}
Ends == {"RETURN", "REVERT"}
Instructions ==
    Arithmetic \union Pushed \union Copied \union Given \union Copies \union Ends
    \union {"STOP", "POP", "MLOAD", "MSTORE", "MSTORE8", "CALLDATALOAD", "JUMP", "JUMPI",
            "JUMPDEST"}

(* How many words an instruction takes from the stack, and how many it     *)
(* puts there.                                                             *)
Pops(op) ==
    CASE op \in Ternary \union Copies -> 3
      [] op \in Binary \union Ends \union {"MSTORE", "MSTORE8", "JUMPI"} -> 2
      [] op \in Unary \union {"POP", "MLOAD", "CALLDATALOAD", "JUMP"} -> 1
      [] op \in Copied -> DupPosition(op)
      [] OTHER -> 0

Pushes(op) ==
    IF op \in Arithmetic \union Pushed \union Given \union {"MLOAD", "CALLDATALOAD"} THEN 1
    ELSE 0

fee(op) ==
    CASE op \in {"STOP", "RETURN", "REVERT"} -> 0
      [] op = "JUMPDEST" -> 1
      [] op \in Given \union {"POP"} -> 2
      [] op \in {"MUL", "DIV", "SDIV", "MOD", "SMOD", "SIGNEXTEND"} -> 5
      [] op \in {"ADDMOD", "MULMOD", "JUMP"} -> 8
      [] op \in {"EXP", "JUMPI"} -> 10
      [] OTHER -> 3

-----------------------------------------------------------------------------
\* A jump may lead into the bytes that follow a PUSH.
JumpsEverywhere(c) == {i \in 0..Len(c) - 1 : c[i + 1] = "JUMPDEST"}

(* The scan of the code for the destinations of jumps.                     *)
_getValidJumpDests(c) ==
    LET Scan(r, i) ==
            IF i < r.next THEN r
            ELSE [next |-> i + 1 + PushSize(c[i + 1]),
                  dests |-> IF c[i + 1] = "JUMPDEST" THEN r.dests \union {i} ELSE r.dests]
    IN FoldLeft(Scan, [next |-> 0, dests |-> {}], [i \in 1..Len(c) |-> i - 1]).dests

jumpIsValid(dest) == dest <= Len(code) /\ dest \in _getValidJumpDests(code)

(* The bytes after a PUSH, fewer where the code ends.                      *)
Loaded(at, n) ==
    fromBytes([i \in 1..Min({n, Len(code) - at}) |-> ByteOf[code[at + i]]])

-----------------------------------------------------------------------------
divCeil(a, b) == (a + b - 1) \div b

extend(m, offset, size) ==
    IF size = 0 THEN m
    ELSE m \o [i \in 1..Bytes * divCeil(offset + size, Bytes) - Len(m) |-> 0]

write(m, offset, value) ==
    [i \in 1..Len(m) |->
        IF i - offset \in 1..Len(value) THEN value[i - offset] ELSE m[i]]

read(m, offset, size) ==
    [i \in 1..size |-> IF offset + i <= Len(m) THEN m[offset + i] ELSE 0]

\* The size is counted without the offset.
MemUsageOfSize(offset, length) ==
    Max({memoryWordCount, divCeil(length, Bytes)})

subMemUsage(offset, length) ==
    IF length = 0 THEN memoryWordCount
    ELSE Max({memoryWordCount, divCeil(offset + length, Bytes)})

getDataSlice(data, offset, length) ==
    [i \in 1..length |-> IF offset + i <= Len(data) THEN data[offset + i] ELSE 0]

Store(offset, value) ==
    /\ memory' = write(extend(memory, offset, Len(value)), offset, value)
    /\ memoryWordCount' = subMemUsage(offset, Len(value))

-----------------------------------------------------------------------------
MachineInit ==
    /\ \E s \in Starts : code \in s.codes /\ stack \in s.stacks /\ gasLeft = s.gas
    /\ programCounter = 0
    /\ memory = <<>> /\ memoryWordCount = 0
    /\ status = "run"
    /\ returnValue = <<>>

Running == status = "run" /\ programCounter < Len(code)
op == code[programCounter + 1]
Rest == SubSeq(stack, Pops(op) + 1, Len(stack))

(* The operands that become numbers, as offsets or lengths.                *)
Numbers ==
    CASE op \in {"MLOAD", "MSTORE", "MSTORE8"} -> {stack[1]}
      [] op \in Ends -> IF stack[2] = 0 THEN {} ELSE {stack[1], stack[2]}
      [] op \in Copies -> {stack[1], stack[3]}
      [] OTHER -> {}

Underflow == Len(stack) < Pops(op) \/ (op \in Copied /\ Len(stack) <= SwapPosition(op))
Overflow ==
    \/ Pushes(op) = 1 /\ Len(stack) - Pops(op) >= StackLimit
    \/ DupPosition(op) > 0 /\ Len(stack) >= StackLimit
BadJump ==
    /\ op = "JUMP" \/ (op = "JUMPI" /\ stack[2] # 0)
    /\ ~jumpIsValid(stack[1])

Fails ==
    IF op \notin Instructions THEN TRUE
    ELSE IF Underflow THEN TRUE
    ELSE \/ gasLeft < fee(op) \/ Overflow \/ BadJump
         \/ op = "RETURNDATACOPY" /\ stack[2] + stack[3] > Len(returnData)
         \/ \E n \in Numbers : n > MaxNumber

(* The instruction goes on to the one after it.                            *)
Does(S) ==
    /\ Running /\ op \in S /\ ~Fails
    /\ gasLeft' = gasLeft - fee(op)
    /\ UNCHANGED code
Goes(n) == programCounter' = programCounter + 1 + n /\ UNCHANGED <<status, returnValue>>
KeepsMemory == UNCHANGED <<memory, memoryWordCount>>

(* An error uses up the gas and gives no result.                           *)
Trap ==
    /\ Running /\ Fails
    /\ status' = "exception"
    /\ gasLeft' = 0
    /\ UNCHANGED <<code, programCounter, stack, memory, memoryWordCount, returnValue>>

Stop ==
    /\ \/ Does({"STOP"})
       \/ status = "run" /\ programCounter >= Len(code) /\ UNCHANGED <<code, gasLeft>>
    /\ status' = "success"
    /\ UNCHANGED <<programCounter, stack, memory, memoryWordCount, returnValue>>

Calculate ==
    /\ Does(Arithmetic)
    /\ stack' = <<Compute(op, stack)>> \o Rest
    /\ Goes(0) /\ KeepsMemory

Push ==
    /\ Does(Pushed)
    /\ stack' = <<Loaded(programCounter + 1, PushSize(op))>> \o stack
    /\ Goes(PushSize(op)) /\ KeepsMemory

Pop ==
    /\ Does({"POP", "JUMPDEST"})
    /\ stack' = Rest
    /\ Goes(0) /\ KeepsMemory

DupSwap ==
    /\ Does(Copied)
    /\ stack' = IF DupPosition(op) > 0 THEN <<stack[DupPosition(op)]>> \o stack
                ELSE [stack EXCEPT ![1] = stack[SwapPosition(op) + 1],
                                   ![SwapPosition(op) + 1] = stack[1]]
    /\ Goes(0) /\ KeepsMemory

Give ==
    /\ Does(Given)
    /\ stack' = <<CASE op = "CALLDATASIZE" ->
                         IF callData = <<0>> THEN 0 ELSE Len(callData)
                    [] op = "CODESIZE" -> Len(code)
                    [] op = "RETURNDATASIZE" -> Len(returnData)
                    [] op = "PC" -> programCounter
                    [] op = "MSIZE" -> memoryWordCount * Bytes
                    [] op = "GAS" -> gasLeft - fee(op)>> \o stack
    /\ Goes(0) /\ KeepsMemory

Jump ==
    /\ Does({"JUMP", "JUMPI"})
    /\ stack' = Rest
    /\ programCounter' = IF op = "JUMP" \/ stack[2] # 0 THEN stack[1] ELSE programCounter + 1
    /\ KeepsMemory /\ UNCHANGED <<status, returnValue>>

MemoryStore ==
    /\ Does({"MSTORE", "MSTORE8"})
    /\ stack' = Rest
    /\ Store(stack[1], IF op = "MSTORE" THEN toBytes(stack[2])
                       ELSE <<stack[2] % 2 ^ ByteBits>>)
    /\ Goes(0)

MemoryLoad ==
    /\ Does({"MLOAD"})
    /\ stack' = <<fromBytes(read(memory, stack[1], Bytes))>> \o Rest
    /\ memoryWordCount' = subMemUsage(stack[1], Bytes)
    /\ Goes(0) /\ UNCHANGED memory

CallDataLoad ==
    /\ Does({"CALLDATALOAD"})
    /\ stack' = <<fromBytes(getDataSlice(callData, stack[1], Bytes))>> \o Rest
    /\ Goes(0) /\ KeepsMemory

Copy ==
    /\ Does(Copies)
    /\ stack' = Rest
    /\ LET data == CASE op = "CALLDATACOPY" -> callData
                     [] op = "CODECOPY" -> [i \in 1..Len(code) |-> ByteOf[code[i]]]
                     [] op = "RETURNDATACOPY" -> returnData
       IN Store(stack[1], getDataSlice(data, stack[2], stack[3]))
    /\ Goes(0)

Return ==
    /\ Does(Ends)
    /\ stack' = Rest
    /\ memoryWordCount' = subMemUsage(stack[1], stack[2])
    /\ returnValue' = read(memory, stack[1], stack[2])
    /\ status' = IF op = "RETURN" THEN "success" ELSE "revert"
    /\ UNCHANGED <<programCounter, memory>>

MachineNext ==
    \/ Trap \/ Stop \/ Calculate \/ Push \/ Pop \/ DupSwap \/ Give \/ Jump
    \/ MemoryStore \/ MemoryLoad \/ CallDataLoad \/ Copy \/ Return

MachineSpec == MachineInit /\ [][MachineNext]_machineVars

-----------------------------------------------------------------------------
(* Each arithmetic instruction (opFns.ts) leaves what it promises on the   *)
(* stack, and the rest of the stack as it was, whatever the signs and      *)
(* sizes of its operands.                                                  *)
WordsAreExact ==
    [][Running /\ op \in Arithmetic /\ status' = "run" =>
         Promised(op, stack, Head(stack')) /\ Tail(stack') = Rest]_machineVars

(* The instructions that follow each other from the first one, without the *)
(* bytes after a PUSH.                                                     *)
InstructionStarts ==
    LET Reach(S) == S \union {i + 1 + PushSize(code[i + 1]) : i \in S \ {i \in S : i >= Len(code)}}
        F[n \in 0..Len(code)] == IF n = 0 THEN {0} ELSE Reach(F[n - 1])
    IN F[Len(code)]

(* What is executed is always an instruction of the code as it is read     *)
(* from its start: no jump leads into the bytes after a PUSH               *)
(* (interpreter.ts, _getValidJumpDests).                                   *)
NoJumpIntoData == programCounter < Len(code) => programCounter \in InstructionStarts

(* The memory is whole words, and MSIZE, which is counted apart from it,   *)
(* is never less than what was written (opFns.ts, subMemUsage).            *)
MemoryIsCounted ==
    Len(memory) % Bytes = 0 /\ Len(memory) <= memoryWordCount * Bytes
=============================================================================

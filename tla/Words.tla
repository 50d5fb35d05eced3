-------------------------------- MODULE Words --------------------------------
(***************************************************************************)
(* The arithmetic instructions of packages/vm/lib/evm/opFns.ts, on words   *)
(* of Bytes bytes of ByteBits bits, and what each of them promises.  The   *)
(* integers of bn.js have any size, so that each instruction must itself   *)
(* bring its result back to a word.                                        *)
(*                                                                         *)
(* A definition under a comment line that begins with \* is a mistaken     *)
(* form of the one after it, which no specification uses: it shows which   *)
(* property notices which mistake.                                         *)
(***************************************************************************)
EXTENDS Integers, Sequences, SequencesExt, Bitwise

CONSTANTS ByteBits,   \* the bits of a byte: 8
          Bytes       \* the bytes of a word: 32

ASSUME WordsAssumption == ByteBits \in Nat \ {0} /\ Bytes \in Nat \ {0, 1}

Width == ByteBits * Bytes
TWO_POW256 == 2 ^ Width
MAX_INTEGER == TWO_POW256 - 1
Word == 0..MAX_INTEGER
Byte == 0..2 ^ ByteBits - 1

Truth(p) == IF p THEN 1 ELSE 0
Magnitude(n) == IF n < 0 THEN -n ELSE n

-----------------------------------------------------------------------------
(* The functions of bn.js that the instructions use.                       *)
testn(a, bit) == (a \div 2 ^ bit) % 2 = 1
notn(a) == MAX_INTEGER - a
shln(a, n) == a * 2 ^ n
shrn(a, n) == a \div 2 ^ n
fromTwos(a) == IF testn(a, Width - 1) THEN -(notn(a) + 1) ELSE a
toTwos(n) == IF n < 0 THEN notn(-n) + 1 ELSE n

(* Division that rounds towards zero.                                      *)
Quotient(m, n) ==
    IF (m < 0) = (n < 0) THEN Magnitude(m) \div Magnitude(n)
    ELSE -(Magnitude(m) \div Magnitude(n))

(* The power by squaring, from the highest bit of the exponent.            *)
redPow(base, exponent) ==
    LET Bit(r, i) ==
            LET square == (r * r) % TWO_POW256
            IN IF testn(exponent, Width - i) THEN (square * base) % TWO_POW256 ELSE square
    IN FoldLeft(Bit, 1, [i \in 1..Width |-> i])

(* The bytes of a word, the highest first.                                 *)
toBytes(a) == [i \in 1..Bytes |-> (a \div 2 ^ (ByteBits * (Bytes - i))) % 2 ^ ByteBits]
fromBytes(s) == FoldLeft(LAMBDA r, b : r * 2 ^ ByteBits + b, 0, s)

-----------------------------------------------------------------------------
SDIV(a, b) == IF b = 0 THEN 0 ELSE toTwos(Quotient(fromTwos(a), fromTwos(b)))

SMOD(a, b) ==
    LET r == Magnitude(fromTwos(a)) % Magnitude(fromTwos(b))
    IN IF b = 0 THEN 0 ELSE toTwos(IF fromTwos(a) < 0 THEN -r ELSE r)

EXP(base, exponent) ==
    IF exponent = 0 THEN 1 ELSE IF base = 0 THEN 0 ELSE redPow(base, exponent)

SIGNEXTEND(k, val) ==
    LET signBit == k * ByteBits + ByteBits - 1
        mask == 2 ^ signBit - 1
    IN IF k >= Bytes - 1 THEN val
       ELSE IF testn(val, signBit) THEN val | notn(mask) ELSE val & mask

BYTE(pos, word) ==
    IF pos >= Bytes THEN 0
    ELSE shrn(word, (Bytes - 1 - pos) * ByteBits) & (2 ^ ByteBits - 1)

SHL(a, b) == IF a >= Width THEN 0 ELSE shln(b, a) & MAX_INTEGER
SHR(a, b) == IF a >= Width THEN 0 ELSE shrn(b, a)

\* A shift by a word or more forgets the sign.
SarToZero(a, b) ==
    LET shiftedOutWidth == Width - 1 - a
        mask == shln(shrn(MAX_INTEGER, shiftedOutWidth), shiftedOutWidth)
    IN IF a >= Width THEN 0
       ELSE IF testn(b, Width - 1) THEN shrn(b, a) | mask ELSE shrn(b, a)

SAR(a, b) ==
    LET shiftedOutWidth == Width - 1 - a
        mask == shln(shrn(MAX_INTEGER, shiftedOutWidth), shiftedOutWidth)
    IN IF a >= Width THEN IF testn(b, Width - 1) THEN MAX_INTEGER ELSE 0
       ELSE IF testn(b, Width - 1) THEN shrn(b, a) | mask ELSE shrn(b, a)

Unary == {"ISZERO", "NOT"}
Ternary == {"ADDMOD", "MULMOD"}
Binary == {"ADD", "MUL", "SUB", "DIV", "SDIV", "MOD", "SMOD", "EXP", "SIGNEXTEND",
           "LT", "GT", "SLT", "SGT", "EQ", "AND", "OR", "XOR", "BYTE", "SHL", "SHR", "SAR"}
Arithmetic == Unary \union Binary \union Ternary

(* The word that op pushes for the words s from the top of the stack.      *)
Compute(op, s) ==
    LET a == s[1]  b == s[2]  c == s[3]
    IN CASE op = "ADD" -> (a + b) % TWO_POW256
         [] op = "MUL" -> (a * b) % TWO_POW256
         [] op = "SUB" -> toTwos(a - b)
         [] op = "DIV" -> IF b = 0 THEN 0 ELSE a \div b
         [] op = "SDIV" -> SDIV(a, b)
         [] op = "MOD" -> IF b = 0 THEN 0 ELSE a % b
         [] op = "SMOD" -> SMOD(a, b)
         [] op = "ADDMOD" -> IF c = 0 THEN 0 ELSE (a + b) % c
         [] op = "MULMOD" -> IF c = 0 THEN 0 ELSE (a * b) % c
         [] op = "EXP" -> EXP(a, b)
         [] op = "SIGNEXTEND" -> SIGNEXTEND(a, b)
         [] op = "LT" -> Truth(a < b)
         [] op = "GT" -> Truth(a > b)
         [] op = "SLT" -> Truth(fromTwos(a) < fromTwos(b))
         [] op = "SGT" -> Truth(fromTwos(a) > fromTwos(b))
         [] op = "EQ" -> Truth(a = b)
         [] op = "ISZERO" -> Truth(a = 0)
         [] op = "AND" -> a & b
         [] op = "OR" -> a | b
         [] op = "XOR" -> a ^^ b
         [] op = "NOT" -> notn(a)
         [] op = "BYTE" -> BYTE(a, b)
         [] op = "SHL" -> SHL(a, b)
         [] op = "SHR" -> SHR(a, b)
         [] op = "SAR" -> SAR(a, b)

-----------------------------------------------------------------------------
(* What the instructions promise, without the functions above.  The number *)
(* that the lowest n bits of a word stand for, with a sign:                *)
Signed(a, n) ==
    CHOOSE m \in -(2 ^ (n - 1))..2 ^ (n - 1) - 1 : (m - a) % 2 ^ n = 0

(* r is the word of the integer m.                                         *)
IsWordOf(r, m) == r \in Word /\ (r - m) % TWO_POW256 = 0

(* m divided by n is q with the rest r, which has the sign of m.           *)
Divides(m, n, q, r) == m = q * n + r /\ Magnitude(r) < Magnitude(n) /\ r * m >= 0

PerBit(r, a, b, P(_, _)) ==
    r \in Word /\ \A i \in 0..Width - 1 : testn(r, i) = P(testn(a, i), testn(b, i))

Promised(op, s, r) ==
    LET a == s[1]  b == s[2]  c == s[3]
        signed(w) == Signed(w, Width)
        power == 2 ^ Min({a, Width})
    IN CASE op = "ADD" -> IsWordOf(r, a + b)
         [] op = "MUL" -> IsWordOf(r, a * b)
         [] op = "SUB" -> IsWordOf(r, a - b)
         [] op = "DIV" -> IF b = 0 THEN r = 0 ELSE Divides(a, b, r, a - r * b)
         [] op = "MOD" -> IF b = 0 THEN r = 0 ELSE \E q \in Word : Divides(a, b, q, r)
         [] op = "SDIV" ->
              IF b = 0 THEN r = 0
              ELSE \E q \in -TWO_POW256..TWO_POW256 :
                     /\ Divides(signed(a), signed(b), q, signed(a) - q * signed(b))
                     /\ IsWordOf(r, q)
         [] op = "SMOD" ->
              IF b = 0 THEN r = 0
              ELSE \E q \in -TWO_POW256..TWO_POW256 :
                     Divides(signed(a), signed(b), q, signed(r))
         [] op = "ADDMOD" -> IF c = 0 THEN r = 0 ELSE r \in 0..c - 1 /\ (a + b - r) % c = 0
         [] op = "MULMOD" -> IF c = 0 THEN r = 0 ELSE r \in 0..c - 1 /\ (a * b - r) % c = 0
         [] op = "EXP" -> IF b = 0 THEN r = 1 ELSE IsWordOf(r, a * Compute(op, <<a, b - 1>>))
         [] op = "SIGNEXTEND" ->
              IsWordOf(r, IF a < Bytes THEN Signed(b, (a + 1) * ByteBits) ELSE b)
         [] op = "LT" -> r = Truth(a < b)
         [] op = "GT" -> r = Truth(b < a)
         [] op = "SLT" -> r = Truth(signed(a) < signed(b))
         [] op = "SGT" -> r = Truth(signed(b) < signed(a))
         [] op = "EQ" -> r = Truth(a = b)
         [] op = "ISZERO" -> r = Truth(a = 0)
         [] op = "AND" -> PerBit(r, a, b, LAMBDA x, y : x /\ y)
         [] op = "OR" -> PerBit(r, a, b, LAMBDA x, y : x \/ y)
         [] op = "XOR" -> PerBit(r, a, b, LAMBDA x, y : x # y)
         [] op = "NOT" -> PerBit(r, a, a, LAMBDA x, y : ~x)
         [] op = "BYTE" -> r = IF a < Bytes THEN toBytes(b)[a + 1] ELSE 0
         [] op = "SHL" -> IsWordOf(r, b * power)
         [] op = "SHR" -> r = b \div power
         [] op = "SAR" -> IsWordOf(r, signed(b) \div power)
=============================================================================

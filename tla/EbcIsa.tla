------------------------------- MODULE EbcIsa -------------------------------
(***************************************************************************)
(* The instruction set of EBC as data: opcodes, the bits of the two bytes  *)
(* every instruction begins with, integers of a given number of bytes, and *)
(* the encoding of indexes.  A byte has BYTE bits, so that TLC can look at *)
(* words of eight bytes; the two bytes of an instruction and the 16 bits   *)
(* of an index are always real ones.                                       *)
(***************************************************************************)
EXTENDS Integers, Sequences

CONSTANTS
  BYTE,     \* bits in a byte of data
  NATURAL   \* sizeof (UINTN)

ASSUME WidthAssumption == BYTE \in Nat \ {0} /\ NATURAL \in {4, 8}

OP == [
  BREAK |-> 0, JMP |-> 1, JMP8 |-> 2, CALL |-> 3, RET |-> 4,
  CMPEQ |-> 5, CMPLTE |-> 6, CMPGTE |-> 7, CMPULTE |-> 8, CMPUGTE |-> 9,
  NOT |-> 10, NEG |-> 11, ADD |-> 12, SUB |-> 13, MUL |-> 14, MULU |-> 15,
  DIV |-> 16, DIVU |-> 17, MOD |-> 18, MODU |-> 19, AND |-> 20, OR |-> 21,
  XOR |-> 22, SHL |-> 23, SHR |-> 24, ASHR |-> 25,
  EXTNDB |-> 26, EXTNDW |-> 27, EXTNDD |-> 28,
  MOVBW |-> 29, MOVWW |-> 30, MOVDW |-> 31, MOVQW |-> 32,
  MOVBD |-> 33, MOVWD |-> 34, MOVDD |-> 35, MOVQD |-> 36,
  MOVSNW |-> 37, MOVSND |-> 38, MOVQQ |-> 40,
  LOADSP |-> 41, STORESP |-> 42, PUSH |-> 43, POP |-> 44,
  CMPIEQ |-> 45, CMPILTE |-> 46, CMPIGTE |-> 47, CMPIULTE |-> 48, CMPIUGTE |-> 49,
  MOVNW |-> 50, MOVND |-> 51, PUSHN |-> 53, POPN |-> 54,
  MOVI |-> 55, MOVIN |-> 56, MOVREL |-> 57 ]

-----------------------------------------------------------------------------
\* The bytes of an instruction.
Bit(byte, n) == (byte \div 2^n) % 2 = 1

Opcode(i)  == i.opcode % 64
Immediate(i) == Bit(i.opcode, 7)   \* OPCODE_M_IMMDATA, PUSHPOP_M_IMMDATA, ...
Wide(i)      == Bit(i.opcode, 6)   \* OPCODE_M_IMMDATA64, DATAMANIP_M_64, ...

OPERAND1_REGNUM(i)   == i.operands % 8
OPERAND1_INDIRECT(i) == Bit(i.operands, 3)
OPERAND2_REGNUM(i)   == (i.operands \div 16) % 8
OPERAND2_INDIRECT(i) == Bit(i.operands, 7)

If(b, text) == IF b THEN text ELSE <<>>

\* Bytes of an index of MOVxx.
IndexSize(op) ==
  IF op <= OP.MOVQW \/ op = OP.MOVNW THEN 2
  ELSE IF op <= OP.MOVQD \/ op = OP.MOVND THEN 4 ELSE 8

\* Bytes of the immediate datum of MOVI, MOVIn and MOVREL; 0 is no width.
DataWidth(i) == <<0, 2, 4, 8>>[1 + i.opcode \div 64]

\* What follows the two bytes of an instruction, in order: an index of so many
\* bytes, or, where there is a 0, an immediate number.
Kinds(i) ==
  LET op == Opcode(i)
      hi == Bit(i.opcode, 7)
      lo == Bit(i.opcode, 6)
      IndexOr(bytes, b) == IF b THEN bytes ELSE 0
  IN CASE op \in {OP.JMP, OP.CALL} ->
            If(hi, <<IndexOr(4, ~ lo /\ OPERAND1_INDIRECT(i))>>)
       [] op \in OP.CMPEQ .. OP.EXTNDD -> If(hi, <<IndexOr(2, OPERAND2_INDIRECT(i))>>)
       [] op \in {OP.PUSH, OP.POP, OP.PUSHN, OP.POPN} -> If(hi, <<IndexOr(2, OPERAND1_INDIRECT(i))>>)
       [] op \in OP.CMPIEQ .. OP.CMPIUGTE -> If(Bit(i.operands, 4), <<2>>) \o <<0>>
       [] op \in {OP.MOVI, OP.MOVREL} -> If(Bit(i.operands, 6), <<2>>) \o If(hi \/ lo, <<0>>)
       [] op = OP.MOVIN -> If(Bit(i.operands, 6), <<2>>) \o If(hi \/ lo, <<DataWidth(i)>>)
       [] op \in {OP.MOVSNW, OP.MOVSND} ->
            LET bytes == IF op = OP.MOVSNW THEN 2 ELSE 4
            IN If(hi, <<bytes>>) \o If(lo, <<IndexOr(bytes, OPERAND2_INDIRECT(i))>>)
       [] op \in OP.MOVBW .. OP.MOVQD \cup {OP.MOVQQ, OP.MOVNW, OP.MOVND} ->
            If(hi, <<IndexSize(op)>>) \o If(lo, <<IndexSize(op)>>)
       [] OTHER -> <<>>

-----------------------------------------------------------------------------
\* Unsigned and signed integers of some bytes.
Cells(bytes) == 2^(BYTE * bytes)

UInt(x, bytes) == x % Cells(bytes)

SInt(x, bytes) ==
  IF UInt(x, bytes) < Cells(bytes) \div 2 THEN UInt(x, bytes)
  ELSE UInt(x, bytes) - Cells(bytes)

\* C division rounds towards zero.
Quotient(x, y) ==
  LET Abs(z) == IF z < 0 THEN -z ELSE z
      q == Abs(x) \div Abs(y)
  IN IF (x < 0) = (y < 0) THEN q ELSE -q

Remainder(x, y) == x - Quotient(x, y) * y

\* The number whose bit n is set when the bits n of x and y are one of the pairs.
BitOp(pairs, x, y) ==
  LET Sum[n \in 0 .. 8 * BYTE] ==
        IF n = 0 THEN 0
        ELSE Sum[n - 1] + (IF <<Bit(x, n - 1), Bit(y, n - 1)>> \in pairs THEN 2^(n - 1) ELSE 0)
  IN Sum[8 * BYTE]

-----------------------------------------------------------------------------
(***************************************************************************)
(* An index of 4 * unit + 8 bits and more: a sign, the number of natural   *)
(* bits in units, then constant and natural units.  The mask of the        *)
(* natural bits may reach into the field that holds their number.          *)
(***************************************************************************)
Index(index, bits, unit) ==
  LET natBits  == unit * ((index \div 2^(bits - 4)) % 8)
      sign     == IF Bit(index, bits - 1) THEN -1 ELSE 1
      natural  == index % 2^natBits
      constant == (index % 2^(bits - 4)) \div 2^natBits
      Wrap(x)  == IF x % 2^bits < 2^(bits - 1) THEN x % 2^bits ELSE (x % 2^bits) - 2^bits
  IN [Offset |-> Wrap(sign * Wrap(natural * NATURAL + constant)),
      NaturalUnits |-> sign * natural,
      ConstUnits |-> sign * constant]

VmReadIndex16(index) == Index(index, 16, 2)

\* Fourteen natural bits reach into the field that holds their number.
Overlong(index) == (index \div 2^12) % 8 = 7

\* Indexes of four and eight bytes are records [Sign, NBits, Rest] of their
\* fields, because TLC's integers do not hold them; no mask reaches the number
\* of natural bits here.
SplitIndex(index, unit) ==
  LET natBits == unit * index.NBits
      natural == index.Rest % 2^natBits
      constant == index.Rest \div 2^natBits
  IN [Offset |-> index.Sign * (natural * NATURAL + constant),
      NaturalUnits |-> index.Sign * natural,
      ConstUnits |-> index.Sign * constant]

VmReadIndex32(index) == SplitIndex(index, 4)
VmReadIndex64(index) == SplitIndex(index, 8)

VmReadIndex(index, bytes) ==
  CASE bytes = 2 -> VmReadIndex16(index)
    [] bytes = 4 -> VmReadIndex32(index)
    [] bytes = 8 -> VmReadIndex64(index)

\* The values of a datum of this kind.
DataOf(kind) ==
  CASE kind = 0 -> Int
    [] kind = 2 -> 0 .. 2^16 - 1
    [] OTHER    -> [Sign : {-1, 1}, NBits : 0 .. 7, Rest : Nat]

\* Instructions as they can be encoded.
WellFormed(i) ==
  /\ i.opcode \in 0 .. 255 /\ i.operands \in 0 .. 255
  /\ DOMAIN i.data = DOMAIN Kinds(i)
  /\ \A n \in DOMAIN Kinds(i) : i.data[n] \in DataOf(Kinds(i)[n])

NoIndex == [Offset |-> 0, NaturalUnits |-> 0, ConstUnits |-> 0]
=============================================================================

------------------------------ MODULE EdbDisasm ------------------------------
(***************************************************************************)
(* The disassembler of the debugger.  The function of an opcode returns    *)
(* the length of the instruction, 0 when it takes it for a bad one, and    *)
(* prints a name and a content into two fields of fixed length; of what is *)
(* printed only the number of characters is kept, for the longest number   *)
(* that may stand there.                                                   *)
(***************************************************************************)
EXTENDS EbcIsa, Sequences

EDB_INSTRUCTION_NAME_MAX_LENGTH    == 10
EDB_INSTRUCTION_CONTENT_MAX_LENGTH == 30

-----------------------------------------------------------------------------
\* Decimal digits of the largest number of some bits; the function that counts
\* them knows 14 at most.
EdbGetBitWidth(bits) ==
  LET digits == ((bits * 30103) \div 100000) + 1
  IN IF digits < 14 THEN digits ELSE 14

\* What is printed, as the sequence of the lengths by which the offset grows.
EdbPrintRegister1(i) == IF OPERAND1_INDIRECT(i) THEN <<1, 2>> ELSE <<2>>
EdbPrintRegister2(i) == IF OPERAND2_INDIRECT(i) THEN <<1, 2>> ELSE <<2>>

Dedicated(r) == CASE r = 0 -> <<7>> [] r = 1 -> <<4>> [] OTHER -> <<>>
EdbPrintDedicatedRegister1(i) == Dedicated(OPERAND1_REGNUM(i))
EdbPrintDedicatedRegister2(i) == Dedicated(OPERAND2_REGNUM(i))

EdbPrintComma == <<2>>

\* Mutant: both numbers are printed as those of 64 bits.
EdbPrintIndexDataWide(natural, constant) == <<5 + 2 * EdbGetBitWidth(64)>>

EdbPrintIndexData(natural, constant) ==
  <<5 + EdbGetBitWidth(natural) + EdbGetBitWidth(constant)>>

\* An index of some bytes has 8 * bytes - 4 bits for its two numbers.
EdbPrintRawIndexData(bytes) ==
  LET Split(n) == LET natural == n * bytes
                      bits    == 8 * bytes - 4
                  IN IF natural > bits THEN EdbPrintIndexData(bits, 0)
                     ELSE EdbPrintIndexData(natural, bits - natural)
  IN CHOOSE w \in {Split(n) : n \in 0 .. 7} : \A n \in 0 .. 7 : Split(n)[1] <= w[1]

EdbPrintImmDatan(bytes)   == <<2 + EdbGetBitWidth(8 * bytes)>>
EdbPrintImmData32         == <<12>>
EdbPrintData8             == <<4>>
EdbPrintData64            == <<18>>
EdbPrintDatan(bytes)      == <<EdbGetBitWidth(8 * bytes)>>
EdbPrintData64n           == <<EdbGetBitWidth(64)>>

\* Mutant: the number of natural bits is not doubled.
EdbGetNaturalIndex16Single(index) ==
  LET bits == (index \div 2^12) % 8
      data == index % 2^12
  IN [Sign |-> Bit(index, 15), NaturalUnits |-> data % 2^bits, ConstantUnits |-> data \div 2^bits]

\* Units of an index of 16 bits, as the debugger prints them.
EdbGetNaturalIndex16(index) ==
  LET bits == 2 * ((index \div 2^12) % 8)
      data == index % 2^12
  IN [Sign |-> Bit(index, 15), NaturalUnits |-> data % 2^bits, ConstantUnits |-> data \div 2^bits]

-----------------------------------------------------------------------------
Text(size, name, content) == [Size |-> size, Name |-> name, Content |-> content]
Bad == Text(0, <<>>, <<>>)

\* A datum of two bytes after the operand it belongs to: an index when that is
\* indirect, a number otherwise.
Datum16Text(has, indirect) ==
  If(has, IF indirect THEN EdbPrintRawIndexData(2) ELSE EdbPrintImmDatan(2))

EdbDisasmBREAK(i) == IF i.operands > 6 THEN Bad ELSE Text(2, <<5>>, EdbPrintDatan(1))

JumpLength(i) == <<2, 2, 6, 10>>[1 + i.opcode \div 64]

Condition(i) == If(Immediate(i), <<2>>)

EdbDisasmJMP(i) ==
  IF Wide(i) /\ ~ Immediate(i) THEN Bad
  ELSE Text(JumpLength(i), <<3>> \o Condition(i),
            IF Wide(i) THEN EdbPrintData64
            ELSE EdbPrintRegister1(i) \o (IF OPERAND1_INDIRECT(i) THEN EdbPrintRawIndexData(4)
                                          ELSE EdbPrintImmDatan(4)))

EdbDisasmJMP8(i) == Text(2, <<4>> \o Condition(i), EdbPrintData8)

EdbDisasmCALL(i) ==
  IF Wide(i) /\ ~ Immediate(i) THEN Bad
  ELSE Text(JumpLength(i), <<4>> \o If(Bit(i.operands, 5), <<2>>),
            IF Wide(i) THEN EdbPrintData64
            ELSE EdbPrintRegister1(i) \o
                 If(Immediate(i), IF OPERAND1_INDIRECT(i) THEN EdbPrintRawIndexData(4)
                                  ELSE EdbPrintImmData32))

EdbDisasmRET(i) == IF i.operands # 0 THEN Bad ELSE Text(2, <<3>>, <<>>)

\* Comparisons are named by 2 to 4 letters after CMP and CMPI.
OrderName(order) == CASE order = 0 -> 2 [] order \in {1, 2} -> 3 [] OTHER -> 4

TwoOperands(i, name) ==
  Text(IF Immediate(i) THEN 4 ELSE 2, name,
       EdbPrintRegister1(i) \o EdbPrintComma \o EdbPrintRegister2(i)
         \o Datum16Text(Immediate(i), OPERAND2_INDIRECT(i)))

EdbDisasmCMP(i) == TwoOperands(i, <<3, OrderName(Opcode(i) - OP.CMPEQ)>>)

EdbDisasmUnsignedDataManip(i) ==
  LET op == Opcode(i)
  IN TwoOperands(i, << CASE op = OP.OR -> 2
                         [] op \in {OP.MULU, OP.DIVU, OP.MODU} -> 4
                         [] op >= OP.EXTNDB -> 6
                         [] OTHER -> 3 >>)

EdbDisasmSignedDataManip(i) == TwoOperands(i, << IF Opcode(i) = OP.ASHR THEN 4 ELSE 3 >>)

\* Bytes of the indexes of a MOV, from its opcode.
MoveIndex(op) ==
  IF op <= OP.MOVQW \/ op = OP.MOVNW THEN 2
  ELSE IF op <= OP.MOVQD \/ op = OP.MOVND THEN 4
  ELSE IF op = OP.MOVQQ THEN 8 ELSE 0

Indexes(i, bytes) == (IF Bit(i.opcode, 7) THEN bytes ELSE 0) + (IF Bit(i.opcode, 6) THEN bytes ELSE 0)

EdbDisasmMOVxx(i) ==
  LET bytes == MoveIndex(Opcode(i))
  IN Text(2 + Indexes(i, bytes), <<3, 2>>,
          EdbPrintRegister1(i) \o If(Bit(i.opcode, 7), EdbPrintRawIndexData(bytes))
            \o EdbPrintComma
            \o EdbPrintRegister2(i) \o If(Bit(i.opcode, 6), EdbPrintRawIndexData(bytes)))

SignedMove(i, bytes) ==
  Text(2 + Indexes(i, bytes), <<6>>,
       EdbPrintRegister1(i) \o If(Bit(i.opcode, 7), EdbPrintRawIndexData(bytes))
         \o EdbPrintComma
         \o EdbPrintRegister2(i)
         \o If(Bit(i.opcode, 6), IF OPERAND2_INDIRECT(i) THEN EdbPrintRawIndexData(bytes)
                                 ELSE EdbPrintImmDatan(bytes)))

EdbDisasmMOVsnw(i) == SignedMove(i, 2)
EdbDisasmMOVsnd(i) == SignedMove(i, 4)

EdbDisasmLOADSP(i)  == Text(2, <<6>>, EdbPrintDedicatedRegister1(i) \o EdbPrintRegister2(i))
EdbDisasmSTORESP(i) == Text(2, <<7>>, EdbPrintRegister1(i) \o EdbPrintDedicatedRegister2(i))

\* Mutant: the datum is not counted.
OneOperandShort(i, name) ==
  Text(2, name, EdbPrintRegister1(i) \o Datum16Text(Immediate(i), OPERAND1_INDIRECT(i)))

OneOperand(i, name) ==
  Text(IF Immediate(i) THEN 4 ELSE 2, name,
       EdbPrintRegister1(i) \o Datum16Text(Immediate(i), OPERAND1_INDIRECT(i)))

EdbDisasmPUSH(i)  == OneOperand(i, <<4>>)
EdbDisasmPOP(i)   == OneOperand(i, <<3>>)
EdbDisasmPUSHn(i) == OneOperand(i, <<5>>)
EdbDisasmPOPn(i)  == OneOperand(i, <<4>>)

EdbDisasmCMPI(i) ==
  LET indexed == Bit(i.operands, 4)
      bytes   == IF Immediate(i) THEN 4 ELSE 2
  IN IF i.operands >= 32 THEN Bad
     ELSE Text(2 + bytes + (IF indexed THEN 2 ELSE 0),
               <<4, 1, OrderName(Opcode(i) - OP.CMPIEQ)>>,
               EdbPrintRegister1(i) \o If(indexed, EdbPrintRawIndexData(2))
                 \o EdbPrintComma \o EdbPrintDatan(bytes))

\* Bytes of the immediate datum of MOVI, MOVIn and MOVREL.
ImmediateWidth(i) == <<0, 2, 4, 8>>[1 + i.opcode \div 64]

MoveImmediateText(i, name, datum) ==
  LET indexed == Bit(i.operands, 6)
  IN Text(2 + ImmediateWidth(i) + (IF indexed THEN 2 ELSE 0), name,
          EdbPrintRegister1(i) \o If(indexed, EdbPrintRawIndexData(2))
            \o EdbPrintComma \o If(ImmediateWidth(i) # 0, datum))

WidthName(i) == If(ImmediateWidth(i) # 0, <<1>>)

EdbDisasmMOVI(i) ==
  MoveImmediateText(i, <<4, 1>> \o WidthName(i),
                    IF ImmediateWidth(i) = 8 THEN EdbPrintData64n
                    ELSE EdbPrintDatan(ImmediateWidth(i)))

EdbDisasmMOVIn(i) ==
  MoveImmediateText(i, <<5>> \o WidthName(i),
                    If(ImmediateWidth(i) # 0, EdbPrintRawIndexData(ImmediateWidth(i))))

EdbDisasmMOVREL(i) ==
  IF ImmediateWidth(i) = 0 THEN Bad
  ELSE MoveImmediateText(i, <<6>> \o WidthName(i), <<2 + 2 * ImmediateWidth(i)>>)

-----------------------------------------------------------------------------
\* The opcodes with a function, and what it returns.  EdbShowDisasm looks up the
\* six opcodes above 57 past the end of the table; here they are bad ones, and
\* no property is about them.
mEdbDisasmInstructionTable == 0 .. 57 \ {39, 52}

Disasm(i) ==
  LET op == Opcode(i)
  IN CASE op \notin mEdbDisasmInstructionTable -> Bad
       [] op = OP.BREAK   -> EdbDisasmBREAK(i)
       [] op = OP.JMP     -> EdbDisasmJMP(i)
       [] op = OP.JMP8    -> EdbDisasmJMP8(i)
       [] op = OP.CALL    -> EdbDisasmCALL(i)
       [] op = OP.RET     -> EdbDisasmRET(i)
       [] op \in OP.CMPEQ .. OP.CMPUGTE -> EdbDisasmCMP(i)
       [] op \in {OP.NEG, OP.ADD, OP.SUB, OP.MUL, OP.DIV, OP.MOD, OP.ASHR} ->
            EdbDisasmSignedDataManip(i)
       [] op \in OP.NOT .. OP.EXTNDD \ {OP.NEG, OP.ADD, OP.SUB, OP.MUL, OP.DIV, OP.MOD, OP.ASHR} ->
            EdbDisasmUnsignedDataManip(i)
       [] op = OP.MOVSNW  -> EdbDisasmMOVsnw(i)
       [] op = OP.MOVSND  -> EdbDisasmMOVsnd(i)
       [] op = OP.LOADSP  -> EdbDisasmLOADSP(i)
       [] op = OP.STORESP -> EdbDisasmSTORESP(i)
       [] op = OP.PUSH    -> EdbDisasmPUSH(i)
       [] op = OP.POP     -> EdbDisasmPOP(i)
       [] op \in OP.CMPIEQ .. OP.CMPIUGTE -> EdbDisasmCMPI(i)
       [] op = OP.PUSHN   -> EdbDisasmPUSHn(i)
       [] op = OP.POPN    -> EdbDisasmPOPn(i)
       [] op = OP.MOVI    -> EdbDisasmMOVI(i)
       [] op = OP.MOVIN   -> EdbDisasmMOVIn(i)
       [] op = OP.MOVREL  -> EdbDisasmMOVREL(i)
       [] OTHER           -> EdbDisasmMOVxx(i)

\* The line EdbShowDisasm prints after the one for the instruction at an address,
\* -1 when the listing ends there.
EdbShowDisasm(program, address) ==
  LET size == IF address \in DOMAIN program THEN Disasm(program[address]).Size ELSE 0
  IN IF size = 0 THEN -1 ELSE address + size

-----------------------------------------------------------------------------
\* Every print begins inside its field (the assertion of EDBSPrintWithOffset).
Fits(lengths, max) ==
  \A n \in DOMAIN lengths :
    LET Offset[k \in 0 .. n - 1] == IF k = 0 THEN 0 ELSE Offset[k - 1] + lengths[k]
    IN Offset[n - 1] < max

TextFits(i) ==
  /\ Fits(Disasm(i).Name, EDB_INSTRUCTION_NAME_MAX_LENGTH)
  /\ Fits(Disasm(i).Content, EDB_INSTRUCTION_CONTENT_MAX_LENGTH)
=============================================================================

----------------------------- MODULE EbcExecute -----------------------------
(***************************************************************************)
(* The interpreter: one VM context that executes a program.  Every         *)
(* function of EbcExecute.c that implements an instruction is an operator  *)
(* from a context and an instruction to the context it leaves; the loop of *)
(* EbcExecute is the one action.  Memory is inside the context, which has  *)
(* it to itself.  Instructions stand at the addresses of code; of the      *)
(* bytes after the first two only the values they encode are kept, in      *)
(* data.  No debugger is registered, so that an exception is what it       *)
(* leaves in the context.                                                  *)
(***************************************************************************)
EXTENDS EbcIsa, Sequences

CONSTANTS
  Programs,     \* programs to run: functions from code addresses to instructions
  Starts,       \* contexts to begin with: registers, and whether there is a tracker
  EntryPoint,   \* Ip to begin with
  StackPool,    \* address and size of the memory the stack is in
  StackPoolSize,
  StackTop,     \* the stack may not come down to this address
  StackRetAddr, \* R0 when the first function of the context returns
  StackMagic,   \* address of the magic word
  Height        \* bytes the tracker counts to begin with

ASSUME ProgramAssumption ==
  \A p \in Programs : \A a \in DOMAIN p : WellFormed(p[a])

Address == 0 .. Cells(NATURAL) - 1

\* Only Arm, where a natural has four bytes, has a tracker.
ASSUME ContextAssumption ==
  /\ Starts \subseteq [Gpr : [0 .. 7 -> 0 .. Cells(8) - 1], On : BOOLEAN]
  /\ \A start \in Starts : start.On => NATURAL = 4
  /\ {EntryPoint, StackMagic} \subseteq Address
  /\ {StackPool, StackPoolSize, StackTop, StackRetAddr} \subseteq Int
  /\ Height \in Nat

VARIABLES
  code,           \* the program
  vm,             \* the VM_CONTEXT and its memory
  StackCorrupted, \* local variable of EbcExecute
  calls,          \* history: what each call not returned yet must restore
  parity          \* of the number of instructions executed, so that every one
                  \* is a step, even if it changes nothing else

vars == <<code, vm, StackCorrupted, calls, parity>>

VM_STACK_KEY_VALUE == 1

-----------------------------------------------------------------------------
\* Exceptions and registers.
Raise(c, type, flag) ==
  [c EXCEPT !.LastException = type, !.Done = @ \/ flag = "FATAL"]

Natural(x) == UInt(x, NATURAL)

\* Mutant: the number is not cut to a register.
SetRegWide(c, r, x) == [c EXCEPT !.Gpr[r] = x]

SetReg(c, r, x) == [c EXCEPT !.Gpr[r] = UInt(x, 8)]

Advance(c, size) == [c EXCEPT !.Ip = Natural(@ + size)]

Encoding(c) ==
  [Raise(c, "INSTRUCTION_ENCODING", "FATAL") EXCEPT !.Status = "UNSUPPORTED"]

-----------------------------------------------------------------------------
(***************************************************************************)
(* Memory.  What is aligned is read or written at once, the rest in halves *)
(* or bytes, each at an address of its own.                                *)
(***************************************************************************)
At(mem, addr) == mem[Natural(addr)]

Direct(mem, addr, bytes) ==
  LET Sum[n \in 0 .. 8] ==
        IF n = 0 THEN 0 ELSE Sum[n - 1] + At(mem, addr + n - 1) * Cells(n - 1)
  IN Sum[bytes]

VmReadMem16(mem, addr) ==
  IF addr % 2 = 0 THEN Direct(mem, addr, 2)
  ELSE At(mem, addr) + At(mem, addr + 1) * Cells(1)

VmReadMem32(mem, addr) ==
  IF addr % 4 = 0 THEN Direct(mem, addr, 4)
  ELSE VmReadMem16(mem, addr) + VmReadMem16(mem, addr + 2) * Cells(2)

VmReadMem64(mem, addr) ==
  IF addr % 8 = 0 THEN Direct(mem, addr, 8)
  ELSE VmReadMem32(mem, addr) + VmReadMem32(mem, addr + 4) * Cells(4)

VmReadMemN(mem, addr) == Direct(mem, addr, NATURAL)

VmReadMem(mem, addr, bytes) ==
  LET a == Natural(addr)
  IN CASE bytes = 1 -> At(mem, a)
       [] bytes = 2 -> VmReadMem16(mem, a)
       [] bytes = 4 -> VmReadMem32(mem, a)
       [] bytes = 8 -> VmReadMem64(mem, a)

DirectWrite(mem, addr, bytes, x) ==
  LET Written[n \in 0 .. 8] ==
        IF n = 0 THEN mem
        ELSE [Written[n - 1] EXCEPT ![Natural(addr + n - 1)] = (x \div Cells(n - 1)) % Cells(1)]
  IN Written[bytes]

VmWriteMem8(mem, addr, x) == DirectWrite(mem, addr, 1, UInt(x, 1))

\* Mutant: both bytes are the low one.
VmWriteMem16Low(mem, addr, x) ==
  IF addr % 2 = 0 THEN DirectWrite(mem, addr, 2, UInt(x, 2))
  ELSE VmWriteMem8(VmWriteMem8(mem, addr, x), Natural(addr + 1), x)

VmWriteMem16(mem, addr, x) ==
  IF addr % 2 = 0 THEN DirectWrite(mem, addr, 2, UInt(x, 2))
  ELSE VmWriteMem8(VmWriteMem8(mem, addr, x), Natural(addr + 1), x \div Cells(1))

VmWriteMem32(mem, addr, x) ==
  IF addr % 4 = 0 THEN DirectWrite(mem, addr, 4, UInt(x, 4))
  ELSE VmWriteMem16(VmWriteMem16(mem, addr, x), Natural(addr + 2), x \div Cells(2))

VmWriteMem64(mem, addr, x) ==
  IF addr % 8 = 0 THEN DirectWrite(mem, addr, 8, UInt(x, 8))
  ELSE VmWriteMem32(VmWriteMem32(mem, addr, x), Natural(addr + 4), x \div Cells(4))

VmWriteMemN(mem, addr, x) ==
  IF addr % NATURAL = 0 THEN DirectWrite(mem, addr, NATURAL, UInt(x, NATURAL))
  ELSE LET low == VmWriteMem32(mem, addr, x)
       IN IF NATURAL = 4 THEN low
          ELSE VmWriteMem32(low, Natural(addr + 4), x \div Cells(4))

\* Write x, bytes of it, at addr; N stands for a natural.
N == 0

Write(c, addr, bytes, x) ==
  LET a == Natural(addr)
      v == UInt(x, 8)
  IN [c EXCEPT !.Mem =
       CASE bytes = 1   -> VmWriteMem8(@, a, v)
         [] bytes = 2   -> VmWriteMem16(@, a, v)
         [] bytes = 4   -> VmWriteMem32(@, a, v)
         [] bytes = 8   -> VmWriteMem64(@, a, v)
         [] bytes = N -> VmWriteMemN(@, a, Natural(v))]

Read(c, addr, bytes) ==
  IF bytes = N THEN VmReadMemN(c.Mem, Natural(addr)) ELSE VmReadMem(c.Mem, addr, bytes)

-----------------------------------------------------------------------------
(***************************************************************************)
(* The stack tracker, as instructions see it: the number of bytes on the   *)
(* stack.  Naturals and constants are negative when they are pushed.  Only *)
(* Arm has one (EbcStackTracker models its representation).  A context may *)
(* move R0 out of its stack pool; OrgHeight and OrgStackPointer then       *)
(* remember where it was.                                                  *)
(***************************************************************************)
UpdateStackTracker(c, naturals, consts) ==
  LET height == c.Tracker.Height - naturals * NATURAL - consts
  IN IF ~ c.Tracker.On THEN c
     ELSE IF height < 0
     THEN [c EXCEPT !.Tracker.Height = -1, !.Status = "UNSUPPORTED"]
     ELSE [c EXCEPT !.Tracker.Height = height]

InPool(addr) == addr \in StackPool .. StackPool + StackPoolSize - 1

UpdateStackTrackerFromDelta(c, r0) ==
  LET t        == c.Tracker
      new      == Natural(r0)
      Delta(x) == SInt(new - x, NATURAL)
  IN IF ~ t.On THEN c
     ELSE IF t.OrgHeight = 0 /\ ~ InPool(new)
     THEN [c EXCEPT !.Tracker.OrgHeight = t.Height,
                    !.Tracker.OrgStackPointer = Natural(c.Gpr[0])]
     ELSE IF t.OrgHeight # 0 /\ (new >= StackPool \/ new < StackPool + StackPoolSize)
     THEN UpdateStackTracker(
            [c EXCEPT !.Tracker.Height = t.OrgHeight, !.Tracker.OrgHeight = 0],
            0, Delta(t.OrgStackPointer))
     ELSE UpdateStackTracker(c, 0, Delta(Natural(c.Gpr[0])))

\* Assign x to register r, which the tracker follows when it is R0.
SetTracked(c, r, x) ==
  SetReg(IF r = 0 THEN UpdateStackTrackerFromDelta(c, x) ELSE c, r, x)

-----------------------------------------------------------------------------
(***************************************************************************)
(* Moves.  i.data holds what follows the two bytes of the instruction, in  *)
(* order: encoded indexes, or immediate numbers.                           *)
(***************************************************************************)
MoveSize(op) ==
  CASE op \in {OP.MOVBW, OP.MOVBD}           -> 1
    [] op \in {OP.MOVWW, OP.MOVWD}           -> 2
    [] op \in {OP.MOVDW, OP.MOVDD}           -> 4
    [] op \in {OP.MOVQW, OP.MOVQD, OP.MOVQQ} -> 8
    [] op \in {OP.MOVNW, OP.MOVND}           -> NATURAL

\* The index that is the n-th datum of the instruction, when it has it.
IndexAt(i, has, n, bytes) == IF has THEN VmReadIndex(i.data[n], bytes) ELSE NoIndex

\* The address of a parameter that is taken onto the stack is cut to a UINTN
\* (ConvertStackAddr).
ExecuteMOVxx(c, i) ==
  LET op     == Opcode(i)
      has1   == Bit(i.opcode, 7)
      has2   == Bit(i.opcode, 6)
      index1 == IndexAt(i, has1, 1, IndexSize(op))
      index2 == IndexAt(i, has2, IF has1 THEN 2 ELSE 1, IndexSize(op))
      size   == 2 + (IF has1 THEN IndexSize(op) ELSE 0) + (IF has2 THEN IndexSize(op) ELSE 0)
      r1     == OPERAND1_REGNUM(i)
      r2     == OPERAND2_REGNUM(i)
      width  == MoveSize(op)
      source == UInt(c.Gpr[r2] + index2.Offset, 8)
      taken  == has2 /\ r2 = 0 /\ index2.Offset > 0 /\ r1 = 0 /\ OPERAND1_INDIRECT(i)
      data   == IF OPERAND2_INDIRECT(i) THEN VmReadMem(c.Mem, source, width)
                ELSE IF taken THEN Natural(source) ELSE source
      tracked ==
        IF r1 # 0 \/ OPERAND1_INDIRECT(i) THEN c
        ELSE IF r2 # 0 \/ OPERAND2_INDIRECT(i)
        THEN UpdateStackTrackerFromDelta(c, UInt(data, width))
        ELSE IF has2
        THEN UpdateStackTracker(c, index2.NaturalUnits, index2.ConstUnits)
        ELSE c
  IN IF tracked.Status # "SUCCESS" THEN tracked
     ELSE IF OPERAND1_INDIRECT(i)
     THEN Advance(Write(c, c.Gpr[r1] + index1.Offset, width, data), size)
     ELSE IF has1 THEN Encoding(tracked)
     ELSE Advance(SetReg(tracked, r1, UInt(data, width)), size)

\* What MOVI, MOVIn and MOVREL have in common: value x goes to operand 1,
\* in bytes of memory, or cut to mask bytes of a register.
MoveImmediate(c, i, x, bytes, mask) ==
  LET indexed == Bit(i.operands, 6)
      index   == IndexAt(i, indexed, 1, 2)
      r1      == OPERAND1_REGNUM(i)
      size    == 2 + (IF indexed THEN 2 ELSE 0) + DataWidth(i)
  IN IF DataWidth(i) = 0 THEN Encoding(c)
     ELSE IF OPERAND1_INDIRECT(i)
     THEN Advance(Write(c, c.Gpr[r1] + index.Offset, bytes, x), size)
     ELSE IF indexed THEN Encoding(c)
     ELSE Advance(SetTracked(c, r1, UInt(x, mask)), size)

Datum(i) == i.data[IF Bit(i.operands, 6) THEN 2 ELSE 1]

ExecuteMOVI(c, i) ==
  LET width == 2^((i.operands \div 16) % 4)
  IN MoveImmediate(c, i, SInt(Datum(i), DataWidth(i)), width, width)

ExecuteMOVIn(c, i) ==
  MoveImmediate(c, i, VmReadIndex(Datum(i), DataWidth(i)).Offset, N, 8)

ExecuteMOVREL(c, i) ==
  LET size == 2 + (IF Bit(i.operands, 6) THEN 2 ELSE 0) + DataWidth(i)
  IN MoveImmediate(c, i, c.Ip + SInt(Datum(i), DataWidth(i)) + size, N, 8)

\* MOVsnw and MOVsnd: naturals, sign-extended, with indexes of 2 or 4 bytes.
MoveSigned(c, i, width) ==
  LET has1   == Bit(i.opcode, 7)
      has2   == Bit(i.opcode, 6)
      second == IF has1 THEN 2 ELSE 1
      offset == IF ~ has2 THEN 0
                ELSE IF OPERAND2_INDIRECT(i) THEN VmReadIndex(i.data[second], width).Offset
                ELSE SInt(i.data[second], width)
      size   == 2 + (IF has1 THEN width ELSE 0) + (IF has2 THEN width ELSE 0)
      r1     == OPERAND1_REGNUM(i)
      sum    == SInt(c.Gpr[OPERAND2_REGNUM(i)] + offset, NATURAL)
      value  == IF OPERAND2_INDIRECT(i)
                THEN SInt(VmReadMemN(c.Mem, Natural(sum)), NATURAL) ELSE sum
  IN IF has1 /\ ~ OPERAND1_INDIRECT(i) THEN Encoding(c)
     ELSE Advance(IF OPERAND1_INDIRECT(i)
                  THEN Write(c, c.Gpr[r1] + IndexAt(i, has1, 1, width).Offset, N, value)
                  ELSE SetTracked(c, r1, value), size)

ExecuteMOVsnw(c, i) == MoveSigned(c, i, 2)
ExecuteMOVsnd(c, i) == MoveSigned(c, i, 4)

-----------------------------------------------------------------------------
\* PUSH, PUSHn, POP, POPn.  Ip advances first; the datum is an index when the
\* operand is indirect, a number otherwise.
StackOffset(i) ==
  IF ~ Immediate(i) THEN 0
  ELSE IF OPERAND1_INDIRECT(i) THEN VmReadIndex16(i.data[1]).Offset
  ELSE SInt(i.data[1], 2)

Push(c, i, bytes, size) ==
  LET operand == c.Gpr[OPERAND1_REGNUM(i)] + StackOffset(i)
      value   == IF OPERAND1_INDIRECT(i) THEN Read(c, operand, bytes) ELSE operand
      r0      == c.Gpr[0] - size
  IN Write(SetReg(Advance(c, IF Immediate(i) THEN 4 ELSE 2), 0, r0),
           r0, bytes, UInt(value, size))

ExecutePUSHn(c, i) == UpdateStackTracker(Push(c, i, N, NATURAL), -1, 0)

\* Mutant: the tracker is told of eight bytes whatever was pushed.
ExecutePUSHSized(c, i) ==
  LET size == IF Wide(i) THEN 8 ELSE 4
  IN UpdateStackTracker(Push(c, i, size, size), 0, -8)

ExecutePUSH(c, i) ==
  LET size == IF Wide(i) THEN 8 ELSE 4
  IN UpdateStackTracker(Push(c, i, size, size), 0, -size)

\* What goes to memory is the value popped, what goes to a register is extended.
Pop(c, i, bytes, size, extended) ==
  LET popped == SetReg(Advance(c, IF Immediate(i) THEN 4 ELSE 2), 0, c.Gpr[0] + size)
      r1     == OPERAND1_REGNUM(i)
  IN IF OPERAND1_INDIRECT(i)
     THEN Write(popped, popped.Gpr[r1] + StackOffset(i), bytes, Read(c, c.Gpr[0], bytes))
     ELSE SetReg(popped, r1, extended)

ExecutePOPn(c, i) ==
  UpdateStackTracker(Pop(c, i, N, NATURAL, Natural(Read(c, c.Gpr[0], N) + StackOffset(i))), 1, 0)

ExecutePOP(c, i) ==
  LET size == IF Wide(i) THEN 8 ELSE 4
  IN UpdateStackTracker(
       Pop(c, i, size, size, SInt(Read(c, c.Gpr[0], size), size) + StackOffset(i)), 0, size)

-----------------------------------------------------------------------------
(***************************************************************************)
(* Control transfer.  The bits of a condition are in the operand byte of   *)
(* JMP and in the opcode byte of JMP8.                                     *)
(***************************************************************************)
mJMPLen == <<2, 2, 6, 10>>
JmpLen(i) == mJMPLen[1 + i.opcode \div 64]

NotTaken(c, byte) == Bit(byte, 7) /\ Bit(byte, 6) # c.CC

\* The 32-bit datum of JMP and CALL.
Target32(i) ==
  IF ~ Immediate(i) THEN 0
  ELSE IF OPERAND1_INDIRECT(i) THEN VmReadIndex32(i.data[1]).Offset
  ELSE SInt(i.data[1], 4)

JumpTo(c, i, addr) ==
  IF Natural(addr) % 2 # 0
  THEN [Raise(c, "ALIGNMENT_CHECK", "FATAL") EXCEPT !.Status = "UNSUPPORTED"]
  ELSE IF Bit(i.operands, 4) THEN Advance(c, Natural(addr) + JmpLen(i))
  ELSE [c EXCEPT !.Ip = Natural(addr)]

ExecuteJMP(c, i) ==
  LET r1   == OPERAND1_REGNUM(i)
      base == (IF r1 = 0 THEN 0 ELSE c.Gpr[r1]) + Target32(i)
  IN IF NotTaken(c, i.operands) THEN Advance(c, JmpLen(i))
     ELSE IF Wide(i) /\ ~ Immediate(i)
     THEN [Raise(c, "INSTRUCTION_ENCODING", "ERROR") EXCEPT !.Status = "UNSUPPORTED"]
     ELSE IF Wide(i) THEN JumpTo(c, i, i.data[1])
     ELSE JumpTo(c, i, IF OPERAND1_INDIRECT(i)
                       THEN VmReadMemN(c.Mem, Natural(base)) ELSE base)

ExecuteJMP8(c, i) ==
  IF NotTaken(c, i.opcode) THEN Advance(c, 2)
  ELSE Advance(c, 2 * (IF i.operands < 128 THEN i.operands ELSE i.operands - 256) + 2)

\* Native code called by CALLEX returns a value and leaves the rest alone.
EbcLLCALLEX(c, size) == Advance(SetReg(c, 7, 0), size)

ExecuteCALL(c, i) ==
  LET native == Bit(i.operands, 5)
      size   == IF Immediate(i) THEN (IF Wide(i) THEN 10 ELSE 6) ELSE 2
      fp     == UInt(c.Gpr[0] - 8, 8)
      pushed == Write(SetReg(Write(c, fp, N, c.FramePtr), 0, fp - 8),
                      fp - 8, 8, Natural(c.Ip + size))
      entered == IF native THEN c ELSE [pushed EXCEPT !.FramePtr = Natural(fp)]
      r1     == OPERAND1_REGNUM(i)
      base   == (IF r1 = 0 THEN 0 ELSE Natural(entered.Gpr[r1])) + Target32(i)
      target == IF Wide(i) THEN (IF Immediate(i) THEN i.data[1] ELSE 0)
                ELSE IF OPERAND1_INDIRECT(i) THEN VmReadMemN(entered.Mem, Natural(base))
                ELSE base
  IN IF native THEN EbcLLCALLEX(c, size)
     ELSE IF ~ Wide(i) /\ Bit(i.operands, 4) THEN Advance(entered, target + size)
     ELSE [entered EXCEPT !.Ip = Natural(target)]

\* Mutant: the frame pointer is taken from the place of the return address.
ExecuteRETFrame(c, i) ==
  IF c.Gpr[0] = StackRetAddr THEN [c EXCEPT !.Done = TRUE]
  ELSE SetReg([c EXCEPT !.Ip = Natural(VmReadMem64(c.Mem, Natural(c.Gpr[0]))),
                        !.FramePtr = VmReadMemN(c.Mem, Natural(c.Gpr[0]))], 0, c.Gpr[0] + 16)

ExecuteRET(c, i) ==
  LET r0      == c.Gpr[0]
      checked == IF Natural(r0) % 2 = 0 THEN c ELSE Raise(c, "ALIGNMENT_CHECK", "FATAL")
  IN IF r0 = StackRetAddr THEN [c EXCEPT !.Done = TRUE]
     ELSE SetReg([checked EXCEPT
                    !.Ip = Natural(VmReadMem64(c.Mem, Natural(r0))),
                    !.FramePtr = VmReadMemN(c.Mem, Natural(r0 + 8))], 0, r0 + 16)

\* Mutant: 4 and 6 leave Ip where it is.
ExecuteBREAKStuck(c, i, fails) ==
  CASE i.operands = 1 -> Advance(SetReg(c, 7, 1), 2)
    [] i.operands = 3 -> Advance(Raise(c, "BREAKPOINT", "NONE"), 2)
    [] i.operands \in {4, 6} -> c
    [] OTHER -> Advance(Raise(c, "BAD_BREAK", "FATAL"), 2)

\* BREAK 3 is a session that changes nothing here; BREAK 5 makes a thunk, which
\* may fail; 6 stores the version of the compiler.
ExecuteBREAK(c, i, fails) ==
  CASE i.operands = 1 -> Advance(SetReg(c, 7, 1), 2)
    [] i.operands = 3 -> Advance(Raise(c, "BREAKPOINT", "NONE"), 2)
    [] i.operands \in {4, 6} -> Advance(c, 2)
    [] i.operands = 5 ->
         IF fails THEN [c EXCEPT !.Status = "OUT_OF_RESOURCES"]
         ELSE Advance(Write(c, c.Gpr[7], 8, 2), 2)
    [] OTHER -> Advance(Raise(c, "BAD_BREAK", "FATAL"), 2)

-----------------------------------------------------------------------------
\* Mutant: the last of them is strict.
ComparesStrict(order, x, y, ux, uy) ==
  CASE order = 0 -> x = y
    [] order = 1 -> x <= y
    [] order = 2 -> x >= y
    [] order = 3 -> ux <= uy
    [] order = 4 -> ux > uy

\* Comparisons.  order is the distance of the opcode from the first of its kind:
\* EQ, LTE, GTE, ULTE, UGTE.
Compares(order, x, y, ux, uy) ==
  CASE order = 0 -> x = y
    [] order = 1 -> x <= y
    [] order = 2 -> x >= y
    [] order = 3 -> ux <= uy
    [] order = 4 -> ux >= uy

\* The datum of CMP and of the data instructions: an index or a number.
Datum16(i) ==
  IF ~ Immediate(i) THEN 0
  ELSE IF OPERAND2_INDIRECT(i) THEN VmReadIndex16(i.data[1]).Offset
  ELSE SInt(i.data[1], 2)

ExecuteCMP(c, i) ==
  LET width == IF Wide(i) THEN 8 ELSE 4
      sum   == UInt(c.Gpr[OPERAND2_REGNUM(i)] + Datum16(i), 8)
      x     == c.Gpr[OPERAND1_REGNUM(i)]
      y     == IF OPERAND2_INDIRECT(i) THEN VmReadMem(c.Mem, sum, width) ELSE sum
  IN Advance([c EXCEPT !.CC = Compares(Opcode(i) - OP.CMPEQ, SInt(x, width), SInt(y, width),
                                       UInt(x, width), UInt(y, width))],
             IF Immediate(i) THEN 4 ELSE 2)

ExecuteCMPI(c, i) ==
  LET width   == IF Wide(i) THEN 8 ELSE 4
      indexed == Bit(i.operands, 4)
      index   == IndexAt(i, indexed, 1, 2)
      bytes   == IF Immediate(i) THEN 4 ELSE 2
      size    == 2 + (IF indexed THEN 2 ELSE 0)
      r1      == c.Gpr[OPERAND1_REGNUM(i)]
      x       == IF OPERAND1_INDIRECT(i)
                 THEN VmReadMem(c.Mem, r1 + index.Offset, width) ELSE r1
      y       == SInt(i.data[IF indexed THEN 2 ELSE 1], bytes)
  IN IF indexed /\ ~ OPERAND1_INDIRECT(i)
     THEN [Advance(Raise(c, "INSTRUCTION_ENCODING", "ERROR"), size)
             EXCEPT !.Status = "UNSUPPORTED"]
     ELSE Advance([c EXCEPT !.CC = Compares(Opcode(i) - OP.CMPIEQ, SInt(x, width), y,
                                            UInt(x, width), UInt(y, 4))],
                  size + bytes)

-----------------------------------------------------------------------------
(***************************************************************************)
(* Data instructions.  A narrow one computes with what its operands were   *)
(* extended to; the register keeps the low half of the result.             *)
(***************************************************************************)
\* A shift by the width or more is undefined: the processor takes the count
\* modulo the width, or shifts everything out.
Count(y, width, masks) ==
  LET n == IF width = 8 THEN Natural(y) ELSE UInt(y, 4)
  IN IF n < BYTE * width THEN n ELSE IF masks THEN n % (BYTE * width) ELSE BYTE * width

ExecuteSHL(x, y, width, masks) ==
  LET n == Count(y, width, masks)
  IN IF n = BYTE * width THEN 0 ELSE UInt(UInt(x, width) * 2^n, width)

ExecuteSHR(x, y, width, masks)  == UInt(x, width) \div 2^Count(y, width, masks)
ExecuteASHR(x, y, width, masks) == SInt(x, width) \div 2^Count(y, width, masks)

\* Division is wide, or narrow of operands that were extended the way the
\* instruction extends them.
ExecuteDIV(x, y, width)  == Quotient(SInt(x, width), SInt(y, width))
ExecuteDIVU(x, y, width) == UInt(x, width) \div UInt(y, width)
\* Mutant: the remainder of the unsigned numbers.
ExecuteMODUnsigned(x, y) == UInt(x, 8) % UInt(y, 8)

ExecuteMOD(x, y)  == Remainder(SInt(x, 8), SInt(y, 8))
ExecuteMODU(x, y) == x % y

Logic(op, x, y) ==
  CASE op = OP.AND -> BitOp({<<TRUE, TRUE>>}, x, y)
    [] op = OP.OR  -> BitOp((BOOLEAN \X BOOLEAN) \ {<<FALSE, FALSE>>}, x, y)
    [] op = OP.XOR -> BitOp({<<TRUE, FALSE>>, <<FALSE, TRUE>>}, x, y)

DataManip(op, x, y, width, masks) ==
  CASE op = OP.NOT    -> -1 - y
    [] op = OP.NEG    -> -y
    [] op = OP.ADD    -> x + y
    [] op = OP.SUB    -> SInt(SInt(x, width) - SInt(y, width), width)
    [] op = OP.MUL    -> SInt(SInt(x, width) * SInt(y, width), width)
    [] op = OP.MULU   -> UInt(SInt(x, width) * SInt(y, width), width)
    [] op = OP.DIV    -> IF y = 0 THEN 0 ELSE ExecuteDIV(x, y, width)
    [] op = OP.DIVU   -> IF y = 0 THEN 0 ELSE ExecuteDIVU(x, y, width)
    [] op = OP.MOD    -> IF y = 0 THEN 0 ELSE ExecuteMOD(x, y)
    [] op = OP.MODU   -> IF y = 0 THEN 0 ELSE ExecuteMODU(x, y)
    [] op \in {OP.AND, OP.OR, OP.XOR} -> Logic(op, x, y)
    [] op = OP.SHL    -> ExecuteSHL(x, y, width, masks)
    [] op = OP.SHR    -> ExecuteSHR(x, y, width, masks)
    [] op = OP.ASHR   -> ExecuteASHR(x, y, width, masks)
    [] op = OP.EXTNDB -> SInt(y, 1)
    [] op = OP.EXTNDW -> SInt(y, 2)
    [] op = OP.EXTNDD -> SInt(y, 4)

Divides == {OP.DIV, OP.DIVU, OP.MOD, OP.MODU}

Signed == {OP.NEG, OP.ADD, OP.SUB, OP.MUL, OP.DIV, OP.MOD, OP.ASHR}

\* Operands as the dispatcher hands them to the function of the opcode.
Extend(op, x, width) ==
  IF width = 8 THEN UInt(x, 8)
  ELSE IF op \in Signed THEN UInt(SInt(x, 4), 8) ELSE UInt(x, 4)

ManipOperands(c, i) ==
  LET width == IF Wide(i) THEN 8 ELSE 4
      sum   == UInt(c.Gpr[OPERAND2_REGNUM(i)] + Datum16(i), 8)
      r1    == c.Gpr[OPERAND1_REGNUM(i)]
  IN << Extend(Opcode(i), IF OPERAND1_INDIRECT(i)
                          THEN VmReadMem(c.Mem, r1, width) ELSE r1, width),
        Extend(Opcode(i), IF OPERAND2_INDIRECT(i)
                          THEN VmReadMem(c.Mem, sum, width) ELSE sum, width) >>

\* The least integer divided by -1 traps in the processor when it is narrow.
Traps(c, i) ==
  /\ Opcode(i) = OP.DIV
  /\ ~ Wide(i)
  /\ LET xy == ManipOperands(c, i)
     IN SInt(xy[1], 4) = -(Cells(4) \div 2) /\ SInt(xy[2], 4) = -1

ExecuteDataManip(c, i, masks) ==
  LET op     == Opcode(i)
      width  == IF Wide(i) THEN 8 ELSE 4
      xy     == ManipOperands(c, i)
      r1     == OPERAND1_REGNUM(i)
      raised == IF op \in Divides /\ xy[2] = 0 THEN Raise(c, "DIVIDE_ERROR", "FATAL") ELSE c
      result == UInt(DataManip(op, xy[1], xy[2], width, masks), 8)
      stored == IF OPERAND1_INDIRECT(i) THEN Write(raised, c.Gpr[r1], width, result)
                ELSE SetReg(IF r1 = 0 THEN UpdateStackTrackerFromDelta(raised, result) ELSE raised,
                            r1, UInt(result, width))
  IN Advance(stored, IF Immediate(i) THEN 4 ELSE 2)

-----------------------------------------------------------------------------
\* Dedicated registers: 0 is Flags, 1 is Ip.
ExecuteLOADSP(c, i) ==
  IF OPERAND1_REGNUM(i) = 0
  THEN LET flags == c.Gpr[OPERAND2_REGNUM(i)]
       IN Advance([c EXCEPT !.CC = Bit(flags, 0), !.STEP = Bit(flags, 1)], 2)
  ELSE [Advance(Raise(c, "INSTRUCTION_ENCODING", "WARNING"), 2)
          EXCEPT !.Status = "UNSUPPORTED"]

FlagsWord(c) == (IF c.CC THEN 1 ELSE 0) + (IF c.STEP THEN 2 ELSE 0)

\* Mutant: the register is written before the dedicated one is looked at.
ExecuteSTORESPFirst(c, i) ==
  LET r2 == OPERAND2_REGNUM(i)
      d  == SetReg(c, OPERAND1_REGNUM(i), IF r2 = 0 THEN FlagsWord(c) ELSE c.Ip + 2)
  IN IF r2 \in {0, 1} THEN Advance(d, 2)
     ELSE [Advance(Raise(d, "INSTRUCTION_ENCODING", "WARNING"), 2)
             EXCEPT !.Status = "UNSUPPORTED"]

ExecuteSTORESP(c, i) ==
  LET r2 == OPERAND2_REGNUM(i)
  IN IF r2 \in {0, 1}
     THEN Advance(SetReg(c, OPERAND1_REGNUM(i), IF r2 = 0 THEN FlagsWord(c) ELSE c.Ip + 2), 2)
     ELSE [Advance(Raise(c, "INSTRUCTION_ENCODING", "WARNING"), 2)
             EXCEPT !.Status = "UNSUPPORTED"]

-----------------------------------------------------------------------------
\* mVmOpcodeTable: the opcodes with a function, and what it does.
NoFunction == {39, 52} \cup 58 .. 63

Dispatch(c, i, masks, fails) ==
  LET op == Opcode(i)
      k  == [c EXCEPT !.Status = "SUCCESS"]
  IN CASE op = OP.BREAK   -> ExecuteBREAK(k, i, fails)
       [] op = OP.JMP     -> ExecuteJMP(k, i)
       [] op = OP.JMP8    -> ExecuteJMP8(k, i)
       [] op = OP.CALL    -> ExecuteCALL(k, i)
       [] op = OP.RET     -> ExecuteRET(k, i)
       [] op \in OP.CMPEQ .. OP.CMPUGTE   -> ExecuteCMP(k, i)
       [] op \in OP.NOT .. OP.EXTNDD      -> ExecuteDataManip(k, i, masks)
       [] op = OP.MOVSNW  -> ExecuteMOVsnw(k, i)
       [] op = OP.MOVSND  -> ExecuteMOVsnd(k, i)
       [] op = OP.LOADSP  -> ExecuteLOADSP(k, i)
       [] op = OP.STORESP -> ExecuteSTORESP(k, i)
       [] op = OP.PUSH    -> ExecutePUSH(k, i)
       [] op = OP.POP     -> ExecutePOP(k, i)
       [] op \in OP.CMPIEQ .. OP.CMPIUGTE -> ExecuteCMPI(k, i)
       [] op = OP.PUSHN   -> ExecutePUSHn(k, i)
       [] op = OP.POPN    -> ExecutePOPn(k, i)
       [] op = OP.MOVI    -> ExecuteMOVI(k, i)
       [] op = OP.MOVIN   -> ExecuteMOVIn(k, i)
       [] op = OP.MOVREL  -> ExecuteMOVREL(k, i)
       [] OTHER           -> ExecuteMOVxx(k, i)

-----------------------------------------------------------------------------
(***************************************************************************)
(* The loop.  A context begins with its registers, Ip at the first         *)
(* instruction and the magic word in place; the model ends with the loop,  *)
(* or when Ip leaves the program.                                          *)
(***************************************************************************)
\* Mutant: the gap of the stack is not looked at.
OverrunMagic(c) == VmReadMemN(c.Mem, StackMagic) # VM_STACK_KEY_VALUE

\* The check after every instruction: the magic word, and R0 in the gap.
Overrun(c) == \/ VmReadMemN(c.Mem, StackMagic) # VM_STACK_KEY_VALUE
              \/ c.Gpr[0] <= StackTop

Start(start) ==
  [Gpr |-> start.Gpr, Ip |-> EntryPoint, CC |-> FALSE, STEP |-> FALSE,
   FramePtr |-> Natural(start.Gpr[0] + 8), Done |-> FALSE, LastException |-> "NONE",
   Mem |-> VmWriteMemN([a \in Address |-> a % Cells(1)], StackMagic, VM_STACK_KEY_VALUE),
   Tracker |-> [On |-> start.On, Height |-> Height, OrgHeight |-> 0, OrgStackPointer |-> 0],
   Status |-> "SUCCESS"]

\* A context is entered with its stack intact.
ASSUME StartAssumption == \A start \in Starts : ~ Overrun(Start(start))

Init ==
  /\ code \in Programs
  /\ vm \in {Start(start) : start \in Starts}
  /\ StackCorrupted = FALSE
  /\ calls = <<>>
  /\ parity = 0

Ended == vm.Done \/ vm.Ip \notin DOMAIN code

Current == code[vm.Ip]

\* A frame stays clean until an instruction changes its bytes.
Recorded(i, c) ==
  LET Wrote(f) == \E n \in 1 .. 16 : At(c.Mem, f.Gpr0 - n) # At(vm.Mem, f.Gpr0 - n)
      marked   == [n \in DOMAIN calls |->
                     [calls[n] EXCEPT !.clean = @ /\ ~ Wrote(calls[n])]]
      called   == [Gpr0 |-> vm.Gpr[0], FramePtr |-> vm.FramePtr,
                   Ip |-> Natural(vm.Ip + (IF Immediate(i) THEN IF Wide(i) THEN 10 ELSE 6
                                           ELSE 2)),
                   clean |-> TRUE]
  IN IF Opcode(i) = OP.CALL /\ ~ Bit(i.operands, 5) THEN Append(marked, called)
     ELSE IF Opcode(i) = OP.RET /\ calls # <<>> THEN SubSeq(calls, 1, Len(calls) - 1)
     ELSE marked

Fetch ==
  /\ ~ Ended
  /\ parity' = 1 - parity

\* What the loop does with the context after the instruction.
StepFlag(c) == IF c.STEP THEN Raise(c, "STEP", "NONE") ELSE c

CheckStack(c) ==
  IF ~ StackCorrupted /\ Overrun(c) THEN Raise(c, "STACK_FAULT", "FATAL") ELSE c

Execute(masks, fails) ==
  LET i == Current
  IN /\ Fetch
     /\ Opcode(i) \notin NoFunction
     /\ ~ Traps(vm, i)
     /\ vm' = CheckStack(StepFlag(Dispatch(vm, i, masks, fails)))
     /\ StackCorrupted' = (StackCorrupted \/ Overrun(vm'))
     /\ calls' = Recorded(i, vm')
     /\ UNCHANGED code

\* An opcode without a function.
InvalidOpcode ==
  /\ Fetch
  /\ Opcode(Current) \in NoFunction
  /\ vm' = [Raise(vm, "INVALID_OPCODE", "FATAL") EXCEPT !.Status = "UNSUPPORTED"]
  /\ UNCHANGED <<code, StackCorrupted, calls>>

\* A division the processor itself traps: the program gets no further.
ProcessorTrap ==
  /\ Fetch
  /\ Traps(vm, Current)
  /\ vm' = [vm EXCEPT !.LastException = "PROCESSOR", !.Done = TRUE]
  /\ UNCHANGED <<code, StackCorrupted, calls>>

Next ==
  \/ \E masks, fails \in BOOLEAN : Execute(masks, fails)
  \/ InvalidOpcode
  \/ ProcessorTrap

\* The loop runs by itself: it fetches instructions until it ends.
Spec == Init /\ [][Next]_vars /\ WF_parity(Fetch)

-----------------------------------------------------------------------------
(***************************************************************************)
(* Properties.                                                             *)
(***************************************************************************)
\* The contents of the context have their types and widths.
TypeOK ==
  /\ vm.Gpr \in [0 .. 7 -> 0 .. Cells(8) - 1]
  /\ {vm.Ip, vm.FramePtr} \subseteq Address
  /\ vm.Mem \in [Address -> 0 .. Cells(1) - 1]
  /\ {vm.CC, vm.STEP, vm.Done, StackCorrupted} \subseteq BOOLEAN

\* No instruction is executed with the magic word overwritten or the stack
\* grown into the gap: whatever did that was the last one.
StackIntactWhileRunning ==
  ~ vm.Done => /\ VmReadMemN(vm.Mem, StackMagic) = VM_STACK_KEY_VALUE
               /\ ~ (vm.Gpr[0] <= StackTop)

\* RET undoes the CALL it returns from, however the stack is aligned, calls are
\* nested and addresses are given: R0, the frame pointer and Ip are again what
\* they were, if nothing was written over the frame.
ReturnRestores ==
  [][ LET f == calls[Len(calls)]
      IN ( /\ Opcode(Current) = OP.RET
           /\ calls # <<>>
           /\ f.clean
           /\ vm.Gpr[0] = f.Gpr0 - 16
           /\ vm.Gpr[0] # StackRetAddr ) =>
           /\ vm'.Gpr[0] = f.Gpr0
           /\ vm'.FramePtr = f.FramePtr
           /\ vm'.Ip = f.Ip ]_vars

\* R0 may be set to anything; these instructions do it behind the tracker's back.
\* The last are moves of R0 to itself: one that cuts it, and one whose index is so
\* long that the sum of its units wraps.
Untracked(i) ==
  \/ Opcode(i) \in {OP.CALL, OP.RET}
  \/ Opcode(i) \in {OP.POP, OP.POPN, OP.STORESP} /\ OPERAND1_REGNUM(i) = 0
  \/ /\ Opcode(i) \in OP.MOVBW .. OP.MOVQD \cup {OP.MOVQQ, OP.MOVNW, OP.MOVND}
     /\ OPERAND1_REGNUM(i) = 0 /\ OPERAND2_REGNUM(i) = 0
     /\ \/ MoveSize(Opcode(i)) < NATURAL
        \/ IndexSize(Opcode(i)) = 2 /\ \E n \in DOMAIN i.data : Overlong(i.data[n])

\* While the stack is in its pool the tracker counts what R0 moves by, for every
\* instruction that has R0 as destination or pushes or pops.  With nothing on the
\* stack it cannot remember that R0 has left the pool.
TrackerFollowsR0 ==
  [][ ( /\ vm.Tracker.On
        /\ vm.Tracker.OrgHeight = 0 /\ vm'.Tracker.OrgHeight = 0
        /\ vm.Tracker.Height >= 0 /\ vm'.Tracker.Height >= 0
        /\ vm.Tracker.Height = 0 => InPool(Natural(vm'.Gpr[0]))
        /\ ~ vm'.Done
        /\ ~ Untracked(Current) ) =>
      Natural(vm'.Tracker.Height - vm.Tracker.Height) = Natural(vm.Gpr[0] - vm'.Gpr[0]) ]_vars

\* An instruction refused for its encoding has done nothing to registers, memory or
\* the flag.  The stack tracker is not among them: a MOV to R0 with an index on its
\* direct operand 1 tells the tracker before it is refused.
RefusedLeavesNoTrace ==
  [][ ( /\ vm.LastException # "INSTRUCTION_ENCODING"
        /\ vm'.LastException = "INSTRUCTION_ENCODING" /\ vm'.Status = "UNSUPPORTED" ) =>
      vm'.Gpr = vm.Gpr /\ vm'.Mem = vm.Mem /\ vm'.CC = vm.CC ]_vars

\* A store is the same whatever pieces its alignment makes it fall into, changes
\* nothing else of memory, and is read back whole.
StoreThenLoad ==
  \A r \in {0, 1}, bytes \in {1, 2, 4, 8, N} :
    LET width == IF bytes = N THEN NATURAL ELSE bytes
        addr  == vm.Gpr[r]
        c     == Write(vm, addr, bytes, vm.Gpr[3])
    IN /\ Read(c, addr, bytes) = UInt(vm.Gpr[3], width)
       /\ c.Mem = DirectWrite(vm.Mem, addr, width, UInt(vm.Gpr[3], width))

\* The context after data instruction op of registers r1 and r2.
Does(c, op, wide, r1, r2) ==
  ExecuteDataManip(c, [opcode |-> op + (IF wide THEN 64 ELSE 0),
                       operands |-> r1 + 16 * r2, data |-> <<>>], TRUE)

\* Quotient, remainder, product and sum fit together, signed and unsigned, at
\* both widths: x / y * y + x mod y = x.
DivisionLaw ==
  \A wide \in BOOLEAN, x \in {1}, y \in {2, 3},
     ops \in {<<OP.DIV, OP.MOD, OP.MUL>>, <<OP.DIVU, OP.MODU, OP.MULU>>} :
    LET width == IF wide THEN 8 ELSE 4
        c0 == [vm EXCEPT !.Gpr[5] = vm.Gpr[x], !.Gpr[6] = vm.Gpr[x]]
        c1 == Does(Does(c0, ops[1], wide, 5, y), ops[2], wide, 6, y)
        c2 == Does(Does(c1, ops[3], wide, 5, y), OP.ADD, wide, 5, 6)
        traps == SInt(vm.Gpr[y], width) = -1 /\ SInt(vm.Gpr[x], width) = -(Cells(width) \div 2)
    IN UInt(vm.Gpr[y], width) # 0 /\ ~ traps => c2.Gpr[5] = UInt(vm.Gpr[x], width)

\* The five comparisons are those of one total order of numbers with a sign and
\* one without, and all five with an immediate number agree with the one with a
\* register that holds it. How a 64-bit register holds a 32-bit number depends on
\* the order: with its sign for EQ, LTE and GTE, but with zeros for ULTE and UGTE,
\* which cut the number to a UINT32 (EbcExecute.c:3593, 3599). So an unsigned 64-bit
\* CMPI with a negative number does not compare with that number sign-extended, as
\* the comments at 3553 and 3560 have it ("Sign extend always"), but with 2^32 plus
\* that number.
ComparisonLaw ==
  \A wide \in BOOLEAN, x \in {1}, y \in {2, 3} :
    LET bit == IF wide THEN 64 ELSE 0
        CMP(op, r1, r2) ==
          ExecuteCMP(vm, [opcode |-> op + bit, operands |-> r1 + 16 * r2, data |-> <<>>]).CC
        CMPI(op, r1, r2) ==
          ExecuteCMPI(vm, [opcode |-> op + bit + 128, operands |-> r1,
                           data |-> <<SInt(vm.Gpr[r2], 4)>>]).CC
        Holds(n) == \/ ~ wide
                    \/ n \in 0 .. 2 /\ SInt(vm.Gpr[y], 8) = SInt(vm.Gpr[y], 4)
                    \/ n \in 3 .. 4 /\ UInt(vm.Gpr[y], 8) = UInt(vm.Gpr[y], 4)
    IN /\ \A le \in {OP.CMPLTE, OP.CMPULTE} :
            /\ CMP(le, x, y) <=> CMP(le + 1, y, x)
            /\ CMP(le, x, y) \/ CMP(le, y, x)
            /\ CMP(le, x, y) /\ CMP(le, y, x) <=> CMP(OP.CMPEQ, x, y)
       /\ \A n \in 0 .. 4 :
            Holds(n) => (CMPI(OP.CMPIEQ + n, x, y) <=> CMP(OP.CMPEQ + n, x, y))

\* Instructions that return an error, which the loop ignores, with Ip where it was:
\* a 64-bit JMP without its datum, BREAK 5 without memory, a MOV the tracker
\* refuses.
Retries ==
  /\ ~ Ended
  /\ \/ Opcode(Current) = OP.JMP /\ Wide(Current) /\ ~ Immediate(Current)
     \/ Opcode(Current) = OP.BREAK /\ Current.operands = 5
     \/ vm.Tracker.Height < 0

\* Every other program that does not jump backward ends: no instruction, refused
\* or not, leaves Ip where it was, and calls without end run into the stack gap.
EveryProgramEnds == <>(Ended \/ Retries)
=============================================================================

-------------------------- MODULE EbcExecute_proofs --------------------------
(***************************************************************************)
(* Proofs about the interpreter and its disassembler, for every program,   *)
(* width of a byte and of a natural, stack and register contents.          *)
(*                                                                         *)
(* First what holds whatever registers and memory are: no instruction runs *)
(* on a broken stack, an instruction refused for its encoding leaves no    *)
(* trace, and the listing is what is executed.  Then, from the types of    *)
(* registers and memory, what is computed: words are stored and read back, *)
(* and RET returns to its CALL.                                            *)
(*                                                                         *)
(* What an instruction does to the context it is given is shown for one    *)
(* function of EbcExecute.c after the other: Executed, and then Typed.     *)
(***************************************************************************)
EXTENDS EdbListing, EbcMemory_proofs

\* Nothing the loop or the debugger can see has changed.
SameData(c, d) == d.Gpr = c.Gpr /\ d.Mem = c.Mem /\ d.CC = c.CC

Refused(d) == d.Status = "UNSUPPORTED" /\ d.LastException = "INSTRUCTION_ENCODING"

\* d is what an instruction of size bytes may make of c.
Executed(c, d) ==
  /\ IsContext(d)
  /\ c.LastException # "INSTRUCTION_ENCODING" /\ Refused(d) => SameData(c, d)

Advanced(c, d, size) ==
  /\ Executed(c, d)
  /\ d.Status = "SUCCESS" => d.Ip = Natural(c.Ip + size)

-----------------------------------------------------------------------------
\* An exception changes nothing but what is recorded of it.
LEMMA RaiseContext ==
  ASSUME NEW c, IsContext(c), NEW type, NEW flag
  PROVE  /\ IsContext(Raise(c, type, flag))
         /\ SameData(c, Raise(c, type, flag))
         /\ Raise(c, type, flag).Ip = c.Ip
         /\ Raise(c, type, flag).Status = c.Status
         /\ Raise(c, type, flag).LastException = type
         /\ flag = "FATAL" => Raise(c, type, flag).Done
  BY DEF IsContext, Fields, SameData, Raise

\* A register that is set changes nothing else.
LEMMA SetRegContext ==
  ASSUME NEW c, IsContext(c), NEW r, NEW x
  PROVE  /\ IsContext(SetReg(c, r, x))
         /\ SetReg(c, r, x).Ip = c.Ip
         /\ SetReg(c, r, x).Status = c.Status
         /\ SetReg(c, r, x).LastException = c.LastException
         /\ SetReg(c, r, x).Mem = c.Mem
         /\ SetReg(c, r, x).CC = c.CC
  BY DEF IsContext, Fields, SetReg

\* Advance moves Ip past the instruction and changes nothing else.
LEMMA AdvanceContext ==
  ASSUME NEW c, IsContext(c), NEW size
  PROVE  /\ IsContext(Advance(c, size))
         /\ SameData(c, Advance(c, size))
         /\ Advance(c, size).Ip = Natural(c.Ip + size)
         /\ Advance(c, size).Status = c.Status
         /\ Advance(c, size).LastException = c.LastException
  BY DEF IsContext, Fields, SameData, Advance

\* A store changes memory, and perhaps whether the stack gap was entered.
LEMMA WriteContext ==
  ASSUME NEW c, IsContext(c), NEW addr, NEW bytes, NEW x
  PROVE  /\ IsContext(Write(c, addr, bytes, x))
         /\ Write(c, addr, bytes, x).Ip = c.Ip
         /\ Write(c, addr, bytes, x).Status = c.Status
         /\ Write(c, addr, bytes, x).LastException = c.LastException
         /\ Write(c, addr, bytes, x).Gpr = c.Gpr
         /\ Write(c, addr, bytes, x).CC = c.CC
<1>1. \E mem : Write(c, addr, bytes, x) = [c EXCEPT !.Mem = mem]
  BY ZenonT(30) DEF Write
<1>2. ASSUME NEW mem
      PROVE  /\ IsContext([c EXCEPT !.Mem = mem])
             /\ [c EXCEPT !.Mem = mem].Ip = c.Ip
             /\ [c EXCEPT !.Mem = mem].Status = c.Status
             /\ [c EXCEPT !.Mem = mem].LastException = c.LastException
             /\ [c EXCEPT !.Mem = mem].Gpr = c.Gpr
             /\ [c EXCEPT !.Mem = mem].CC = c.CC
  BY DEF IsContext, Fields
<1>. QED
  BY <1>1, <1>2

\* The tracker of constant moves changes itself or stops the context.
LEMMA TrackerContext ==
  ASSUME NEW c, IsContext(c), NEW n, NEW k
  PROVE  /\ IsContext(UpdateStackTracker(c, n, k))
         /\ SameData(c, UpdateStackTracker(c, n, k))
         /\ UpdateStackTracker(c, n, k).Ip = c.Ip
         /\ UpdateStackTracker(c, n, k).LastException = c.LastException
  BY DEF IsContext, Fields, SameData, UpdateStackTracker

\* So does the tracker of moves to an address.
LEMMA TrackerDeltaContext ==
  ASSUME NEW c, IsContext(c), NEW r0
  PROVE  /\ IsContext(UpdateStackTrackerFromDelta(c, r0))
         /\ SameData(c, UpdateStackTrackerFromDelta(c, r0))
         /\ UpdateStackTrackerFromDelta(c, r0).Ip = c.Ip
         /\ UpdateStackTrackerFromDelta(c, r0).LastException = c.LastException
<1>. DEFINE height == c.Tracker.OrgHeight
            Delta(x) == SInt(Natural(r0) - x, NATURAL)
            away == [c EXCEPT !.Tracker.OrgHeight = c.Tracker.Height,
                              !.Tracker.OrgStackPointer = Natural(c.Gpr[0])]
            back == [c EXCEPT !.Tracker.Height = height, !.Tracker.OrgHeight = 0]
            Follows(d) == /\ IsContext(d)
                          /\ SameData(c, d)
                          /\ d.Ip = c.Ip
                          /\ d.LastException = c.LastException
<1>1. Follows(away)
  BY DEF IsContext, Fields, SameData
<1>2. Follows(back)
  BY DEF IsContext, Fields, SameData
<1>3. ASSUME NEW d, Follows(d), NEW k PROVE Follows(UpdateStackTracker(d, 0, k))
  BY <1>3, TrackerContext DEF SameData
<1>4. Follows(c)
  BY DEF SameData
<1>5. \/ UpdateStackTrackerFromDelta(c, r0) \in {c, away}
      \/ \E d \in {c, back} : \E k :
           UpdateStackTrackerFromDelta(c, r0) = UpdateStackTracker(d, 0, k)
  BY DEF UpdateStackTrackerFromDelta
<1>. QED
  <2>. HIDE DEF Follows, away, back
  <2>1. Follows(UpdateStackTrackerFromDelta(c, r0))
    BY <1>1, <1>2, <1>3, <1>4, <1>5
  <2>. QED
    BY <2>1 DEF Follows

-----------------------------------------------------------------------------
\* d is what c became without an exception, with Ip at ip.
After(c, d, ip) ==
  IsContext(d) /\ d.Ip = ip /\ d.LastException = c.LastException

\* A context that is After c at the next instruction has advanced.
LEMMA AfterIsAdvanced ==
  ASSUME NEW c, NEW d, NEW size, After(c, d, Natural(c.Ip + size))
  PROVE  Advanced(c, d, size)
  BY DEF After, Advanced, Executed, Refused

\* The steps an instruction is made of keep it without an exception.
LEMMA AfterSteps ==
  ASSUME NEW c, NEW d, NEW ip, After(c, d, ip)
  PROVE  /\ \A r, x : After(c, SetReg(d, r, x), ip)
         /\ \A r, x : After(c, SetTracked(d, r, x), ip)
         /\ \A addr, bytes, x : After(c, Write(d, addr, bytes, x), ip)
         /\ \A n, k : After(c, UpdateStackTracker(d, n, k), ip)
         /\ \A x : After(c, UpdateStackTrackerFromDelta(d, x), ip)
<1>1. \A r, x : After(c, SetReg(d, r, x), ip)
  BY SetRegContext DEF After
<1>2. \A x : After(c, UpdateStackTrackerFromDelta(d, x), ip)
  BY TrackerDeltaContext DEF After
<1>3. ASSUME NEW r, NEW x PROVE After(c, SetTracked(d, r, x), ip)
  <2>1. ASSUME NEW e, After(c, e, ip) PROVE After(c, SetReg(e, r, x), ip)
    BY <2>1, SetRegContext DEF After
  <2>. QED
    BY <1>2, <2>1 DEF SetTracked
<1>4. \A addr, bytes, x : After(c, Write(d, addr, bytes, x), ip)
  BY WriteContext DEF After
<1>5. \A n, k : After(c, UpdateStackTracker(d, n, k), ip)
  BY TrackerContext DEF After
<1>. QED
  BY <1>1, <1>2, <1>3, <1>4, <1>5

\* Advance is what makes it so.
LEMMA AfterAdvance ==
  ASSUME NEW c, NEW d, NEW size, After(c, d, c.Ip)
  PROVE  After(c, Advance(d, size), Natural(c.Ip + size))
  BY AdvanceContext DEF After

\* A context is After itself.
LEMMA AfterItself ==
  ASSUME NEW c, IsContext(c)
  PROVE  After(c, c, c.Ip)
  BY DEF After

\* The encoding exception, whatever the tracker has done before.
LEMMA EncodingRefuses ==
  ASSUME NEW c, NEW d, IsContext(d), SameData(c, d), NEW size
  PROVE  Advanced(c, Encoding(d), size)
<1>1. /\ IsContext(Raise(d, "INSTRUCTION_ENCODING", "FATAL"))
      /\ SameData(d, Raise(d, "INSTRUCTION_ENCODING", "FATAL"))
  BY RaiseContext
<1>2. /\ IsContext(Encoding(d))
      /\ SameData(d, Encoding(d))
      /\ Encoding(d).Status = "UNSUPPORTED"
  BY <1>1 DEF IsContext, Fields, SameData, Encoding
<1>. QED
  BY <1>2 DEF Advanced, Executed, SameData

\* The same exception of instructions that go on after themselves.
LEMMA AdvanceRefuses ==
  ASSUME NEW c, IsContext(c), NEW flag, NEW n, NEW size
  PROVE  Advanced(c, [Advance(Raise(c, "INSTRUCTION_ENCODING", flag), n)
                        EXCEPT !.Status = "UNSUPPORTED"], size)
<1>. DEFINE d == Advance(Raise(c, "INSTRUCTION_ENCODING", flag), n)
            e == [d EXCEPT !.Status = "UNSUPPORTED"]
<1>1. IsContext(d) /\ SameData(c, d)
  <2>1. /\ IsContext(Raise(c, "INSTRUCTION_ENCODING", flag))
        /\ SameData(c, Raise(c, "INSTRUCTION_ENCODING", flag))
    BY RaiseContext
  <2>. QED
    BY <2>1, AdvanceContext DEF SameData
<1>2. IsContext(e) /\ SameData(d, e) /\ e.Status = "UNSUPPORTED"
  <2>. HIDE DEF d
  <2>. QED
    BY <1>1 DEF IsContext, Fields, SameData
<1>. QED
  <2>. HIDE DEF d, e
  <2>1. Advanced(c, e, size)
    BY <1>1, <1>2 DEF Advanced, Executed, SameData
  <2>. QED
    BY <2>1 DEF e, d

\* An exception that is not about the encoding.
LEMMA RaiseAdvances ==
  ASSUME NEW c, IsContext(c), NEW type, type # "INSTRUCTION_ENCODING", NEW flag, NEW size
  PROVE  Advanced(c, Advance(Raise(c, type, flag), size), size)
<1>1. /\ IsContext(Raise(c, type, flag))
      /\ Raise(c, type, flag).Ip = c.Ip
      /\ Raise(c, type, flag).LastException = type
  BY RaiseContext
<1>2. /\ IsContext(Advance(Raise(c, type, flag), size))
      /\ Advance(Raise(c, type, flag), size).Ip = Natural(c.Ip + size)
      /\ Advance(Raise(c, type, flag), size).LastException = type
  BY <1>1, AdvanceContext
<1>. QED
  BY <1>2 DEF Advanced, Executed, Refused

-----------------------------------------------------------------------------
(***************************************************************************)
(* The functions of EbcExecute.c: each advances by the length the          *)
(* disassembler gives the instruction, if it succeeds.                     *)
(***************************************************************************)
LEMMA MOVxxAdvances ==
  ASSUME NEW c, IsContext(c), c.Status = "SUCCESS",
         NEW i, Opcode(i) \in 29 .. 36 \cup {40, 50, 51}
  PROVE  Advanced(c, ExecuteMOVxx(c, i), EdbDisasmMOVxx(i).Size)
<1>. DEFINE bytes == IndexSize(Opcode(i))
            has1 == Bit(i.opcode, 7)
            has2 == Bit(i.opcode, 6)
            size == 2 + (IF has1 THEN bytes ELSE 0) + (IF has2 THEN bytes ELSE 0)
            r1 == OPERAND1_REGNUM(i)
<1>1. EdbDisasmMOVxx(i).Size = size
  <2>1. MoveIndex(Opcode(i)) = bytes /\ bytes \in Int
    BY DEF MoveIndex, IndexSize, OP
  <2>2. Indexes(i, bytes) = (IF has1 THEN bytes ELSE 0) + (IF has2 THEN bytes ELSE 0)
    BY DEF Indexes
  <2>3. EdbDisasmMOVxx(i).Size = 2 + Indexes(i, MoveIndex(Opcode(i)))
    BY DEF EdbDisasmMOVxx, Text
  <2>. QED
    <3>. HIDE DEF bytes, has1, has2
    <3>. QED
      BY <2>1, <2>2, <2>3
<1>2. \E d, addr, width, data, value :
        /\ d = c \/ (\E x : d = UpdateStackTrackerFromDelta(c, x))
                 \/ (\E n, k : d = UpdateStackTracker(c, n, k))
        /\ \/ ExecuteMOVxx(c, i) = d /\ d.Status # "SUCCESS"
           \/ ExecuteMOVxx(c, i) = Advance(Write(c, addr, width, data), size)
           \/ ExecuteMOVxx(c, i) = Encoding(d)
           \/ ExecuteMOVxx(c, i) = Advance(SetReg(d, r1, value), size)
  <2>. HIDE DEF bytes
  <2>. QED
    BY ZenonT(60) DEF ExecuteMOVxx, bytes
<1>3. PICK d, addr, width, data, value :
        /\ d = c \/ (\E x : d = UpdateStackTrackerFromDelta(c, x))
                 \/ (\E n, k : d = UpdateStackTracker(c, n, k))
        /\ \/ ExecuteMOVxx(c, i) = d /\ d.Status # "SUCCESS"
           \/ ExecuteMOVxx(c, i) = Advance(Write(c, addr, width, data), size)
           \/ ExecuteMOVxx(c, i) = Encoding(d)
           \/ ExecuteMOVxx(c, i) = Advance(SetReg(d, r1, value), size)
  BY <1>2
<1>4. After(c, d, c.Ip) /\ SameData(c, d)
  <2>1. SameData(c, c)
    BY DEF SameData
  <2>. QED
    BY <1>3, <2>1, AfterItself, AfterSteps, TrackerContext, TrackerDeltaContext
<1>. HIDE DEF size
<1>5. CASE ExecuteMOVxx(c, i) = d /\ d.Status # "SUCCESS"
  BY <1>4, <1>5 DEF Advanced, Executed, After, Refused
<1>6. CASE ExecuteMOVxx(c, i) = Advance(Write(c, addr, width, data), size)
  BY <1>1, <1>6, AfterItself, AfterSteps, AfterAdvance, AfterIsAdvanced
<1>7. CASE ExecuteMOVxx(c, i) = Encoding(d)
  BY <1>4, <1>7, EncodingRefuses DEF After
<1>8. CASE ExecuteMOVxx(c, i) = Advance(SetReg(d, r1, value), size)
  BY <1>1, <1>4, <1>8, AfterSteps, AfterAdvance, AfterIsAdvanced
<1>. QED
  BY <1>3, <1>5, <1>6, <1>7, <1>8

\* MOVI, MOVIn and MOVREL, whatever they move.
LEMMA MoveImmediateAdvances ==
  ASSUME NEW c, IsContext(c), NEW i, i.opcode \in 0 .. 255,
         NEW x, NEW bytes, NEW mask, NEW name, NEW datum
  PROVE  Advanced(c, MoveImmediate(c, i, x, bytes, mask), MoveImmediateText(i, name, datum).Size)
<1>. DEFINE indexed == Bit(i.operands, 6)
            size == 2 + (IF indexed THEN 2 ELSE 0) + DataWidth(i)
            r1 == OPERAND1_REGNUM(i)
<1>1. MoveImmediateText(i, name, datum).Size = size
  <2>1. DataWidth(i) \in Int /\ ImmediateWidth(i) = DataWidth(i)
    BY DEF DataWidth, ImmediateWidth
  <2>2. MoveImmediateText(i, name, datum).Size
          = 2 + ImmediateWidth(i) + (IF indexed THEN 2 ELSE 0)
    BY DEF MoveImmediateText, Text
  <2>. QED
    <3>. HIDE DEF indexed
    <3>. QED
      BY <2>1, <2>2
<1>2. \E addr :
        \/ MoveImmediate(c, i, x, bytes, mask) = Encoding(c)
        \/ MoveImmediate(c, i, x, bytes, mask) = Advance(Write(c, addr, bytes, x), size)
        \/ MoveImmediate(c, i, x, bytes, mask) = Advance(SetTracked(c, r1, UInt(x, mask)), size)
  BY ZenonT(30) DEF MoveImmediate
<1>3. SameData(c, c)
  BY DEF SameData
<1>. HIDE DEF size
<1>. QED
  BY <1>1, <1>2, <1>3, EncodingRefuses, AfterItself, AfterSteps, AfterAdvance, AfterIsAdvanced

\* MOVI, MOVIn and MOVREL go on after the bytes the disassembler counts.
LEMMA MOVIAdvances ==
  ASSUME NEW c, IsContext(c), NEW i, i.opcode \in 0 .. 255
  PROVE  /\ Advanced(c, ExecuteMOVI(c, i), EdbDisasmMOVI(i).Size)
         /\ Advanced(c, ExecuteMOVIn(c, i), EdbDisasmMOVIn(i).Size)
         /\ Executed(c, ExecuteMOVREL(c, i))
         /\ EdbDisasmMOVREL(i).Size # 0 =>
              Advanced(c, ExecuteMOVREL(c, i), EdbDisasmMOVREL(i).Size)
<1>1. Advanced(c, ExecuteMOVI(c, i), EdbDisasmMOVI(i).Size)
  BY MoveImmediateAdvances DEF ExecuteMOVI, EdbDisasmMOVI
<1>2. Advanced(c, ExecuteMOVIn(c, i), EdbDisasmMOVIn(i).Size)
  BY MoveImmediateAdvances DEF ExecuteMOVIn, EdbDisasmMOVIn
<1>3. EdbDisasmMOVREL(i).Size # 0 => Advanced(c, ExecuteMOVREL(c, i), EdbDisasmMOVREL(i).Size)
  BY MoveImmediateAdvances DEF ExecuteMOVREL, EdbDisasmMOVREL, Bad, Text
<1>4. Executed(c, ExecuteMOVREL(c, i))
  BY MoveImmediateAdvances DEF ExecuteMOVREL, Advanced
<1>. QED
  BY <1>1, <1>2, <1>3, <1>4

\* MOVsnw and MOVsnd.
LEMMA MoveSignedAdvances ==
  ASSUME NEW c, IsContext(c), NEW i, NEW width \in {2, 4}
  PROVE  Advanced(c, MoveSigned(c, i, width), SignedMove(i, width).Size)
<1>. DEFINE has1 == Bit(i.opcode, 7)
            has2 == Bit(i.opcode, 6)
            size == 2 + (IF has1 THEN width ELSE 0) + (IF has2 THEN width ELSE 0)
            r1 == OPERAND1_REGNUM(i)
<1>1. SignedMove(i, width).Size = size
  <2>1. Indexes(i, width) = (IF has1 THEN width ELSE 0) + (IF has2 THEN width ELSE 0)
    BY DEF Indexes
  <2>2. SignedMove(i, width).Size = 2 + Indexes(i, width)
    BY DEF SignedMove, Text
  <2>. QED
    <3>. HIDE DEF has1, has2
    <3>. QED
      BY <2>1, <2>2
<1>2. \E addr, value :
        \/ MoveSigned(c, i, width) = Encoding(c)
        \/ MoveSigned(c, i, width) = Advance(Write(c, addr, N, value), size)
        \/ MoveSigned(c, i, width) = Advance(SetTracked(c, r1, value), size)
  BY ZenonT(30) DEF MoveSigned
<1>3. SameData(c, c)
  BY DEF SameData
<1>. HIDE DEF size
<1>. QED
  BY <1>1, <1>2, <1>3, EncodingRefuses, AfterItself, AfterSteps, AfterAdvance, AfterIsAdvanced

\* What is pushed and popped may be an index or a number; Ip advances first.
LEMMA PushPopAdvance ==
  ASSUME NEW c, IsContext(c), NEW i, NEW name
  PROVE  /\ Advanced(c, ExecutePUSH(c, i), OneOperand(i, name).Size)
         /\ Advanced(c, ExecutePUSHn(c, i), OneOperand(i, name).Size)
         /\ Advanced(c, ExecutePOP(c, i), OneOperand(i, name).Size)
         /\ Advanced(c, ExecutePOPn(c, i), OneOperand(i, name).Size)
<1>. DEFINE size == IF Immediate(i) THEN 4 ELSE 2
            ip == Natural(c.Ip + size)
<1>1. OneOperand(i, name).Size = size
  BY DEF OneOperand, Text
<1>2. After(c, Advance(c, size), ip)
  BY AfterItself, AfterAdvance
<1>3. ASSUME NEW bytes, NEW n PROVE After(c, Push(c, i, bytes, n), ip)
  <2>1. \E r0, value : Push(c, i, bytes, n)
                        = Write(SetReg(Advance(c, size), 0, r0), r0, bytes, value)
    BY ZenonT(30) DEF Push
  <2>. HIDE DEF size, ip
  <2>. QED
    BY <1>2, <2>1, AfterSteps
<1>4. ASSUME NEW bytes, NEW n, NEW x PROVE After(c, Pop(c, i, bytes, n, x), ip)
  <2>1. \E r0, addr, value, r1 :
          \/ Pop(c, i, bytes, n, x) = Write(SetReg(Advance(c, size), 0, r0), addr, bytes, value)
          \/ Pop(c, i, bytes, n, x) = SetReg(SetReg(Advance(c, size), 0, r0), r1, value)
    BY ZenonT(30) DEF Pop
  <2>. HIDE DEF size, ip
  <2>. QED
    BY <1>2, <2>1, AfterSteps
<1>5. After(c, ExecutePUSH(c, i), ip) /\ After(c, ExecutePUSHn(c, i), ip)
  <2>. HIDE DEF ip
  <2>. QED
    BY <1>3, AfterSteps DEF ExecutePUSH, ExecutePUSHn
<1>6. After(c, ExecutePOP(c, i), ip) /\ After(c, ExecutePOPn(c, i), ip)
  <2>. HIDE DEF ip
  <2>. QED
    BY <1>4, AfterSteps DEF ExecutePOP, ExecutePOPn
<1>. QED
  <2>. HIDE DEF size
  <2>. QED
    BY <1>1, <1>5, <1>6, AfterIsAdvanced

\* Comparisons set the flag only, if they are not refused.
LEMMA FlagContext ==
  ASSUME NEW c, IsContext(c), NEW b
  PROVE  After(c, [c EXCEPT !.CC = b], c.Ip)
  BY DEF After, IsContext, Fields

\* So do CMP and CMPI.
LEMMA CompareAdvances ==
  ASSUME NEW c, IsContext(c), NEW i
  PROVE  /\ Advanced(c, ExecuteCMP(c, i), EdbDisasmCMP(i).Size)
         /\ Executed(c, ExecuteCMPI(c, i))
         /\ EdbDisasmCMPI(i).Size # 0 => Advanced(c, ExecuteCMPI(c, i), EdbDisasmCMPI(i).Size)
<1>1. Advanced(c, ExecuteCMP(c, i), EdbDisasmCMP(i).Size)
  <2>. DEFINE size == IF Immediate(i) THEN 4 ELSE 2
  <2>1. EdbDisasmCMP(i).Size = size
    BY DEF EdbDisasmCMP, TwoOperands, Text
  <2>2. \E b : ExecuteCMP(c, i) = Advance([c EXCEPT !.CC = b], size)
    BY ZenonT(30) DEF ExecuteCMP
  <2>. HIDE DEF size
  <2>. QED
    BY <2>1, <2>2, FlagContext, AfterAdvance, AfterIsAdvanced
<1>. DEFINE indexed == Bit(i.operands, 4)
            bytes == IF Immediate(i) THEN 4 ELSE 2
            short == 2 + (IF indexed THEN 2 ELSE 0)
            refused == [Advance(Raise(c, "INSTRUCTION_ENCODING", "ERROR"), short)
                          EXCEPT !.Status = "UNSUPPORTED"]
<1>2. EdbDisasmCMPI(i).Size # 0 => EdbDisasmCMPI(i).Size = short + bytes
  <2>1. EdbDisasmCMPI(i).Size # 0 =>
          EdbDisasmCMPI(i).Size = 2 + bytes + (IF indexed THEN 2 ELSE 0)
    BY DEF EdbDisasmCMPI, Bad, Text
  <2>. QED
    <3>. HIDE DEF indexed
    <3>. QED
      BY <2>1
<1>3. Advanced(c, ExecuteCMPI(c, i), short + bytes)
  <2>1. \E b : \/ ExecuteCMPI(c, i) = refused
               \/ ExecuteCMPI(c, i) = Advance([c EXCEPT !.CC = b], short + bytes)
    BY ZenonT(30) DEF ExecuteCMPI
  <2>2. Advanced(c, refused, short + bytes)
    BY AdvanceRefuses
  <2>. HIDE DEF short, bytes, refused
  <2>. QED
    BY <2>1, <2>2, FlagContext, AfterAdvance, AfterIsAdvanced
<1>. HIDE DEF short, bytes
<1>. QED
  BY <1>1, <1>2, <1>3 DEF Advanced

\* Data instructions; a division by zero is an exception, but not of the encoding.
LEMMA DataManipAdvances ==
  ASSUME NEW c, IsContext(c), NEW i, NEW masks, NEW name
  PROVE  Advanced(c, ExecuteDataManip(c, i, masks), TwoOperands(i, name).Size)
<1>. DEFINE size == IF Immediate(i) THEN 4 ELSE 2
            divided == Raise(c, "DIVIDE_ERROR", "FATAL")
            r1 == OPERAND1_REGNUM(i)
            Does1(d) == ExecuteDataManip(c, i, masks) = Advance(d, size)
<1>1. TwoOperands(i, name).Size = size
  BY DEF TwoOperands, Text
<1>2. \E d \in {c, divided} : \E addr, width, x, y :
        \/ Does1(Write(d, addr, width, x))
        \/ Does1(SetReg(d, r1, x))
        \/ Does1(SetReg(UpdateStackTrackerFromDelta(d, y), r1, x))
  BY ZenonT(30) DEF ExecuteDataManip
<1>3. After(divided, divided, c.Ip) /\ divided.LastException = "DIVIDE_ERROR"
  BY RaiseContext, AfterItself
<1>4. ASSUME NEW d, NEW e, NEW ip, After(d, e, c.Ip), d.LastException \in {c.LastException, "DIVIDE_ERROR"}
      PROVE  Advanced(c, Advance(e, size), size)
  <2>1. /\ IsContext(Advance(e, size))
        /\ Advance(e, size).Ip = Natural(c.Ip + size)
        /\ Advance(e, size).LastException \in {c.LastException, "DIVIDE_ERROR"}
    BY <1>4, AdvanceContext DEF After
  <2>. HIDE DEF size
  <2>. QED
    BY <2>1 DEF Advanced, Executed, Refused
<1>5. ASSUME NEW d \in {c, divided}
      PROVE  /\ \A addr, width, x : Advanced(c, Advance(Write(d, addr, width, x), size), size)
             /\ \A x : Advanced(c, Advance(SetReg(d, r1, x), size), size)
             /\ \A x, y : Advanced(c, Advance(SetReg(UpdateStackTrackerFromDelta(d, y), r1, x),
                                               size), size)
  <2>1. After(d, d, c.Ip) /\ d.LastException \in {c.LastException, "DIVIDE_ERROR"}
    BY <1>3, AfterItself
  <2>. HIDE DEF size, divided
  <2>. QED
    BY <1>4, <2>1, AfterSteps
<1>. QED
  <2>. HIDE DEF size, divided
  <2>. QED
    BY <1>1, <1>2, <1>5

\* Dedicated registers.
LEMMA DedicatedAdvance ==
  ASSUME NEW c, IsContext(c), NEW i
  PROVE  /\ Advanced(c, ExecuteLOADSP(c, i), EdbDisasmLOADSP(i).Size)
         /\ Advanced(c, ExecuteSTORESP(c, i), EdbDisasmSTORESP(i).Size)
<1>1. EdbDisasmLOADSP(i).Size = 2 /\ EdbDisasmSTORESP(i).Size = 2
  BY DEF EdbDisasmLOADSP, EdbDisasmSTORESP, Text
<1>2. Advanced(c, ExecuteLOADSP(c, i), 2)
  <2>. DEFINE Flags(a, b) == [c EXCEPT !.CC = a, !.STEP = b]
              refused == [Advance(Raise(c, "INSTRUCTION_ENCODING", "WARNING"), 2)
                            EXCEPT !.Status = "UNSUPPORTED"]
  <2>1. ASSUME NEW a, NEW b PROVE After(c, Flags(a, b), c.Ip)
    BY DEF After, IsContext, Fields
  <2>2. \E a, b : ExecuteLOADSP(c, i) \in {Advance(Flags(a, b), 2), refused}
    BY ZenonT(30) DEF ExecuteLOADSP
  <2>3. Advanced(c, refused, 2)
    BY AdvanceRefuses
  <2>. HIDE DEF Flags, refused
  <2>. QED
    BY <2>1, <2>2, <2>3, AfterAdvance, AfterIsAdvanced
<1>3. Advanced(c, ExecuteSTORESP(c, i), 2)
  <2>1. \E r, x :
          \/ ExecuteSTORESP(c, i) = Advance(SetReg(c, r, x), 2)
          \/ ExecuteSTORESP(c, i) = [Advance(Raise(c, "INSTRUCTION_ENCODING", "WARNING"), 2)
                                       EXCEPT !.Status = "UNSUPPORTED"]
    BY ZenonT(30) DEF ExecuteSTORESP
  <2>. QED
    BY <2>1, AfterItself, AfterSteps, AfterAdvance, AfterIsAdvanced, AdvanceRefuses
<1>. QED
  BY <1>1, <1>2, <1>3

-----------------------------------------------------------------------------
(***************************************************************************)
(* Control transfers: where they go is not said, except that what is not   *)
(* taken and what is native goes on after itself.                          *)
(***************************************************************************)
\* d is what c became with no exception, or one that is not about the encoding.
LEMMA ExecutedElsewhere ==
  ASSUME NEW c, NEW d, IsContext(d),
         d.LastException = c.LastException \/ d.LastException # "INSTRUCTION_ENCODING"
  PROVE  Executed(c, d)
  BY DEF Executed, Refused

\* JMP and CALL are of one length by the flags of the opcode byte.
LEMMA JumpLengths ==
  ASSUME NEW i, i.opcode \in 0 .. 255
  PROVE  JumpLength(i) = IF Immediate(i) THEN (IF Wide(i) THEN 10 ELSE 6) ELSE 2
<1>1. 2^7 = 128 /\ 2^6 = 64
  OBVIOUS
<1>2. /\ Immediate(i) <=> (i.opcode \div 128) % 2 = 1
      /\ Wide(i) <=> (i.opcode \div 64) % 2 = 1
  BY <1>1 DEF Immediate, Wide, Bit
<1>. DEFINE quarter == i.opcode \div 64
<1>3. quarter \in 0 .. 3 /\ i.opcode \div 128 = quarter \div 2
  OBVIOUS
<1>4. JumpLength(i) = <<2, 2, 6, 10>>[1 + quarter]
  BY DEF JumpLength
<1>5. /\ Immediate(i) <=> (quarter \div 2) % 2 = 1
      /\ Wide(i) <=> quarter % 2 = 1
  BY <1>2, <1>3
<1>. HIDE DEF quarter
<1>6. /\ quarter = 0 => ~ Immediate(i) /\ ~ Wide(i)
      /\ quarter = 1 => ~ Immediate(i) /\ Wide(i)
      /\ quarter = 2 => Immediate(i) /\ ~ Wide(i)
      /\ quarter = 3 => Immediate(i) /\ Wide(i)
  BY <1>3, <1>5
<1>7. \A k \in 0 .. 3 : <<2, 2, 6, 10>>[1 + k]
                         = IF k = 0 \/ k = 1 THEN 2 ELSE IF k = 2 THEN 6 ELSE 10
  OBVIOUS
<1>8. JumpLength(i) = IF quarter = 0 \/ quarter = 1 THEN 2 ELSE IF quarter = 2 THEN 6 ELSE 10
  BY <1>3, <1>4, <1>7
<1>. QED
  BY <1>3, <1>6, <1>8

\* JMP goes on after itself when it is not taken.
LEMMA JMPExecutes ==
  ASSUME NEW c, IsContext(c), NEW i
  PROVE  /\ Executed(c, ExecuteJMP(c, i))
         /\ NotTaken(c, i.operands) /\ EdbDisasmJMP(i).Size # 0 =>
              Advanced(c, ExecuteJMP(c, i), EdbDisasmJMP(i).Size)
<1>1. Advanced(c, Advance(c, JmpLen(i)), JmpLen(i))
  BY AfterItself, AfterAdvance, AfterIsAdvanced
<1>2. NotTaken(c, i.operands) /\ EdbDisasmJMP(i).Size # 0 =>
        Advanced(c, ExecuteJMP(c, i), EdbDisasmJMP(i).Size)
  <2>1. EdbDisasmJMP(i).Size # 0 => EdbDisasmJMP(i).Size = JmpLen(i)
    BY DEF EdbDisasmJMP, Bad, Text, JumpLength, JmpLen, mJMPLen
  <2>2. NotTaken(c, i.operands) => ExecuteJMP(c, i) = Advance(c, JmpLen(i))
    BY DEF ExecuteJMP
  <2>. QED
    BY <1>1, <2>1, <2>2
<1>. DEFINE refused == [Raise(c, "INSTRUCTION_ENCODING", "ERROR") EXCEPT !.Status = "UNSUPPORTED"]
<1>3. Executed(c, refused)
  <2>1. /\ IsContext(Raise(c, "INSTRUCTION_ENCODING", "ERROR"))
        /\ SameData(c, Raise(c, "INSTRUCTION_ENCODING", "ERROR"))
    BY RaiseContext
  <2>2. IsContext(refused) /\ SameData(Raise(c, "INSTRUCTION_ENCODING", "ERROR"), refused)
    BY <2>1 DEF IsContext, Fields, SameData
  <2>. HIDE DEF refused
  <2>. QED
    BY <2>1, <2>2 DEF Executed, SameData
<1>4. ASSUME NEW addr PROVE Executed(c, JumpTo(c, i, addr))
  <2>. DEFINE raised == Raise(c, "ALIGNMENT_CHECK", "FATAL")
              misaligned == [raised EXCEPT !.Status = "UNSUPPORTED"]
              jumped == [c EXCEPT !.Ip = Natural(addr)]
              relative == Advance(c, Natural(addr) + JmpLen(i))
  <2>1. IsContext(raised) /\ raised.LastException = "ALIGNMENT_CHECK"
    BY RaiseContext
  <2>2. Executed(c, misaligned)
    <3>1. IsContext(misaligned) /\ misaligned.LastException = raised.LastException
      <4>. HIDE DEF raised
      <4>. QED
        BY <2>1 DEF IsContext, Fields
    <3>. HIDE DEF misaligned, raised
    <3>. QED
      BY <2>1, <3>1, ExecutedElsewhere
  <2>3. Executed(c, jumped)
    <3>1. IsContext(jumped) /\ jumped.LastException = c.LastException
      BY DEF IsContext, Fields
    <3>. HIDE DEF jumped
    <3>. QED
      BY <3>1, ExecutedElsewhere
  <2>4. Executed(c, relative)
    BY AdvanceContext, ExecutedElsewhere
  <2>5. JumpTo(c, i, addr) \in {misaligned, jumped, relative}
    BY DEF JumpTo
  <2>. HIDE DEF misaligned, jumped, relative
  <2>. QED
    BY <2>2, <2>3, <2>4, <2>5
<1>5. \/ ExecuteJMP(c, i) \in {Advance(c, JmpLen(i)), refused}
      \/ \E addr : ExecuteJMP(c, i) = JumpTo(c, i, addr)
  BY DEF ExecuteJMP
<1>. HIDE DEF refused
<1>. QED
  BY <1>1, <1>2, <1>3, <1>4, <1>5 DEF Advanced

\* So does JMP8.
LEMMA JMP8Executes ==
  ASSUME NEW c, IsContext(c), NEW i
  PROVE  /\ Executed(c, ExecuteJMP8(c, i))
         /\ NotTaken(c, i.opcode) => Advanced(c, ExecuteJMP8(c, i), EdbDisasmJMP8(i).Size)
<1>1. ASSUME NEW size PROVE Advanced(c, Advance(c, size), size)
  BY AfterItself, AfterAdvance, AfterIsAdvanced
<1>2. EdbDisasmJMP8(i).Size = 2
  BY DEF EdbDisasmJMP8, Text
<1>3. /\ \E size : ExecuteJMP8(c, i) = Advance(c, size)
      /\ NotTaken(c, i.opcode) => ExecuteJMP8(c, i) = Advance(c, 2)
  BY DEF ExecuteJMP8
<1>. QED
  BY <1>1, <1>2, <1>3 DEF Advanced

\* CALL goes on after itself when it calls native code.
LEMMA CALLExecutes ==
  ASSUME NEW c, IsContext(c), NEW i, i.opcode \in 0 .. 255
  PROVE  /\ Executed(c, ExecuteCALL(c, i))
         /\ Bit(i.operands, 5) /\ EdbDisasmCALL(i).Size # 0 =>
              Advanced(c, ExecuteCALL(c, i), EdbDisasmCALL(i).Size)
<1>. DEFINE native == Bit(i.operands, 5)
            size == IF Immediate(i) THEN (IF Wide(i) THEN 10 ELSE 6) ELSE 2
            fp == UInt(c.Gpr[0] - 8, 8)
            saved == Write(c, fp, N, c.FramePtr)
            pushed == Write(SetReg(saved, 0, fp - 8), fp - 8, 8, Natural(c.Ip + size))
            entered == [pushed EXCEPT !.FramePtr = Natural(fp)]
<1>1. Advanced(c, EbcLLCALLEX(c, size), size)
  BY AfterItself, AfterSteps, AfterAdvance, AfterIsAdvanced DEF EbcLLCALLEX
<1>2. native /\ EdbDisasmCALL(i).Size # 0 =>
        Advanced(c, ExecuteCALL(c, i), EdbDisasmCALL(i).Size)
  <2>1. EdbDisasmCALL(i).Size # 0 => EdbDisasmCALL(i).Size = size
    BY JumpLengths DEF EdbDisasmCALL, Bad, Text
  <2>2. native => ExecuteCALL(c, i) = EbcLLCALLEX(c, size)
    BY ZenonT(30) DEF ExecuteCALL
  <2>. HIDE DEF size, native
  <2>. QED
    BY <1>1, <2>1, <2>2
<1>3. After(c, entered, c.Ip)
  <2>1. After(c, pushed, c.Ip)
    BY AfterItself, AfterSteps
  <2>. HIDE DEF pushed
  <2>. QED
    BY <2>1 DEF After, IsContext, Fields
<1>4. \E target :
        \/ ExecuteCALL(c, i) = EbcLLCALLEX(c, size)
        \/ ExecuteCALL(c, i) = Advance(entered, target)
        \/ ExecuteCALL(c, i) = [entered EXCEPT !.Ip = target]
  <2>1. CASE native
    BY <2>1, ZenonT(30) DEF ExecuteCALL
  <2>2. CASE ~ native
    BY <2>2, ZenonT(60) DEF ExecuteCALL
  <2>. QED
    BY <2>1, <2>2
<1>5. ASSUME NEW target
      PROVE  Executed(c, Advance(entered, target)) /\ Executed(c, [entered EXCEPT !.Ip = target])
  <2>. HIDE DEF entered
  <2>1. Executed(c, Advance(entered, target))
    BY <1>3, AdvanceContext, ExecutedElsewhere DEF After
  <2>2. Executed(c, [entered EXCEPT !.Ip = target])
    <3>. DEFINE d == [entered EXCEPT !.Ip = target]
    <3>1. IsContext(d) /\ d.LastException = c.LastException
      BY <1>3 DEF After, IsContext, Fields
    <3>. HIDE DEF d
    <3>2. Executed(c, d)
      BY <3>1, ExecutedElsewhere
    <3>. QED
      BY <3>2 DEF d
  <2>. QED
    BY <2>1, <2>2
<1>. HIDE DEF size, entered, native
<1>. QED
  <2>1. PICK target :
        \/ ExecuteCALL(c, i) = EbcLLCALLEX(c, size)
        \/ ExecuteCALL(c, i) = Advance(entered, target)
        \/ ExecuteCALL(c, i) = [entered EXCEPT !.Ip = target]
    BY <1>4
  <2>2. Executed(c, ExecuteCALL(c, i))
    <3>1. CASE ExecuteCALL(c, i) = [entered EXCEPT !.Ip = target]
      BY <1>5, <3>1
    <3>. QED
      BY <1>1, <1>5, <2>1, <3>1 DEF Advanced
  <2>. QED
    BY <1>2, <2>2 DEF native

\* RET is executed without a refusal that leaves a trace.
LEMMA RETExecutes ==
  ASSUME NEW c, IsContext(c), NEW i
  PROVE  Executed(c, ExecuteRET(c, i))
<1>. DEFINE done == [c EXCEPT !.Done = TRUE]
            raised == Raise(c, "ALIGNMENT_CHECK", "FATAL")
            Returned(d, ip, fp) == [d EXCEPT !.Ip = ip, !.FramePtr = fp]
<1>1. \E d \in {c, raised} : \E ip, fp, x :
        ExecuteRET(c, i) \in {done, SetReg(Returned(d, ip, fp), 0, x)}
  BY ZenonT(30) DEF ExecuteRET
<1>2. Executed(c, done)
  <2>1. IsContext(done) /\ done.LastException = c.LastException
    BY DEF IsContext, Fields
  <2>. HIDE DEF done
  <2>. QED
    BY <2>1, ExecutedElsewhere
<1>3. IsContext(raised) /\ raised.LastException = "ALIGNMENT_CHECK"
  BY RaiseContext
<1>4. ASSUME NEW d \in {c, raised}, NEW ip, NEW fp, NEW x
      PROVE  Executed(c, SetReg(Returned(d, ip, fp), 0, x))
  <2>1. IsContext(d) /\ d.LastException \in {c.LastException, "ALIGNMENT_CHECK"}
    <3>. HIDE DEF raised
    <3>. QED
      BY <1>3
  <2>2. IsContext(Returned(d, ip, fp)) /\ Returned(d, ip, fp).LastException = d.LastException
    BY <2>1 DEF IsContext, Fields
  <2>. HIDE DEF Returned, raised
  <2>. QED
    BY <2>1, <2>2, SetRegContext, ExecutedElsewhere
<1>. HIDE DEF done, raised, Returned
<1>. QED
  BY <1>1, <1>2, <1>4

\* BREAK is two bytes whatever it asks for.
LEMMA BREAKExecutes ==
  ASSUME NEW c, IsContext(c), c.Status = "SUCCESS", NEW i, NEW fails
  PROVE  Advanced(c, ExecuteBREAK(c, i, fails), 2)
<1>. DEFINE failed == [c EXCEPT !.Status = "OUT_OF_RESOURCES"]
<1>1. \/ ExecuteBREAK(c, i, fails) = Advance(SetReg(c, 7, 1), 2)
      \/ ExecuteBREAK(c, i, fails) = Advance(Raise(c, "BREAKPOINT", "NONE"), 2)
      \/ ExecuteBREAK(c, i, fails) = Advance(c, 2)
      \/ ExecuteBREAK(c, i, fails) = failed
      \/ ExecuteBREAK(c, i, fails) = Advance(Write(c, c.Gpr[7], 8, 2), 2)
      \/ ExecuteBREAK(c, i, fails) = Advance(Raise(c, "BAD_BREAK", "FATAL"), 2)
  BY DEF ExecuteBREAK
<1>2. Advanced(c, failed, 2)
  <2>1. IsContext(failed) /\ failed.Status = "OUT_OF_RESOURCES"
    BY DEF IsContext, Fields
  <2>. HIDE DEF failed
  <2>. QED
    BY <2>1 DEF Advanced, Executed, Refused
<1>. HIDE DEF failed
<1>. QED
  BY <1>1, <1>2, AfterItself, AfterSteps, AfterAdvance, AfterIsAdvanced, RaiseAdvances

-----------------------------------------------------------------------------
\* The opcodes at which the tables change their function.
LEMMA OpcodeNumbers ==
  /\ OP.BREAK = 0 /\ OP.JMP = 1 /\ OP.JMP8 = 2 /\ OP.CALL = 3
  /\ OP.RET = 4 /\ OP.CMPEQ = 5 /\ OP.CMPUGTE = 9 /\ OP.NOT = 10
  /\ OP.NEG = 11 /\ OP.ADD = 12 /\ OP.SUB = 13 /\ OP.MUL = 14
  /\ OP.DIV = 16 /\ OP.MOD = 18 /\ OP.ASHR = 25 /\ OP.EXTNDD = 28
  /\ OP.MOVBW = 29 /\ OP.MOVQD = 36 /\ OP.MOVQQ = 40 /\ OP.MOVNW = 50 /\ OP.MOVND = 51
  /\ OP.MOVSNW = 37 /\ OP.MOVSND = 38 /\ OP.LOADSP = 41 /\ OP.STORESP = 42
  /\ OP.PUSH = 43 /\ OP.POP = 44 /\ OP.CMPIEQ = 45 /\ OP.CMPIUGTE = 49
  /\ OP.PUSHN = 53 /\ OP.POPN = 54 /\ OP.MOVI = 55 /\ OP.MOVIN = 56
  /\ OP.MOVREL = 57
  BY DEF OP

\* The function of the opcode, in the interpreter and in the disassembler.
LEMMA DispatchExecutes ==
  ASSUME NEW c, IsContext(c), NEW i, i.opcode \in 0 .. 255, i.operands \in 0 .. 255,
         Opcode(i) \notin NoFunction, NEW masks, NEW fails
  PROVE  /\ Executed(c, Dispatch(c, i, masks, fails))
         /\ Disasm(i).Size # 0 /\ ~ Transfers(c, i) =>
              Advanced(c, Dispatch(c, i, masks, fails), Disasm(i).Size)
<1>. DEFINE k == [c EXCEPT !.Status = "SUCCESS"]
            op == Opcode(i)
            Gives(d, t) == Dispatch(c, i, masks, fails) = d /\ Disasm(i) = t
            Goal == /\ Executed(k, Dispatch(c, i, masks, fails))
                    /\ Disasm(i).Size # 0 /\ ~ Transfers(k, i) =>
                         Advanced(k, Dispatch(c, i, masks, fails), Disasm(i).Size)
<1>1. IsContext(k) /\ k.Status = "SUCCESS" /\ SameData(c, k)
      /\ k.LastException = c.LastException /\ k.Ip = c.Ip
  BY DEF IsContext, Fields, SameData
<1>2. op \in 0 .. 57 \ {39, 52}
  BY DEF Opcode, NoFunction
<1>. HIDE DEF k, op
<1>3. op = 0 => Gives(ExecuteBREAK(k, i, fails), EdbDisasmBREAK(i))
  BY OpcodeNumbers, <1>2 DEF Dispatch, Disasm, mEdbDisasmInstructionTable, k, op
<1>4. op = 1 => Gives(ExecuteJMP(k, i), EdbDisasmJMP(i))
  BY OpcodeNumbers, <1>2 DEF Dispatch, Disasm, mEdbDisasmInstructionTable, k, op
<1>5. op = 2 => Gives(ExecuteJMP8(k, i), EdbDisasmJMP8(i))
  BY OpcodeNumbers, <1>2 DEF Dispatch, Disasm, mEdbDisasmInstructionTable, k, op
<1>6. op = 3 => Gives(ExecuteCALL(k, i), EdbDisasmCALL(i))
  BY OpcodeNumbers, <1>2 DEF Dispatch, Disasm, mEdbDisasmInstructionTable, k, op
<1>7. op = 4 => Gives(ExecuteRET(k, i), EdbDisasmRET(i))
  BY OpcodeNumbers, <1>2 DEF Dispatch, Disasm, mEdbDisasmInstructionTable, k, op
<1>8. op \in 5 .. 9 => Gives(ExecuteCMP(k, i), EdbDisasmCMP(i))
  BY OpcodeNumbers, <1>2 DEF Dispatch, Disasm, mEdbDisasmInstructionTable, k, op
<1>9. op \in {11, 12, 13, 14, 16, 18, 25} => Gives(ExecuteDataManip(k, i, masks), EdbDisasmSignedDataManip(i))
  BY OpcodeNumbers, <1>2 DEF Dispatch, Disasm, mEdbDisasmInstructionTable, k, op
<1>10. op \in 10 .. 28 \ {11, 12, 13, 14, 16, 18, 25} => Gives(ExecuteDataManip(k, i, masks), EdbDisasmUnsignedDataManip(i))
  BY OpcodeNumbers, <1>2 DEF Dispatch, Disasm, mEdbDisasmInstructionTable, k, op
<1>11. op \in 29 .. 36 \cup {40, 50, 51} => Gives(ExecuteMOVxx(k, i), EdbDisasmMOVxx(i))
  BY OpcodeNumbers, <1>2 DEF Dispatch, Disasm, mEdbDisasmInstructionTable, k, op
<1>12. op = 37 => Gives(ExecuteMOVsnw(k, i), EdbDisasmMOVsnw(i))
  BY OpcodeNumbers, <1>2 DEF Dispatch, Disasm, mEdbDisasmInstructionTable, k, op
<1>13. op = 38 => Gives(ExecuteMOVsnd(k, i), EdbDisasmMOVsnd(i))
  BY OpcodeNumbers, <1>2 DEF Dispatch, Disasm, mEdbDisasmInstructionTable, k, op
<1>14. op = 41 => Gives(ExecuteLOADSP(k, i), EdbDisasmLOADSP(i))
  BY OpcodeNumbers, <1>2 DEF Dispatch, Disasm, mEdbDisasmInstructionTable, k, op
<1>15. op = 42 => Gives(ExecuteSTORESP(k, i), EdbDisasmSTORESP(i))
  BY OpcodeNumbers, <1>2 DEF Dispatch, Disasm, mEdbDisasmInstructionTable, k, op
<1>16. op = 43 => Gives(ExecutePUSH(k, i), EdbDisasmPUSH(i))
  BY OpcodeNumbers, <1>2 DEF Dispatch, Disasm, mEdbDisasmInstructionTable, k, op
<1>17. op = 44 => Gives(ExecutePOP(k, i), EdbDisasmPOP(i))
  BY OpcodeNumbers, <1>2 DEF Dispatch, Disasm, mEdbDisasmInstructionTable, k, op
<1>18. op \in 45 .. 49 => Gives(ExecuteCMPI(k, i), EdbDisasmCMPI(i))
  BY OpcodeNumbers, <1>2 DEF Dispatch, Disasm, mEdbDisasmInstructionTable, k, op
<1>19. op = 53 => Gives(ExecutePUSHn(k, i), EdbDisasmPUSHn(i))
  BY OpcodeNumbers, <1>2 DEF Dispatch, Disasm, mEdbDisasmInstructionTable, k, op
<1>20. op = 54 => Gives(ExecutePOPn(k, i), EdbDisasmPOPn(i))
  BY OpcodeNumbers, <1>2 DEF Dispatch, Disasm, mEdbDisasmInstructionTable, k, op
<1>21. op = 55 => Gives(ExecuteMOVI(k, i), EdbDisasmMOVI(i))
  BY OpcodeNumbers, <1>2 DEF Dispatch, Disasm, mEdbDisasmInstructionTable, k, op
<1>22. op = 56 => Gives(ExecuteMOVIn(k, i), EdbDisasmMOVIn(i))
  BY OpcodeNumbers, <1>2 DEF Dispatch, Disasm, mEdbDisasmInstructionTable, k, op
<1>23. op = 57 => Gives(ExecuteMOVREL(k, i), EdbDisasmMOVREL(i))
  BY OpcodeNumbers, <1>2 DEF Dispatch, Disasm, mEdbDisasmInstructionTable, k, op
<1>24. ASSUME NEW d, NEW t, Gives(d, t), t.Size # 0 => Advanced(k, d, t.Size), Executed(k, d)
       PROVE  Goal
  BY <1>24
<1>25. ASSUME NEW d, NEW t, Gives(d, t), Advanced(k, d, t.Size)
       PROVE  Goal
  BY <1>25 DEF Advanced
<1>26. op = 0 => Goal
  <2>1. EdbDisasmBREAK(i).Size # 0 => EdbDisasmBREAK(i).Size = 2
    BY DEF EdbDisasmBREAK, Bad, Text
  <2>2. Advanced(k, ExecuteBREAK(k, i, fails), 2)
    BY <1>1, BREAKExecutes
  <2>. HIDE DEF Goal, Gives
  <2>. QED
    BY <1>3, <1>24, <2>1, <2>2 DEF Advanced
<1>27. op \in 1 .. 4 => Goal
  <2>1. op = 1 => Goal
    BY <1>1, <1>4, JMPExecutes, OpcodeNumbers DEF Transfers, op
  <2>2. op = 2 => Goal
    BY <1>1, <1>5, JMP8Executes, OpcodeNumbers DEF Transfers, op
  <2>3. op = 3 => Goal
    BY <1>1, <1>6, CALLExecutes, OpcodeNumbers DEF Transfers, op
  <2>4. op = 4 => Goal
    BY <1>1, <1>7, RETExecutes, OpcodeNumbers DEF Transfers, op
  <2>. HIDE DEF Goal
  <2>. QED
    BY <2>1, <2>2, <2>3, <2>4
<1>28. op \in 5 .. 28 => Goal
  <2>. HIDE DEF Goal, Gives
  <2>1. op \in 5 .. 9 => Goal
    BY <1>1, <1>8, <1>25, CompareAdvances
  <2>2. Advanced(k, ExecuteDataManip(k, i, masks), EdbDisasmSignedDataManip(i).Size)
    BY <1>1, DataManipAdvances DEF EdbDisasmSignedDataManip
  <2>3. Advanced(k, ExecuteDataManip(k, i, masks), EdbDisasmUnsignedDataManip(i).Size)
    BY <1>1, DataManipAdvances DEF EdbDisasmUnsignedDataManip
  <2>. QED
    BY <1>9, <1>10, <1>25, <2>1, <2>2, <2>3
<1>29. op \in 29 .. 38 \cup {40, 50, 51} => Goal
  <2>. HIDE DEF Goal, Gives
  <2>1. op \in 29 .. 36 \cup {40, 50, 51} => Goal
    BY <1>1, <1>11, <1>25, MOVxxAdvances DEF op
  <2>2. Advanced(k, ExecuteMOVsnw(k, i), EdbDisasmMOVsnw(i).Size)
    BY <1>1, MoveSignedAdvances DEF ExecuteMOVsnw, EdbDisasmMOVsnw
  <2>3. Advanced(k, ExecuteMOVsnd(k, i), EdbDisasmMOVsnd(i).Size)
    BY <1>1, MoveSignedAdvances DEF ExecuteMOVsnd, EdbDisasmMOVsnd
  <2>. QED
    BY <1>12, <1>13, <1>25, <2>1, <2>2, <2>3
<1>30. op \in {41, 42, 43, 44, 53, 54} => Goal
  <2>. HIDE DEF Goal, Gives
  <2>1. op \in {41, 42} => Goal
    BY <1>1, <1>14, <1>15, <1>25, DedicatedAdvance
  <2>2. /\ Advanced(k, ExecutePUSH(k, i), EdbDisasmPUSH(i).Size)
        /\ Advanced(k, ExecutePOP(k, i), EdbDisasmPOP(i).Size)
        /\ Advanced(k, ExecutePUSHn(k, i), EdbDisasmPUSHn(i).Size)
        /\ Advanced(k, ExecutePOPn(k, i), EdbDisasmPOPn(i).Size)
    BY <1>1, PushPopAdvance DEF EdbDisasmPUSH, EdbDisasmPOP, EdbDisasmPUSHn, EdbDisasmPOPn
  <2>. QED
    BY <1>16, <1>17, <1>19, <1>20, <1>25, <2>1, <2>2
<1>31. op \in 45 .. 49 \cup 55 .. 57 => Goal
  <2>. HIDE DEF Goal, Gives
  <2>1. op \in 45 .. 49 => Goal
    BY <1>1, <1>18, <1>24, CompareAdvances
  <2>2. op \in 55 .. 57 => Goal
    BY <1>1, <1>21, <1>22, <1>23, <1>24, <1>25, MOVIAdvances
  <2>. QED
    BY <2>1, <2>2
<1>32. Goal
  <2>. HIDE DEF Goal, Gives
  <2>. QED
    BY <1>2, <1>26, <1>27, <1>28, <1>29, <1>30, <1>31 DEF op
<1>33. Transfers(k, i) <=> Transfers(c, i)
  BY <1>1 DEF Transfers, NotTaken, SameData
<1>34. ASSUME NEW d, NEW size
       PROVE  /\ Executed(k, d) => Executed(c, d)
              /\ Advanced(k, d, size) => Advanced(c, d, size)
  BY <1>1 DEF Executed, Advanced, SameData
<1>. QED
  BY <1>32, <1>33, <1>34

-----------------------------------------------------------------------------
(***************************************************************************)
(* The inductive invariant: once the stack has been found overrun the      *)
(* context has stopped, so while it runs the check has been made, and      *)
(* passed, after every instruction.                                        *)
(***************************************************************************)
Inv ==
  /\ code \in Programs
  /\ IsContext(vm)
  /\ StackCorrupted => vm.Done
  /\ StackIntactWhileRunning

\* The inductive invariant holds when a context begins.
LEMMA InitInv == Init => Inv
<1>. SUFFICES ASSUME Init PROVE Inv
  OBVIOUS
<1>1. PICK start \in Starts : vm = Start(start)
  BY DEF Init
<1>2. IsContext(vm)
  BY <1>1 DEF IsContext, Fields, Start
<1>3. ~ Overrun(vm)
  BY <1>1, StartAssumption
<1>. QED
  BY <1>2, <1>3 DEF Init, Inv, StackIntactWhileRunning, Overrun

\* The instruction at Ip, in an invariant state in which the loop goes on.
LEMMA CurrentInstruction ==
  ASSUME Inv, ~ Ended
  PROVE  Current.opcode \in 0 .. 255 /\ Current.operands \in 0 .. 255 /\ ~ vm.Done
  BY ProgramAssumption DEF Inv, Ended, Current, WellFormed

\* The step flag and the stack check add their exceptions to what the
\* instruction has done, and nothing else.
LEMMA ExecuteStep ==
  ASSUME Inv, NEW masks, NEW fails, Execute(masks, fails)
  PROVE  \E s :
           /\ IsContext(s)
           /\ LET c == Dispatch(vm, Current, masks, fails)
              IN /\ s.Ip = c.Ip /\ s.Status = c.Status
                 /\ s = c \/ s.LastException = "STEP"
           /\ \/ vm' = s /\ ~ Overrun(s) /\ StackCorrupted' = FALSE
              \/ vm' = Raise(s, "STACK_FAULT", "FATAL")
<1>. DEFINE c == Dispatch(vm, Current, masks, fails)
            s == StepFlag(c)
<1>1. /\ Opcode(Current) \notin NoFunction
      /\ ~ Ended
      /\ vm' = CheckStack(s)
      /\ StackCorrupted' = (StackCorrupted \/ Overrun(vm'))
  BY DEF Execute, Fetch
<1>2. ~ vm.Done /\ ~ StackCorrupted
  BY <1>1, CurrentInstruction DEF Inv
<1>3. IsContext(c)
  BY <1>1, CurrentInstruction, DispatchExecutes DEF Inv, Executed
<1>. HIDE DEF c
<1>4. /\ IsContext(s)
      /\ s.Ip = c.Ip /\ s.Status = c.Status
      /\ s = c \/ s.LastException = "STEP"
  BY <1>3, RaiseContext DEF StepFlag
<1>. HIDE DEF s
<1>5. \/ vm' = s /\ ~ Overrun(s) /\ StackCorrupted' = FALSE
      \/ vm' = Raise(s, "STACK_FAULT", "FATAL")
  BY <1>1, <1>2 DEF CheckStack
<1>. QED
  BY <1>4, <1>5 DEF c

\* Every step keeps it.
LEMMA NextInv == Inv /\ [Next]_vars => Inv'
<1>. SUFFICES ASSUME Inv, [Next]_vars PROVE Inv'
  OBVIOUS
<1>1. ASSUME NEW masks \in BOOLEAN, NEW fails \in BOOLEAN, Execute(masks, fails)
      PROVE  Inv'
  <2>1. PICK s : /\ IsContext(s)
                 /\ \/ vm' = s /\ ~ Overrun(s) /\ StackCorrupted' = FALSE
                    \/ vm' = Raise(s, "STACK_FAULT", "FATAL")
    BY <1>1, ExecuteStep
  <2>2. code' \in Programs
    BY <1>1 DEF Execute, Inv
  <2>3. CASE vm' = s /\ ~ Overrun(s) /\ StackCorrupted' = FALSE
    BY <2>1, <2>2, <2>3 DEF Inv, StackIntactWhileRunning, Overrun
  <2>4. CASE vm' = Raise(s, "STACK_FAULT", "FATAL")
    <3>1. IsContext(vm') /\ vm'.Done
      BY <2>1, <2>4, RaiseContext
    <3>. QED
      BY <2>2, <3>1 DEF Inv, StackIntactWhileRunning
  <2>. QED
    BY <2>1, <2>3, <2>4
<1>2. CASE InvalidOpcode
  <2>1. IsContext(Raise(vm, "INVALID_OPCODE", "FATAL")) /\ Raise(vm, "INVALID_OPCODE", "FATAL").Done
    BY RaiseContext DEF Inv
  <2>2. IsContext(vm') /\ vm'.Done
    BY <1>2, <2>1 DEF InvalidOpcode, IsContext, Fields
  <2>. QED
    BY <1>2, <2>2 DEF InvalidOpcode, Inv, StackIntactWhileRunning
<1>3. CASE ProcessorTrap
  <2>1. IsContext(vm') /\ vm'.Done
    BY <1>3 DEF ProcessorTrap, Inv, IsContext, Fields
  <2>. QED
    BY <1>3, <2>1 DEF ProcessorTrap, Inv, StackIntactWhileRunning
<1>4. CASE UNCHANGED vars
  BY <1>4 DEF vars, Inv, StackIntactWhileRunning
<1>. QED
  BY <1>1, <1>2, <1>3, <1>4 DEF Next

\* It always holds.
LEMMA AlwaysInv == Spec => []Inv
<1>1. Init => Inv
  BY InitInv
<1>2. Inv /\ [Next]_vars => Inv'
  BY NextInv
<1>. QED
  BY <1>1, <1>2, PTL DEF Spec

\* No instruction is executed with the magic word of the stack overwritten or R0
\* in the gap below it: EbcExecute checks both after every instruction and ends
\* with the first that fails.
THEOREM StackIntact == Spec => []StackIntactWhileRunning
<1>1. Inv => StackIntactWhileRunning
  BY DEF Inv
<1>. QED
  BY <1>1, AlwaysInv, PTL

\* An instruction that raises the encoding exception and returns an error has not
\* written a register, memory or the flag, in any of the functions of EbcExecute.c.
THEOREM RefusedNoTrace == Spec => RefusedLeavesNoTrace
<1>. DEFINE Harmless == ( /\ vm.LastException # "INSTRUCTION_ENCODING"
                          /\ vm'.LastException = "INSTRUCTION_ENCODING"
                          /\ vm'.Status = "UNSUPPORTED" ) =>
                        vm'.Gpr = vm.Gpr /\ vm'.Mem = vm.Mem /\ vm'.CC = vm.CC
<1>1. ASSUME Inv, [Next]_vars PROVE [Harmless]_vars
  <2>1. ASSUME NEW masks \in BOOLEAN, NEW fails \in BOOLEAN, Execute(masks, fails)
        PROVE  Harmless
    <3>. DEFINE c == Dispatch(vm, Current, masks, fails)
    <3>1. PICK s : /\ IsContext(s)
                   /\ s = c \/ s.LastException = "STEP"
                   /\ vm' = s \/ vm' = Raise(s, "STACK_FAULT", "FATAL")
      BY <1>1, <2>1, ExecuteStep, ZenonT(60)
    <3>2. vm'.LastException = "INSTRUCTION_ENCODING" => vm' = c
      BY <3>1, RaiseContext
    <3>3. Executed(vm, c)
      BY <1>1, <2>1, CurrentInstruction, DispatchExecutes DEF Inv, Execute, Fetch
    <3>. HIDE DEF c
    <3>. QED
      BY <3>2, <3>3 DEF Executed, Refused, SameData
  <2>2. CASE InvalidOpcode
    <3>1. /\ IsContext(Raise(vm, "INVALID_OPCODE", "FATAL"))
          /\ Raise(vm, "INVALID_OPCODE", "FATAL").LastException = "INVALID_OPCODE"
      BY <1>1, RaiseContext DEF Inv
    <3>2. vm'.LastException = "INVALID_OPCODE"
      BY <2>2, <3>1 DEF InvalidOpcode, IsContext, Fields
    <3>. QED
      BY <3>2
  <2>3. CASE ProcessorTrap
    <3>1. vm'.LastException = "PROCESSOR"
      BY <1>1, <2>3 DEF ProcessorTrap, Inv, IsContext, Fields
    <3>. QED
      BY <3>1
  <2>. QED
    BY <1>1, <2>1, <2>2, <2>3 DEF Next
<1>. QED
  BY <1>1, AlwaysInv, PTL DEF Spec, RefusedLeavesNoTrace

\* What a session lists after the instruction it stopped at is what the context
\* executes next: the lengths of EdbDisasm.c are those EbcExecute.c advances by.
THEOREM ListedExecuted == Spec => ListedIsExecuted
<1>. DEFINE next == EdbShowDisasm(code, vm.Ip)
            Listed == ( /\ next # -1
                        /\ ~ Transfers(vm, Current)
                        /\ vm'.Status = "SUCCESS"
                        /\ Opcode(Current) \notin NoFunction
                        /\ ~ Traps(vm, Current) ) => vm'.Ip = Natural(next)
<1>1. ASSUME Inv, [Next]_vars PROVE [Listed]_vars
  <2>1. ASSUME NEW masks \in BOOLEAN, NEW fails \in BOOLEAN, Execute(masks, fails), next # -1
        PROVE  Listed
    <3>. DEFINE c == Dispatch(vm, Current, masks, fails)
    <3>1. PICK s : /\ IsContext(s)
                   /\ s.Ip = c.Ip /\ s.Status = c.Status
                   /\ vm' = s \/ vm' = Raise(s, "STACK_FAULT", "FATAL")
      BY <1>1, <2>1, ExecuteStep
    <3>2. vm'.Ip = c.Ip /\ vm'.Status = c.Status
      BY <3>1, RaiseContext
    <3>3. Disasm(Current).Size # 0 /\ next = vm.Ip + Disasm(Current).Size
      BY <2>1 DEF EdbShowDisasm, Current
    <3>4. ~ Transfers(vm, Current) => Advanced(vm, c, Disasm(Current).Size)
      BY <1>1, <2>1, <3>3, CurrentInstruction, DispatchExecutes DEF Inv, Execute, Fetch
    <3>. HIDE DEF c, next
    <3>. QED
      BY <3>2, <3>3, <3>4 DEF Advanced
  <2>2. CASE InvalidOpcode
    BY <2>2 DEF InvalidOpcode
  <2>3. CASE ProcessorTrap
    BY <2>3 DEF ProcessorTrap
  <2>. HIDE DEF next
  <2>. QED
    BY <1>1, <2>1, <2>2, <2>3 DEF Next
<1>. QED
  BY <1>1, AlwaysInv, PTL DEF Spec, ListedIsExecuted

-----------------------------------------------------------------------------
(***************************************************************************)
(* A typed context, and that every function of EbcExecute.c leaves one.    *)
(***************************************************************************)
Words == 0 .. Cells(8) - 1

TrackerType == [On : BOOLEAN, Height : Int, OrgHeight : Int, OrgStackPointer : Int]

\* The contents of a context have their types and widths.
Typed(c) ==
  /\ IsContext(c)
  /\ c.Gpr \in [0 .. 7 -> Words]
  /\ c.Ip \in Address /\ c.FramePtr \in Address
  /\ c.Mem \in Memories
  /\ c.CC \in BOOLEAN /\ c.STEP \in BOOLEAN /\ c.Done \in BOOLEAN
  /\ c.Tracker \in TrackerType
  /\ c.Tracker.On => NATURAL = 4

\* Words and addresses are naturals, and UInt leaves words alone.
LEMMA WordsType ==
  /\ \A x \in Words : x \in Nat /\ x \in Int
  /\ \A x \in Address : x \in Nat /\ x \in Int
  /\ \A x \in Int : UInt(x, 8) \in Words /\ UInt(x, 8) \in Nat
  /\ \A x \in Words : UInt(x, 8) = x
<1>1. 8 \in Nat
  OBVIOUS
<1>2. Cells(8) \in Nat \ {0} /\ Cells(NATURAL) \in Nat \ {0}
  BY <1>1, CellsType, WidthAssumption
<1>3. \A x \in Int : UInt(x, 8) \in 0 .. Cells(8) - 1
  BY <1>1, UIntType
<1>4. \A x \in 0 .. Cells(8) - 1 : UInt(x, 8) = x
  BY <1>1, UIntSmall
<1>. QED
  BY <1>2, <1>3, <1>4 DEF Words, Address

\* The steps an instruction is made of keep the types.
LEMMA TypedFields ==
  ASSUME NEW c, Typed(c)
  PROVE  /\ \A s : Typed([c EXCEPT !.Status = s])
         /\ \A b \in BOOLEAN : Typed([c EXCEPT !.CC = b])
         /\ \A a, b \in BOOLEAN : Typed([c EXCEPT !.CC = a, !.STEP = b])
         /\ \A x \in Int : Typed([c EXCEPT !.Ip = Natural(x)])
         /\ \A x \in Int : Typed([c EXCEPT !.FramePtr = Natural(x)])
         /\ Typed([c EXCEPT !.Done = TRUE])
         /\ \A type, flag : Typed(Raise(c, type, flag))
         /\ \A size \in Int : Typed(Advance(c, size))
         /\ \A r \in 0 .. 7, x \in Int : Typed(SetReg(c, r, x))
         /\ \A mem \in Memories : Typed([c EXCEPT !.Mem = mem])
<1>1. \A x \in Int : Natural(x) \in Address
  BY NaturalType
<1>2. c.Ip \in Int
  <2>1. c.Ip \in Address
    BY DEF Typed
  <2>. QED
    BY <2>1, WordsType
<1>3. \A s : Typed([c EXCEPT !.Status = s])
  BY DEF Typed, IsContext, Fields
<1>4. \A b \in BOOLEAN : Typed([c EXCEPT !.CC = b])
  BY DEF Typed, IsContext, Fields
<1>5. \A a, b \in BOOLEAN : Typed([c EXCEPT !.CC = a, !.STEP = b])
  BY ZenonT(60) DEF Typed, IsContext, Fields
<1>6. \A x \in Int : Typed([c EXCEPT !.Ip = Natural(x)])
  BY <1>1 DEF Typed, IsContext, Fields
<1>7. \A x \in Int : Typed([c EXCEPT !.FramePtr = Natural(x)])
  BY <1>1 DEF Typed, IsContext, Fields
<1>8. Typed([c EXCEPT !.Done = TRUE])
  BY DEF Typed, IsContext, Fields
<1>9. \A type, flag : Typed(Raise(c, type, flag))
  <2>1. \A type : \A b \in BOOLEAN : Typed([c EXCEPT !.LastException = type, !.Done = b])
    BY ZenonT(60) DEF Typed, IsContext, Fields
  <2>2. ASSUME NEW type, NEW flag PROVE Typed(Raise(c, type, flag))
    <3>1. PICK b \in BOOLEAN : b = (c.Done \/ flag = "FATAL")
      OBVIOUS
    <3>2. Raise(c, type, flag) = [c EXCEPT !.LastException = type, !.Done = b]
      BY <3>1, Zenon DEF Raise
    <3>. QED
      BY <2>1, <3>2
  <2>. QED
    BY <2>2
<1>10. \A size \in Int : Typed(Advance(c, size))
  <2>1. ASSUME NEW size \in Int PROVE Typed(Advance(c, size))
    <3>1. Advance(c, size) = [c EXCEPT !.Ip = Natural(c.Ip + size)]
      BY DEF Advance
    <3>2. c.Ip + size \in Int
      BY <1>2
    <3>. QED
      BY <1>6, <3>1, <3>2
  <2>. QED
    BY <2>1
<1>11. \A r \in 0 .. 7, x \in Int : Typed(SetReg(c, r, x))
  <2>1. ASSUME NEW r \in 0 .. 7, NEW x \in Int PROVE Typed(SetReg(c, r, x))
    <3>1. PICK w \in Words : w = UInt(x, 8)
      BY WordsType
    <3>2. SetReg(c, r, x) = [c EXCEPT !.Gpr[r] = w]
      BY <3>1 DEF SetReg
    <3>. QED
      BY <3>2 DEF Typed, IsContext, Fields
  <2>. QED
    BY <2>1
<1>12. \A mem \in Memories : Typed([c EXCEPT !.Mem = mem])
  BY DEF Typed, IsContext, Fields
<1>. QED
  BY <1>3, <1>4, <1>5, <1>6, <1>7, <1>8, <1>9, <1>10, <1>11, <1>12

\* A store leaves a typed context.
LEMMA WriteTyped ==
  ASSUME NEW c, Typed(c), NEW addr \in Int, NEW x \in Int, NEW bytes \in {1, 2, 4, 8, N}
  PROVE  Typed(Write(c, addr, bytes, x))
<1>1. \E mem : Write(c, addr, bytes, x) = [c EXCEPT !.Mem = mem]
  BY ZenonT(30) DEF Write
<1>2. PICK mem : Write(c, addr, bytes, x) = [c EXCEPT !.Mem = mem]
  BY <1>1
<1>3. Write(c, addr, bytes, x).Mem \in Memories
  BY WriteStores DEF Typed, Stored
<1>4. mem \in Memories
  BY <1>2, <1>3 DEF Typed, IsContext, Fields
<1>5. Typed([c EXCEPT !.Mem = mem])
  BY <1>4, TypedFields
<1>. QED
  BY <1>2, <1>5

\* So do the tracker and a register set with its help.
LEMMA TrackerTyped ==
  ASSUME NEW c, Typed(c)
  PROVE  /\ \A n, k \in Int : Typed(UpdateStackTracker(c, n, k))
         /\ \A x \in Int : Typed(UpdateStackTrackerFromDelta(c, x))
         /\ \A r \in 0 .. 7, x \in Int : Typed(SetTracked(c, r, x))
<1>1. ASSUME NEW d, Typed(d), NEW n \in Int, NEW k \in Int
      PROVE  Typed(UpdateStackTracker(d, n, k))
  <2>1. NATURAL \in Int
    BY WidthAssumption
  <2>2. ASSUME NEW h \in Int
        PROVE  /\ Typed([d EXCEPT !.Tracker.Height = h])
               /\ Typed([d EXCEPT !.Tracker.Height = h, !.Status = "UNSUPPORTED"])
    BY <1>1 DEF Typed, IsContext, Fields, TrackerType
  <2>3. d.Tracker.Height - n * NATURAL - k \in Int
    <3>1. d.Tracker.Height \in Int
      BY <1>1 DEF Typed, TrackerType
    <3>. QED
      BY <2>1, <3>1
  <2>. DEFINE h == d.Tracker.Height - n * NATURAL - k
  <2>4. UpdateStackTracker(d, n, k) \in
          {d, [d EXCEPT !.Tracker.Height = -1, !.Status = "UNSUPPORTED"],
           [d EXCEPT !.Tracker.Height = h]}
    BY DEF UpdateStackTracker
  <2>5. h \in Int /\ -1 \in Int
    BY <2>3
  <2>. HIDE DEF h
  <2>. QED
    BY <1>1, <2>2, <2>4, <2>5
<1>2. ASSUME NEW x \in Int PROVE Typed(UpdateStackTrackerFromDelta(c, x))
  <2>. DEFINE new == Natural(x)
              Delta(y) == SInt(new - y, NATURAL)
              away == [c EXCEPT !.Tracker.OrgHeight = c.Tracker.Height,
                                !.Tracker.OrgStackPointer = Natural(c.Gpr[0])]
              back == [c EXCEPT !.Tracker.Height = c.Tracker.OrgHeight, !.Tracker.OrgHeight = 0]
  <2>1. new \in Int /\ Natural(c.Gpr[0]) \in Int /\ c.Tracker.OrgStackPointer \in Int
    <3>1. c.Gpr[0] \in Int
      <4>1. c.Gpr[0] \in Words
        BY DEF Typed
      <4>. QED
        BY <4>1, WordsType
    <3>. QED
      BY <3>1, NaturalType DEF Typed, TrackerType
  <2>2. Delta(Natural(c.Gpr[0])) \in Int /\ Delta(c.Tracker.OrgStackPointer) \in Int
    <3>1. \A y \in Int : new - y \in Int
      BY <2>1
    <3>2. NATURAL \in Nat \ {0}
      BY WidthAssumption
    <3>. HIDE DEF new
    <3>. QED
      BY <2>1, <3>1, <3>2, SIntType
  <2>3. Typed(away)
    BY <2>1 DEF Typed, IsContext, Fields, TrackerType
  <2>4. Typed(back)
    <3>0. PICK u \in TrackerType : u = c.Tracker
      BY DEF Typed
    <3>1. PICK h \in Int : h = u.OrgHeight
      BY DEF TrackerType
    <3>2. PICK t : t = [u EXCEPT !.Height = h, !.OrgHeight = 0]
      OBVIOUS
    <3>3. t \in TrackerType /\ t.On = c.Tracker.On
      <4>1. t = [On |-> u.On, Height |-> h, OrgHeight |-> 0, OrgStackPointer |-> u.OrgStackPointer]
        BY <3>2 DEF TrackerType
      <4>. QED
        BY <3>0, <4>1 DEF TrackerType
    <3>4. Typed([c EXCEPT !.Tracker = t])
      BY <3>3 DEF Typed, IsContext, Fields
    <3>5. [c EXCEPT !.Tracker = t] = [c EXCEPT !.Tracker.Height = h, !.Tracker.OrgHeight = 0]
      BY <3>0, <3>2 DEF Typed, IsContext, Fields
    <3>. QED
      BY <3>0, <3>1, <3>4, <3>5
  <2>5. \/ UpdateStackTrackerFromDelta(c, x) \in {c, away}
        \/ UpdateStackTrackerFromDelta(c, x)
             = UpdateStackTracker(back, 0, Delta(c.Tracker.OrgStackPointer))
        \/ UpdateStackTrackerFromDelta(c, x)
             = UpdateStackTracker(c, 0, Delta(Natural(c.Gpr[0])))
    BY DEF UpdateStackTrackerFromDelta
  <2>. HIDE DEF away, back, Delta
  <2>. QED
    BY <1>1, <2>2, <2>3, <2>4, <2>5
<1>3. ASSUME NEW r \in 0 .. 7, NEW x \in Int PROVE Typed(SetTracked(c, r, x))
  BY <1>2, TypedFields DEF SetTracked
<1>. QED
  BY <1>1, <1>2, <1>3

\* Numbers that are read are as wide as the memory they come from.
LEMMA ReadTyped ==
  ASSUME NEW mem \in Memories, NEW a \in Int
  PROVE  /\ \A bytes \in {1, 2, 4, 8} :
              VmReadMem(mem, a, bytes) \in 0 .. Cells(bytes) - 1 /\ VmReadMem(mem, a, bytes) \in Nat
         /\ VmReadMemN(mem, Natural(a)) \in Address /\ VmReadMemN(mem, Natural(a)) \in Nat
<1>1. ASSUME NEW bytes \in {1, 2, 4, 8}
      PROVE VmReadMem(mem, a, bytes) \in 0 .. Cells(bytes) - 1 /\ VmReadMem(mem, a, bytes) \in Nat
  <2>1. bytes \in 0 .. 8 /\ bytes \in Nat
    OBVIOUS
  <2>2. Direct(mem, a, bytes) \in 0 .. Cells(bytes) - 1 /\ Cells(bytes) \in Nat
    BY <2>1, DirectRange, CellsType
  <2>3. Direct(mem, a, bytes) \in Nat
    BY <2>2
  <2>. QED
    BY <2>2, <2>3, ReadWhole
<1>2. VmReadMemN(mem, Natural(a)) \in Address
  <2>1. NATURAL \in 0 .. 8
    BY WidthAssumption
  <2>. QED
    BY <2>1, DirectRange, ReadWhole DEF Address
<1>. QED
  BY <1>1, <1>2, WordsType

Indexes3 == [Offset : Int, NaturalUnits : Int, ConstUnits : Int]

\* A power of two is positive.
LEMMA PowerType ==
  ASSUME NEW n \in Nat
  PROVE  2^n \in Nat \ {0}
<1>1. 0 \in Nat
  OBVIOUS
<1>. QED
  BY <1>1, PowerSum

\* Natural bits, sign and all are numbers, however an index is put together.
LEMMA IndexTyped ==
  /\ \A x \in DataOf(2) : VmReadIndex16(x) \in Indexes3
  /\ \A x \in DataOf(4) : VmReadIndex32(x) \in Indexes3
  /\ \A x \in DataOf(8) : VmReadIndex64(x) \in Indexes3
  /\ \A bytes \in {2, 4, 8} : \A x \in DataOf(bytes) : VmReadIndex(x, bytes) \in Indexes3
<1>1. ASSUME NEW x \in DataOf(2) PROVE VmReadIndex16(x) \in Indexes3
  <2>1. x \in Nat
    BY <1>1 DEF DataOf
  <2>2. 2^12 = 4096 /\ 2^16 = 65536 /\ 2^15 = 32768
    OBVIOUS
  <2>3. 2 * ((x \div 4096) % 8) \in Nat
    BY <2>1
  <2>4. PICK p \in Nat \ {0} : p = 2^(2 * ((x \div 4096) % 8))
    BY <2>3, PowerType
  <2>. DEFINE sign == IF Bit(x, 15) THEN -1 ELSE 1
              Wrap(z) == IF z % 65536 < 32768 THEN z % 65536 ELSE (z % 65536) - 65536
              natural == x % p
              constant == (x % 4096) \div p
  <2>5. VmReadIndex16(x) = [Offset |-> Wrap(sign * Wrap(natural * NATURAL + constant)),
                            NaturalUnits |-> sign * natural,
                            ConstUnits |-> sign * constant]
    BY <2>2, <2>4 DEF VmReadIndex16, Index
  <2>6. natural \in Int /\ constant \in Int
    BY <2>1, <2>4, DivMod DEF Rem, Quo
  <2>7. sign \in {-1, 1}
    OBVIOUS
  <2>8. \A z \in Int : Wrap(z) \in Int
    OBVIOUS
  <2>9. natural * NATURAL + constant \in Int
    BY <2>6, WidthAssumption
  <2>. HIDE DEF sign, natural, constant, Wrap
  <2>10. sign * natural \in Int /\ sign * constant \in Int
    BY <2>6, <2>7
  <2>11. sign * Wrap(natural * NATURAL + constant) \in Int
    BY <2>7, <2>8, <2>9
  <2>. QED
    BY <2>5, <2>8, <2>10, <2>11 DEF Indexes3
<1>2. ASSUME NEW x \in [Sign : {-1, 1}, NBits : 0 .. 7, Rest : Nat], NEW unit \in {4, 8}
      PROVE  SplitIndex(x, unit) \in Indexes3
  <2>1. x.Sign \in {-1, 1} /\ x.Rest \in Nat /\ unit * x.NBits \in Nat
    OBVIOUS
  <2>2. PICK p \in Nat \ {0} : p = 2^(unit * x.NBits)
    BY <2>1, PowerType
  <2>. DEFINE natural == x.Rest % p
              constant == x.Rest \div p
  <2>3. SplitIndex(x, unit) = [Offset |-> x.Sign * (natural * NATURAL + constant),
                               NaturalUnits |-> x.Sign * natural,
                               ConstUnits |-> x.Sign * constant]
    BY <2>2 DEF SplitIndex
  <2>4. natural \in Int /\ constant \in Int
    <3>1. PICK y \in Int : y = x.Rest
      BY <2>1
    <3>2. Rem(y, p) \in Nat /\ Quo(y, p) \in Int
      <4>1. Rem(y, p) \in 0 .. p - 1 /\ Quo(y, p) \in Int
        BY ONLY p \in Nat \ {0}, y \in Int, DivMod
      <4>. QED
        BY <4>1
    <3>. QED
      BY <3>1, <3>2 DEF Rem, Quo
  <2>5. natural * NATURAL + constant \in Int
    BY <2>4, WidthAssumption
  <2>. HIDE DEF natural, constant
  <2>6. /\ x.Sign * (natural * NATURAL + constant) \in Int
        /\ x.Sign * natural \in Int
        /\ x.Sign * constant \in Int
    BY <2>1, <2>4, <2>5
  <2>. QED
    BY <2>3, <2>6 DEF Indexes3
<1>3. /\ \A x \in DataOf(4) : VmReadIndex32(x) \in Indexes3
      /\ \A x \in DataOf(8) : VmReadIndex64(x) \in Indexes3
  BY <1>2 DEF DataOf, VmReadIndex32, VmReadIndex64
<1>. QED
  BY <1>1, <1>3 DEF VmReadIndex

\* Two sequences of one element.
LEMMA Pair ==
  ASSUME NEW x, NEW y, NEW u, NEW v, u = <<x>>, v = <<y>>
  PROVE  (u \o v)[1] = x /\ (u \o v)[2] = y /\ DOMAIN (u \o v) = 1 .. 2
<1>1. u \in Seq({x,y}) /\ v \in Seq({x,y}) /\ Len(u) = 1 /\ Len(v) = 1 /\ u[1] = x /\ v[1] = y
  OBVIOUS
<1>. DEFINE S == {x, y}
<1>2. \A p, q \in Seq(S) : Len(p \o q) = Len(p) + Len(q) /\ p \o q \in Seq(S)
  OBVIOUS
<1>3. \A p, q \in Seq(S) : \A n \in 1 .. Len(p) + Len(q) : (p \o q)[n] = IF n <= Len(p) THEN p[n] ELSE q[n - Len(p)]
  OBVIOUS
<1>4. Len(u \o v) = 2 /\ u \o v \in Seq(S)
  BY <1>1, <1>2
<1>5. (u \o v)[1] = x
  BY <1>1, <1>3
<1>6. (u \o v)[2] = y
  BY <1>1, <1>3
<1>7. DOMAIN (u \o v) = 1 .. 2
  BY <1>4
<1>. QED BY <1>4, <1>5, <1>6, <1>7

\* The table of what follows an instruction, row by row.
KindCase(k, op, jump, data, stack, compare, move, index, signed, moves, none) ==
  k = CASE op \in {OP.JMP, OP.CALL} -> jump
        [] op \in OP.CMPEQ .. OP.EXTNDD -> data
        [] op \in {OP.PUSH, OP.POP, OP.PUSHN, OP.POPN} -> stack
        [] op \in OP.CMPIEQ .. OP.CMPIUGTE -> compare
        [] op \in {OP.MOVI, OP.MOVREL} -> move
        [] op = OP.MOVIN -> index
        [] op \in {OP.MOVSNW, OP.MOVSND} -> signed
        [] op \in OP.MOVBW .. OP.MOVQD \cup {OP.MOVQQ, OP.MOVNW, OP.MOVND} -> moves
        [] OTHER -> none

\* Kinds by opcode numbers, case by case.
LEMMA KindCases ==
  ASSUME NEW op \in 0 .. 63, NEW k, NEW jump, NEW data, NEW stack, NEW compare,
         NEW move, NEW index, NEW signed, NEW moves, NEW none,
         KindCase(k, op, jump, data, stack, compare, move, index, signed, moves, none)
  PROVE  /\ op \in {1, 3} => k = jump
         /\ op \in 5 .. 28 => k = data
         /\ op \in {43, 44, 53, 54} => k = stack
         /\ op \in 45 .. 49 => k = compare
         /\ op \in 55 .. 57 => k = IF op = 56 THEN index ELSE move
         /\ op \in {37, 38} => k = signed
         /\ op \in 29 .. 36 \cup {40, 50, 51} => k = moves
<1>1. op \in {1, 3} => k = jump
  BY OpcodeNumbers, SMTT(30) DEF KindCase
<1>2. op \in 5 .. 28 => k = data
  BY OpcodeNumbers, SMTT(30) DEF KindCase
<1>3. op \in {43, 44, 53, 54} => k = stack
  BY OpcodeNumbers, SMTT(30) DEF KindCase
<1>4. op \in 45 .. 49 => k = compare
  BY OpcodeNumbers, SMTT(30) DEF KindCase
<1>5. op \in 55 .. 57 => k = IF op = 56 THEN index ELSE move
  BY OpcodeNumbers, SMTT(30) DEF KindCase
<1>6. op \in {37, 38} => k = signed
  BY OpcodeNumbers, SMTT(30) DEF KindCase
<1>7. op \in 29 .. 36 \cup {40, 50, 51} => k = moves
  BY OpcodeNumbers, SMTT(30) DEF KindCase
<1>. QED
  BY <1>1, <1>2, <1>3, <1>4, <1>5, <1>6, <1>7

\* Data that may be there or not, in order.
Optionally(s, a, x, b, y) == s = If(a, <<x>>) \o If(b, <<y>>)

\* Where optional data of an instruction are found.
LEMMA Optional ==
  ASSUME NEW a \in BOOLEAN, NEW b \in BOOLEAN, NEW x, NEW y, NEW s, Optionally(s, a, x, b, y)
  PROVE  /\ a => 1 \in DOMAIN s /\ s[1] = x
         /\ b => /\ (IF a THEN 2 ELSE 1) \in DOMAIN s
                 /\ s[IF a THEN 2 ELSE 1] = y
<1>1. CASE a /\ b
  <2>1. s = <<x>> \o <<y>>
    BY <1>1 DEF If, Optionally
  <2>2. PICK u, v : u = <<x>> /\ v = <<y>>
    OBVIOUS
  <2>3. s = u \o v
    BY <2>1, <2>2
  <2>4. (u \o v)[1] = x /\ (u \o v)[2] = y /\ DOMAIN (u \o v) = 1 .. 2
    BY <2>2, Pair
  <2>45. 1 \in DOMAIN (u \o v) /\ 2 \in DOMAIN (u \o v)
    BY <2>4
  <2>5. s[1] = x /\ s[2] = y /\ 1 \in DOMAIN s /\ 2 \in DOMAIN s
    BY <2>3, <2>4, <2>45, Zenon
  <2>6. (IF a THEN 2 ELSE 1) = 2
    BY <1>1
  <2>. QED
    BY <1>1, <2>5, <2>6
<1>2. CASE a /\ ~ b
  <2>1. s = <<x>>
    BY <1>2 DEF If, Optionally
  <2>2. \A z : 1 \in DOMAIN <<z>> /\ <<z>>[1] = z
    OBVIOUS
  <2>. QED
    BY <1>2, <2>1, <2>2
<1>3. CASE ~ a /\ b
  <2>1. s = <<y>>
    BY <1>3 DEF If, Optionally
  <2>2. \A z : 1 \in DOMAIN <<z>> /\ <<z>>[1] = z
    OBVIOUS
  <2>. QED
    BY <1>3, <2>1, <2>2
<1>. QED
  BY <1>1, <1>2, <1>3

\* Registers, opcode and flags of an instruction have the ranges of their bits.
LEMMA Registers ==
  ASSUME NEW i, WellFormed(i)
  PROVE  /\ OPERAND1_REGNUM(i) \in 0 .. 7 /\ OPERAND2_REGNUM(i) \in 0 .. 7
         /\ Opcode(i) \in 0 .. 63
         /\ \A n \in 0 .. 7 : Bit(i.operands, n) \in BOOLEAN /\ Bit(i.opcode, n) \in BOOLEAN
         /\ DataWidth(i) \in {0, 2, 4, 8}
         /\ DataWidth(i) # 0 => Bit(i.opcode, 7) \/ Bit(i.opcode, 6)
<1>1. i.opcode \in 0 .. 255 /\ i.operands \in 0 .. 255
  BY DEF WellFormed
<1>2. OPERAND1_REGNUM(i) \in 0 .. 7 /\ OPERAND2_REGNUM(i) \in 0 .. 7 /\ Opcode(i) \in 0 .. 63
  BY <1>1 DEF OPERAND1_REGNUM, OPERAND2_REGNUM, Opcode
<1>3. PICK quarter \in 0 .. 3 : quarter = i.opcode \div 64 /\ i.opcode \div 128 = quarter \div 2
  BY <1>1
<1>4. 2^7 = 128 /\ 2^6 = 64
  OBVIOUS
<1>5. /\ Bit(i.opcode, 7) <=> (quarter \div 2) % 2 = 1
      /\ Bit(i.opcode, 6) <=> quarter % 2 = 1
  BY <1>3, <1>4 DEF Bit
<1>6. quarter # 0 => Bit(i.opcode, 7) \/ Bit(i.opcode, 6)
  BY <1>5
<1>7. \A k \in 0 .. 3 : <<0, 2, 4, 8>>[1 + k] = IF k = 0 THEN 0 ELSE IF k = 1 THEN 2 ELSE IF k = 2 THEN 4 ELSE 8
  OBVIOUS
<1>8. DataWidth(i) = IF quarter = 0 THEN 0 ELSE IF quarter = 1 THEN 2 ELSE IF quarter = 2 THEN 4 ELSE 8
  BY <1>3, <1>7 DEF DataWidth
<1>9. \A n \in 0 .. 7 : Bit(i.operands, n) \in BOOLEAN /\ Bit(i.opcode, n) \in BOOLEAN
  BY DEF Bit
<1>. QED
  BY <1>2, <1>6, <1>8, <1>9

\* What follows an instruction, as the functions of EbcExecute.c read it.
LEMMA DataTyped ==
  ASSUME NEW i, WellFormed(i)
  PROVE  /\ Opcode(i) \in {1, 3} /\ Immediate(i) =>
              i.data[1] \in DataOf(IF ~ Wide(i) /\ OPERAND1_INDIRECT(i) THEN 4 ELSE 0)
         /\ Opcode(i) \in 5 .. 28 /\ Immediate(i) =>
              i.data[1] \in DataOf(IF OPERAND2_INDIRECT(i) THEN 2 ELSE 0)
         /\ Opcode(i) \in {43, 44, 53, 54} /\ Immediate(i) =>
              i.data[1] \in DataOf(IF OPERAND1_INDIRECT(i) THEN 2 ELSE 0)
         /\ Opcode(i) \in 45 .. 49 =>
              /\ Bit(i.operands, 4) => i.data[1] \in DataOf(2)
              /\ i.data[IF Bit(i.operands, 4) THEN 2 ELSE 1] \in DataOf(0)
         /\ Opcode(i) \in 55 .. 57 =>
              /\ Bit(i.operands, 6) => i.data[1] \in DataOf(2)
              /\ DataWidth(i) # 0 => Datum(i) \in DataOf(IF Opcode(i) = 56 THEN DataWidth(i) ELSE 0)
         /\ \A width \in {2, 4} : Opcode(i) = (IF width = 2 THEN 37 ELSE 38) =>
              /\ Bit(i.opcode, 7) => i.data[1] \in DataOf(width)
              /\ Bit(i.opcode, 6) => i.data[IF Bit(i.opcode, 7) THEN 2 ELSE 1]
                                       \in DataOf(IF OPERAND2_INDIRECT(i) THEN width ELSE 0)
         /\ Opcode(i) \in 29 .. 36 \cup {40, 50, 51} =>
              /\ Bit(i.opcode, 7) => i.data[1] \in DataOf(IndexSize(Opcode(i)))
              /\ Bit(i.opcode, 6) => /\ i.data[IF Bit(i.opcode, 7) THEN 2 ELSE 1]
                                          \in DataOf(IndexSize(Opcode(i)))
                                     /\ (IF Bit(i.opcode, 7) THEN 2 ELSE 1) \in DOMAIN i.data
<1>1. \A n \in DOMAIN Kinds(i) : i.data[n] \in DataOf(Kinds(i)[n])
  BY DEF WellFormed
<1>. DEFINE Or(bytes, b) == IF b THEN bytes ELSE 0
<1>2. PICK op \in 0 .. 63, hi \in BOOLEAN, lo \in BOOLEAN :
        op = Opcode(i) /\ hi = Immediate(i) /\ lo = Wide(i)
  BY Registers DEF Immediate, Wide, Bit
<1>3. hi = Bit(i.opcode, 7) /\ lo = Bit(i.opcode, 6)
  BY <1>2 DEF Immediate, Wide
<1>33. PICK b4, b6, indirect1, indirect2 \in BOOLEAN :
         /\ b4 = Bit(i.operands, 4) /\ b6 = Bit(i.operands, 6)
         /\ indirect1 = OPERAND1_INDIRECT(i) /\ indirect2 = OPERAND2_INDIRECT(i)
  BY DEF Bit, OPERAND1_INDIRECT, OPERAND2_INDIRECT
<1>30. PICK bytes : bytes = IF op = OP.MOVSNW THEN 2 ELSE 4
  OBVIOUS
<1>31. PICK jump, data, stack, compare, move, index, signed, moves :
         /\ jump = If(hi, <<Or(4, ~ lo /\ indirect1)>>)
         /\ data = If(hi, <<Or(2, indirect2)>>)
         /\ stack = If(hi, <<Or(2, indirect1)>>)
         /\ compare = If(b4, <<2>>) \o <<0>>
         /\ move = If(b6, <<2>>) \o If(hi \/ lo, <<0>>)
         /\ index = If(b6, <<2>>) \o If(hi \/ lo, <<DataWidth(i)>>)
         /\ signed = If(hi, <<bytes>>) \o If(lo, <<Or(bytes, indirect2)>>)
         /\ moves = If(hi, <<IndexSize(op)>>) \o If(lo, <<IndexSize(op)>>)
  BY Zenon
<1>0. Kinds(i) =
        CASE op \in {OP.JMP, OP.CALL} -> jump
          [] op \in OP.CMPEQ .. OP.EXTNDD -> data
          [] op \in {OP.PUSH, OP.POP, OP.PUSHN, OP.POPN} -> stack
          [] op \in OP.CMPIEQ .. OP.CMPIUGTE -> compare
          [] op \in {OP.MOVI, OP.MOVREL} -> move
          [] op = OP.MOVIN -> index
          [] op \in {OP.MOVSNW, OP.MOVSND} -> signed
          [] op \in OP.MOVBW .. OP.MOVQD \cup {OP.MOVQQ, OP.MOVNW, OP.MOVND} -> moves
          [] OTHER -> <<>>
  BY <1>2, <1>3, <1>33, <1>30, <1>31, ZenonT(60) DEF Kinds
<1>32. PICK k : k = Kinds(i)
  OBVIOUS
<1>00. KindCase(k, op, jump, data, stack, compare, move, index, signed, moves, <<>>)
  BY <1>0, <1>32, Zenon DEF KindCase
<1>40. /\ op \in {1, 3} => k = jump
       /\ op \in 5 .. 28 => k = data
       /\ op \in {43, 44, 53, 54} => k = stack
       /\ op \in 45 .. 49 => k = compare
       /\ op \in 55 .. 57 => k = IF op = 56 THEN index ELSE move
       /\ op \in {37, 38} => k = signed
       /\ op \in 29 .. 36 \cup {40, 50, 51} => k = moves
  BY <1>00, KindCases
<1>4. op \in {1, 3} => k = jump
  BY <1>40
<1>5. op \in 5 .. 28 => k = data
  BY <1>40
<1>6. op \in {43, 44, 53, 54} => k = stack
  BY <1>40
<1>7. op \in 45 .. 49 => k = compare
  BY <1>40
<1>8. op \in 55 .. 57 => k = IF op = 56 THEN index ELSE move
  BY <1>40
<1>9. op \in {37, 38} => k = signed
  BY <1>40
<1>10. op \in 29 .. 36 \cup {40, 50, 51} => k = moves
  BY <1>40
<1>11. ASSUME NEW b \in BOOLEAN, NEW x, k = If(b, <<x>>), b PROVE i.data[1] \in DataOf(x)
  <2>1. k = <<x>>
    BY <1>11 DEF If
  <2>2. 1 \in DOMAIN k /\ k[1] = x
    BY <2>1
  <2>. QED
    BY <1>1, <1>32, <2>2
<1>12. ASSUME NEW a \in BOOLEAN, NEW b \in BOOLEAN, NEW x, NEW y,
              k = If(a, <<x>>) \o If(b, <<y>>)
       PROVE  /\ a => i.data[1] \in DataOf(x)
              /\ b => /\ i.data[IF a THEN 2 ELSE 1] \in DataOf(y)
                      /\ (IF a THEN 2 ELSE 1) \in DOMAIN i.data
  <2>1. /\ a => 1 \in DOMAIN k /\ k[1] = x
        /\ b => /\ (IF a THEN 2 ELSE 1) \in DOMAIN k
                /\ k[IF a THEN 2 ELSE 1] = y
    <3>1. Optionally(k, a, x, b, y)
      BY <1>12, Zenon DEF Optionally
    <3>. QED
      BY ONLY <3>1, a \in BOOLEAN, b \in BOOLEAN, Optional
  <2>2. DOMAIN i.data = DOMAIN k
    BY <1>32 DEF WellFormed
  <2>. QED
    BY <1>1, <1>32, <2>1, <2>2
<1>13. op \in 45 .. 49 =>
         /\ b4 => i.data[1] \in DataOf(2)
         /\ i.data[IF b4 THEN 2 ELSE 1] \in DataOf(0)
  <2>1. compare = If(b4, <<2>>) \o If(TRUE, <<0>>)
    BY <1>31 DEF If
  <2>. QED
    BY <1>7, <1>12, <2>1
<1>14. op \in 55 .. 57 =>
         /\ b6 => i.data[1] \in DataOf(2)
         /\ hi \/ lo => i.data[IF b6 THEN 2 ELSE 1] \in DataOf(IF op = 56 THEN DataWidth(i) ELSE 0)
  <2>1. PICK either \in BOOLEAN : either = (hi \/ lo)
    OBVIOUS
  <2>2. k = move => /\ b6 => i.data[1] \in DataOf(2)
                    /\ either => i.data[IF b6 THEN 2 ELSE 1] \in DataOf(0)
    BY <1>12, <1>31, <2>1
  <2>3. k = index => /\ b6 => i.data[1] \in DataOf(2)
                     /\ either => i.data[IF b6 THEN 2 ELSE 1] \in DataOf(DataWidth(i))
    BY <1>12, <1>31, <2>1
  <2>. QED
    BY <1>8, <2>1, <2>2, <2>3
<1>15. ASSUME NEW width \in {2, 4}, op = (IF width = 2 THEN 37 ELSE 38)
       PROVE  /\ hi => i.data[1] \in DataOf(width)
              /\ lo => i.data[IF hi THEN 2 ELSE 1] \in DataOf(Or(width, indirect2))
  <2>1. bytes = width
    BY <1>15, <1>30, OpcodeNumbers
  <2>2. k = If(hi, <<width>>) \o If(lo, <<Or(width, indirect2)>>)
    BY <1>9, <1>15, <1>31, <2>1
  <2>. HIDE DEF Or
  <2>. QED
    BY <1>12, <2>2
<1>16. op \in 29 .. 36 \cup {40, 50, 51} =>
         /\ hi => i.data[1] \in DataOf(IndexSize(op))
         /\ lo => /\ i.data[IF hi THEN 2 ELSE 1] \in DataOf(IndexSize(op))
                  /\ (IF hi THEN 2 ELSE 1) \in DOMAIN i.data
  <2>. SUFFICES ASSUME op \in 29 .. 36 \cup {40, 50, 51}
                PROVE  /\ hi => i.data[1] \in DataOf(IndexSize(op))
                       /\ lo => /\ i.data[IF hi THEN 2 ELSE 1] \in DataOf(IndexSize(op))
                                /\ (IF hi THEN 2 ELSE 1) \in DOMAIN i.data
    OBVIOUS
  <2>1. PICK size : size = IndexSize(op)
    OBVIOUS
  <2>2. k = If(hi, <<size>>) \o If(lo, <<size>>)
    BY <1>10, <1>31, <2>1
  <2>3. /\ hi => i.data[1] \in DataOf(size)
        /\ lo => /\ i.data[IF hi THEN 2 ELSE 1] \in DataOf(size)
                 /\ (IF hi THEN 2 ELSE 1) \in DOMAIN i.data
    BY ONLY <1>12, <2>2, hi \in BOOLEAN, lo \in BOOLEAN
  <2>. QED
    BY ONLY <2>1, <2>3
<1>17. /\ op \in {1, 3} /\ hi => i.data[1] \in DataOf(Or(4, ~ lo /\ indirect1))
       /\ op \in 5 .. 28 /\ hi => i.data[1] \in DataOf(Or(2, indirect2))
       /\ op \in {43, 44, 53, 54} /\ hi => i.data[1] \in DataOf(Or(2, indirect1))
  <2>. HIDE DEF Or
  <2>1. op \in {1, 3} /\ hi => i.data[1] \in DataOf(Or(4, ~ lo /\ indirect1))
    BY <1>4, <1>11, <1>31
  <2>2. op \in 5 .. 28 /\ hi => i.data[1] \in DataOf(Or(2, indirect2))
    BY <1>5, <1>11, <1>31
  <2>3. op \in {43, 44, 53, 54} /\ hi => i.data[1] \in DataOf(Or(2, indirect1))
    BY <1>6, <1>11, <1>31
  <2>. QED
    BY <2>1, <2>2, <2>3
<1>18. DataWidth(i) # 0 => hi \/ lo
  BY <1>3, Registers
<1>19. op \in 55 .. 57 =>
         /\ b6 => i.data[1] \in DataOf(2)
         /\ DataWidth(i) # 0 => Datum(i) \in DataOf(IF op = 56 THEN DataWidth(i) ELSE 0)
  BY <1>14, <1>18, <1>33 DEF Datum
<1>20. \A width \in {2, 4} : op = (IF width = 2 THEN 37 ELSE 38) =>
         /\ hi => i.data[1] \in DataOf(width)
         /\ lo => i.data[IF hi THEN 2 ELSE 1] \in DataOf(Or(width, indirect2))
  BY <1>15
<1>. QED
  <2>1. /\ Opcode(i) \in {1, 3} /\ Immediate(i) =>
             i.data[1] \in DataOf(IF ~ Wide(i) /\ OPERAND1_INDIRECT(i) THEN 4 ELSE 0)
        /\ Opcode(i) \in 5 .. 28 /\ Immediate(i) =>
             i.data[1] \in DataOf(IF OPERAND2_INDIRECT(i) THEN 2 ELSE 0)
        /\ Opcode(i) \in {43, 44, 53, 54} /\ Immediate(i) =>
             i.data[1] \in DataOf(IF OPERAND1_INDIRECT(i) THEN 2 ELSE 0)
    BY <1>2, <1>33, <1>17, Zenon
  <2>2. Opcode(i) \in 45 .. 49 =>
             /\ Bit(i.operands, 4) => i.data[1] \in DataOf(2)
             /\ i.data[IF Bit(i.operands, 4) THEN 2 ELSE 1] \in DataOf(0)
    BY <1>2, <1>33, <1>13, Zenon
  <2>3. Opcode(i) \in 55 .. 57 =>
             /\ Bit(i.operands, 6) => i.data[1] \in DataOf(2)
             /\ DataWidth(i) # 0 => Datum(i) \in DataOf(IF Opcode(i) = 56 THEN DataWidth(i) ELSE 0)
    BY <1>2, <1>33, <1>19, Zenon
  <2>4. \A width \in {2, 4} : Opcode(i) = (IF width = 2 THEN 37 ELSE 38) =>
             /\ Bit(i.opcode, 7) => i.data[1] \in DataOf(width)
             /\ Bit(i.opcode, 6) => i.data[IF Bit(i.opcode, 7) THEN 2 ELSE 1]
                                      \in DataOf(IF OPERAND2_INDIRECT(i) THEN width ELSE 0)
    BY <1>2, <1>3, <1>33, <1>20, Zenon
  <2>5. Opcode(i) \in 29 .. 36 \cup {40, 50, 51} =>
             /\ Bit(i.opcode, 7) => i.data[1] \in DataOf(IndexSize(Opcode(i)))
             /\ Bit(i.opcode, 6) => /\ i.data[IF Bit(i.opcode, 7) THEN 2 ELSE 1]
                                         \in DataOf(IndexSize(Opcode(i)))
                                    /\ (IF Bit(i.opcode, 7) THEN 2 ELSE 1) \in DOMAIN i.data
    BY <1>2, <1>3, <1>16, Zenon
  <2>. QED
    BY <2>1, <2>2, <2>3, <2>4, <2>5, Zenon

\* The fields of a context as numbers.
LEMMA FieldTypes ==
  ASSUME NEW c, Typed(c)
  PROVE  /\ \A r \in 0 .. 7 : c.Gpr[r] \in Words /\ c.Gpr[r] \in Nat /\ c.Gpr[r] \in Int
         /\ c.Ip \in Address /\ c.Ip \in Int /\ c.FramePtr \in Address /\ c.FramePtr \in Int
         /\ c.Mem \in Memories
<1>1. \A r \in 0 .. 7 : c.Gpr[r] \in Words
  BY DEF Typed
<1>2. c.Ip \in Address /\ c.FramePtr \in Address /\ c.Mem \in Memories
  BY DEF Typed
<1>. QED
  BY <1>1, <1>2, WordsType

\* An encoding exception leaves a typed context.
LEMMA EncodingTyped ==
  ASSUME NEW c, Typed(c)
  PROVE  Typed(Encoding(c))
  BY DEF Typed, IsContext, Fields, Encoding, Raise

\* UInt, SInt and Natural are numbers of their widths.
LEMMA IntTypes ==
  ASSUME NEW x \in Int
  PROVE  /\ \A bytes \in {1, 2, 4, 8} : UInt(x, bytes) \in Int /\ UInt(x, bytes) \in Nat /\ SInt(x, bytes) \in Int
         /\ UInt(x, 8) \in Words
         /\ Natural(x) \in Nat /\ Natural(x) \in Int /\ Natural(x) \in Address
         /\ SInt(x, NATURAL) \in Int
<1>1. \A bytes \in {1, 2, 4, 8} : bytes \in Nat
  OBVIOUS
<1>2. \A bytes \in {1, 2, 4, 8} : UInt(x, bytes) \in Nat /\ SInt(x, bytes) \in Int
  BY <1>1, UIntType, SIntType
<1>3. \A n \in Nat : n \in Int
  OBVIOUS
<1>. QED
  BY <1>2, <1>3, NaturalType, WordsType, WidthAssumption

\* An index that may be missing.
LEMMA IndexAtTyped ==
  ASSUME NEW i, NEW has \in BOOLEAN, NEW n, NEW bytes \in {2, 4, 8},
         has => i.data[n] \in DataOf(bytes)
  PROVE  IndexAt(i, has, n, bytes) \in Indexes3
<1>1. NoIndex \in Indexes3
  BY DEF NoIndex, Indexes3
<1>. QED
  BY <1>1, IndexTyped DEF IndexAt

\* The fields of a decoded index are numbers.
LEMMA IndexFields ==
  ASSUME NEW x \in Indexes3
  PROVE  x.Offset \in Int /\ x.NaturalUnits \in Int /\ x.ConstUnits \in Int
  BY DEF Indexes3

\* The widths of a MOVxx and of its indexes are among those the code can read.
LEMMA MoveWidth ==
  ASSUME NEW op \in 29 .. 36 \cup {40, 50, 51}
  PROVE  MoveSize(op) \in {1, 2, 4, 8} /\ IndexSize(op) \in {2, 4, 8}
  BY WidthAssumption DEF MoveSize, IndexSize, OP

\* ExecuteMOVxx leaves a typed context.
LEMMA MOVxxTyped ==
  ASSUME NEW c, Typed(c), NEW i, WellFormed(i), Opcode(i) \in 29 .. 36 \cup {40, 50, 51}
  PROVE  Typed(ExecuteMOVxx(c, i))
<1>1. PICK r1 \in 0 .. 7, r2 \in 0 .. 7 : r1 = OPERAND1_REGNUM(i) /\ r2 = OPERAND2_REGNUM(i)
  BY Registers
<1>2. PICK has1, has2 \in BOOLEAN : has1 = Bit(i.opcode, 7) /\ has2 = Bit(i.opcode, 6)
  BY DEF Bit
<1>3. PICK width \in {1, 2, 4, 8}, bytes \in {2, 4, 8} :
        width = MoveSize(Opcode(i)) /\ bytes = IndexSize(Opcode(i))
  BY MoveWidth
<1>4. PICK index1 \in Indexes3 : index1 = IndexAt(i, has1, 1, bytes)
  BY <1>2, <1>3, DataTyped, IndexAtTyped
<1>5. PICK index2 \in Indexes3 : index2 = IndexAt(i, has2, IF has1 THEN 2 ELSE 1, bytes)
  BY <1>2, <1>3, DataTyped, IndexAtTyped, ZenonT(60)
<1>6. PICK o1 \in Int, o2 \in Int, n2 \in Int, k2 \in Int :
        o1 = index1.Offset /\ o2 = index2.Offset /\ n2 = index2.NaturalUnits /\ k2 = index2.ConstUnits
  BY IndexFields
<1>7. PICK size \in Int : size = 2 + (IF has1 THEN bytes ELSE 0) + (IF has2 THEN bytes ELSE 0)
  OBVIOUS
<1>8. PICK g1 \in Int, g2 \in Int : g1 = c.Gpr[r1] /\ g2 = c.Gpr[r2]
  BY FieldTypes
<1>9. PICK source \in Int : source = UInt(g2 + o2, 8)
  <2>1. g2 + o2 \in Int
    OBVIOUS
  <2>. QED
    BY <2>1, IntTypes
<1>10. PICK taken \in BOOLEAN :
         taken = (has2 /\ r2 = 0 /\ o2 > 0 /\ r1 = 0 /\ OPERAND1_INDIRECT(i))
  OBVIOUS
<1>11. PICK data \in Int :
         data = IF OPERAND2_INDIRECT(i) THEN VmReadMem(c.Mem, source, width)
                ELSE IF taken THEN Natural(source) ELSE source
  <2>1. VmReadMem(c.Mem, source, width) \in Nat
    BY FieldTypes, ReadTyped
  <2>2. Natural(source) \in Int
    BY IntTypes
  <2>. QED
    BY <2>1, <2>2
<1>12. PICK cut \in Int : cut = UInt(data, width)
  BY IntTypes
<1>13. PICK tracked :
         tracked = IF r1 # 0 \/ OPERAND1_INDIRECT(i) THEN c
                   ELSE IF r2 # 0 \/ OPERAND2_INDIRECT(i)
                   THEN UpdateStackTrackerFromDelta(c, cut)
                   ELSE IF has2
                   THEN UpdateStackTracker(c, n2, k2)
                   ELSE c
  OBVIOUS
<1>14. Typed(tracked)
  BY <1>13, TrackerTyped
<1>15. ExecuteMOVxx(c, i) =
         IF tracked.Status # "SUCCESS" THEN tracked
         ELSE IF OPERAND1_INDIRECT(i) THEN Advance(Write(c, g1 + o1, width, data), size)
         ELSE IF has1 THEN Encoding(tracked)
         ELSE Advance(SetReg(tracked, r1, cut), size)
  BY <1>1, <1>2, <1>3, <1>4, <1>5, <1>6, <1>7, <1>8, <1>9, <1>10, <1>11, <1>12, <1>13, ZenonT(60) DEF ExecuteMOVxx
<1>16. Typed(Advance(Write(c, g1 + o1, width, data), size))
  <2>1. g1 + o1 \in Int /\ width \in {1, 2, 4, 8, N}
    OBVIOUS
  <2>2. Typed(Write(c, g1 + o1, width, data))
    BY <2>1, WriteTyped
  <2>. QED
    BY <2>2, TypedFields
<1>17. Typed(Encoding(tracked))
  BY <1>14, EncodingTyped
<1>18. Typed(Advance(SetReg(tracked, r1, cut), size))
  <2>1. Typed(SetReg(tracked, r1, cut))
    BY <1>14, TypedFields
  <2>. QED
    BY <2>1, TypedFields
<1>. QED
  BY <1>14, <1>15, <1>16, <1>17, <1>18

\* Data decode to numbers, whatever their kind.
LEMMA DataKinds ==
  /\ \A x \in DataOf(0) : x \in Int
  /\ \A bytes \in {2, 4, 8} : \A x \in DataOf(bytes) : VmReadIndex(x, bytes).Offset \in Int
  /\ \A x \in DataOf(2) : VmReadIndex16(x).Offset \in Int
  /\ \A x \in DataOf(4) : VmReadIndex32(x).Offset \in Int
<1>1. \A x \in DataOf(0) : x \in Int
  BY DEF DataOf
<1>. QED
  BY <1>1, IndexTyped, IndexFields

\* The part MOVI, MOVIn and MOVREL have in common leaves a typed context.
LEMMA MoveImmediateTyped ==
  ASSUME NEW c, Typed(c), NEW i, WellFormed(i), Opcode(i) \in 55 .. 57,
         NEW x, DataWidth(i) # 0 => x \in Int,
         NEW bytes \in {1, 2, 4, 8, N}, NEW mask \in {1, 2, 4, 8}
  PROVE  Typed(MoveImmediate(c, i, x, bytes, mask))
<1>1. PICK r1 \in 0 .. 7, indexed \in BOOLEAN :
        r1 = OPERAND1_REGNUM(i) /\ indexed = Bit(i.operands, 6)
  BY Registers DEF Bit
<1>2. PICK width \in {0, 2, 4, 8} : width = DataWidth(i)
  BY Registers
<1>3. PICK index \in Indexes3 : index = IndexAt(i, indexed, 1, 2)
  BY <1>1, DataTyped, IndexAtTyped
<1>4. PICK o1 \in Int : o1 = index.Offset
  BY IndexFields
<1>5. PICK size \in Int : size = 2 + (IF indexed THEN 2 ELSE 0) + width
  OBVIOUS
<1>6. PICK g1 \in Int : g1 = c.Gpr[r1]
  BY FieldTypes
<1>7. MoveImmediate(c, i, x, bytes, mask) =
        IF width = 0 THEN Encoding(c)
        ELSE IF OPERAND1_INDIRECT(i) THEN Advance(Write(c, g1 + o1, bytes, x), size)
        ELSE IF indexed THEN Encoding(c)
        ELSE Advance(SetTracked(c, r1, UInt(x, mask)), size)
  BY <1>1, <1>2, <1>3, <1>4, <1>5, <1>6, ZenonT(60) DEF MoveImmediate
<1>8. Typed(Encoding(c))
  BY EncodingTyped
<1>9. ASSUME x \in Int PROVE Typed(Advance(Write(c, g1 + o1, bytes, x), size))
  <2>1. g1 + o1 \in Int
    OBVIOUS
  <2>2. Typed(Write(c, g1 + o1, bytes, x))
    BY <1>9, <2>1, WriteTyped
  <2>. QED
    BY <2>2, TypedFields
<1>10. ASSUME x \in Int PROVE Typed(Advance(SetTracked(c, r1, UInt(x, mask)), size))
  <2>1. UInt(x, mask) \in Int
    BY <1>10, IntTypes
  <2>2. Typed(SetTracked(c, r1, UInt(x, mask)))
    BY <2>1, TrackerTyped
  <2>. QED
    BY <2>2, TypedFields
<1>. QED
  BY <1>2, <1>7, <1>8, <1>9, <1>10

\* So do the three.
LEMMA MoveImmediatesTyped ==
  ASSUME NEW c, Typed(c), NEW i, WellFormed(i)
  PROVE  /\ Opcode(i) = 55 => Typed(ExecuteMOVI(c, i))
         /\ Opcode(i) = 56 => Typed(ExecuteMOVIn(c, i))
         /\ Opcode(i) = 57 => Typed(ExecuteMOVREL(c, i))
<1>1. PICK bytes \in {0, 2, 4, 8} : bytes = DataWidth(i)
  BY Registers
<1>2. ASSUME Opcode(i) \in {55, 57}, bytes # 0 PROVE SInt(Datum(i), bytes) \in Int
  <2>1. Datum(i) \in DataOf(0)
    BY <1>1, <1>2, DataTyped
  <2>2. PICK x \in Int : x = Datum(i)
    BY <2>1, DataKinds
  <2>. QED
    BY <1>2, <2>2, IntTypes
<1>3. ASSUME Opcode(i) = 55 PROVE Typed(ExecuteMOVI(c, i))
  <2>1. PICK width \in {1, 2, 4, 8} : width = 2^((i.operands \div 16) % 4)
    <3>1. PICK k \in 0 .. 3 : k = (i.operands \div 16) % 4
      BY DEF WellFormed
    <3>2. 2^0 = 1 /\ 2^1 = 2 /\ 2^2 = 4 /\ 2^3 = 8
      OBVIOUS
    <3>3. \A j \in 0 .. 3 : 2^j \in {1, 2, 4, 8}
      <4>1. \A j \in 0 .. 3 : j = 0 \/ j = 1 \/ j = 2 \/ j = 3
        OBVIOUS
      <4>. QED
        BY <3>2, <4>1, Zenon
    <3>. QED
      BY <3>1, <3>3, Zenon
  <2>2. ExecuteMOVI(c, i) = MoveImmediate(c, i, SInt(Datum(i), bytes), width, width)
    BY <1>1, <2>1, Zenon DEF ExecuteMOVI
  <2>3. width \in {1, 2, 4, 8, N}
    OBVIOUS
  <2>. QED
    BY <1>1, <1>2, <1>3, <2>2, <2>3, MoveImmediateTyped
<1>4. ASSUME Opcode(i) = 56 PROVE Typed(ExecuteMOVIn(c, i))
  <2>1. DataWidth(i) # 0 => VmReadIndex(Datum(i), DataWidth(i)).Offset \in Int
    BY <1>1, <1>4, DataTyped, DataKinds
  <2>2. N \in {1, 2, 4, 8, N} /\ 8 \in {1, 2, 4, 8}
    OBVIOUS
  <2>. QED
    BY <1>4, <2>1, <2>2, MoveImmediateTyped DEF ExecuteMOVIn
<1>5. ASSUME Opcode(i) = 57 PROVE Typed(ExecuteMOVREL(c, i))
  <2>1. PICK size \in Int : size = 2 + (IF Bit(i.operands, 6) THEN 2 ELSE 0) + bytes
    OBVIOUS
  <2>2. bytes # 0 => c.Ip + SInt(Datum(i), bytes) + size \in Int
    BY <1>2, <1>5, FieldTypes
  <2>3. ExecuteMOVREL(c, i) = MoveImmediate(c, i, c.Ip + SInt(Datum(i), bytes) + size, N, 8)
    BY <1>1, <2>1, Zenon DEF ExecuteMOVREL
  <2>4. N \in {1, 2, 4, 8, N} /\ 8 \in {1, 2, 4, 8}
    OBVIOUS
  <2>. QED
    BY <1>1, <1>5, <2>2, <2>3, <2>4, MoveImmediateTyped
<1>. QED
  BY <1>3, <1>4, <1>5

\* What is read from memory is a word of the width that was read.
LEMMA NaturalReadTyped ==
  ASSUME NEW c, Typed(c), NEW a \in Int
  PROVE  /\ VmReadMemN(c.Mem, Natural(a)) \in Int /\ VmReadMemN(c.Mem, Natural(a)) \in Address
         /\ \A bytes \in {1, 2, 4, 8} : VmReadMem(c.Mem, a, bytes) \in Int
         /\ \A bytes \in {1, 2, 4, 8, N} : Read(c, a, bytes) \in Int
         /\ VmReadMem64(c.Mem, Natural(a)) \in Int
<1>1. \A n \in Nat : n \in Int
  OBVIOUS
<1>2. /\ VmReadMemN(c.Mem, Natural(a)) \in Int /\ VmReadMemN(c.Mem, Natural(a)) \in Address
      /\ \A bytes \in {1, 2, 4, 8} : VmReadMem(c.Mem, a, bytes) \in Int
  BY <1>1, FieldTypes, ReadTyped
<1>3. VmReadMem(c.Mem, a, 8) = VmReadMem64(c.Mem, Natural(a))
  BY DEF VmReadMem
<1>. QED
  BY <1>2, <1>3 DEF Read

\* MOVsnw and MOVsnd leave a typed context.
LEMMA MoveSignedTyped ==
  ASSUME NEW c, Typed(c), NEW i, WellFormed(i), NEW width \in {2, 4},
         Opcode(i) = (IF width = 2 THEN 37 ELSE 38)
  PROVE  Typed(MoveSigned(c, i, width))
<1>1. PICK r1 \in 0 .. 7, r2 \in 0 .. 7 : r1 = OPERAND1_REGNUM(i) /\ r2 = OPERAND2_REGNUM(i)
  BY Registers
<1>2. PICK has1, has2 \in BOOLEAN : has1 = Bit(i.opcode, 7) /\ has2 = Bit(i.opcode, 6)
  BY DEF Bit
<1>3. PICK datum : datum = i.data[IF has1 THEN 2 ELSE 1]
  OBVIOUS
<1>4. width \in {2, 4, 8} /\ width \in {1, 2, 4, 8}
  OBVIOUS
<1>5. /\ has1 => i.data[1] \in DataOf(width)
      /\ has2 => datum \in DataOf(IF OPERAND2_INDIRECT(i) THEN width ELSE 0)
  BY <1>2, <1>3, DataTyped
<1>6. PICK offset \in Int :
        offset = IF ~ has2 THEN 0
                 ELSE IF OPERAND2_INDIRECT(i) THEN VmReadIndex(datum, width).Offset
                 ELSE SInt(datum, width)
  <2>1. has2 /\ OPERAND2_INDIRECT(i) => VmReadIndex(datum, width).Offset \in Int
    BY <1>4, <1>5, DataKinds
  <2>2. has2 /\ ~ OPERAND2_INDIRECT(i) => datum \in Int
    BY <1>5, DataKinds
  <2>3. has2 /\ ~ OPERAND2_INDIRECT(i) => SInt(datum, width) \in Int
    BY <1>4, <2>2, IntTypes
  <2>. QED
    BY <2>1, <2>3
<1>7. PICK size \in Int : size = 2 + (IF has1 THEN width ELSE 0) + (IF has2 THEN width ELSE 0)
  OBVIOUS
<1>8. PICK index1 \in Indexes3 : index1 = IndexAt(i, has1, 1, width)
  BY <1>4, <1>5, IndexAtTyped
<1>9. PICK o1 \in Int, g1 \in Int, g2 \in Int : o1 = index1.Offset /\ g1 = c.Gpr[r1] /\ g2 = c.Gpr[r2]
  BY IndexFields, FieldTypes
<1>10. PICK sum \in Int : sum = SInt(g2 + offset, NATURAL)
  <2>1. g2 + offset \in Int
    OBVIOUS
  <2>. QED
    BY <2>1, IntTypes
<1>11. PICK value \in Int :
         value = IF OPERAND2_INDIRECT(i) THEN SInt(VmReadMemN(c.Mem, Natural(sum)), NATURAL) ELSE sum
  BY NaturalReadTyped, IntTypes
<1>12. MoveSigned(c, i, width) =
         IF has1 /\ ~ OPERAND1_INDIRECT(i) THEN Encoding(c)
         ELSE Advance(IF OPERAND1_INDIRECT(i) THEN Write(c, g1 + o1, N, value)
                      ELSE SetTracked(c, r1, value), size)
  BY <1>1, <1>2, <1>3, <1>6, <1>7, <1>8, <1>9, <1>10, <1>11, ZenonT(60) DEF MoveSigned
<1>13. Typed(Write(c, g1 + o1, N, value))
  <2>1. g1 + o1 \in Int /\ N \in {1, 2, 4, 8, N}
    OBVIOUS
  <2>. QED
    BY <2>1, WriteTyped
<1>14. Typed(SetTracked(c, r1, value))
  BY TrackerTyped
<1>15. /\ Typed(Advance(Write(c, g1 + o1, N, value), size))
       /\ Typed(Advance(SetTracked(c, r1, value), size))
  BY <1>13, <1>14, TypedFields
<1>. QED
  BY <1>12, <1>15, EncodingTyped

\* The index or number of PUSH and POP is a number.
LEMMA StackOffsetType ==
  ASSUME NEW i, WellFormed(i), Opcode(i) \in {43, 44, 53, 54}
  PROVE  StackOffset(i) \in Int
<1>1. Immediate(i) /\ OPERAND1_INDIRECT(i) => VmReadIndex16(i.data[1]).Offset \in Int
  BY DataTyped, DataKinds
<1>2. Immediate(i) /\ ~ OPERAND1_INDIRECT(i) => i.data[1] \in Int
  BY DataTyped, DataKinds
<1>3. Immediate(i) /\ ~ OPERAND1_INDIRECT(i) => SInt(i.data[1], 2) \in Int
  BY <1>2, IntTypes
<1>. QED
  BY <1>1, <1>3 DEF StackOffset

\* A push of any width leaves a typed context.
LEMMA PushTyped ==
  ASSUME NEW c, Typed(c), NEW i, WellFormed(i), Opcode(i) \in {43, 44, 53, 54},
         NEW bytes \in {1, 2, 4, 8, N}, NEW size \in {1, 2, 4, 8}
  PROVE  Typed(Push(c, i, bytes, size))
<1>1. PICK r1 \in 0 .. 7 : r1 = OPERAND1_REGNUM(i)
  BY Registers
<1>2. PICK g0 \in Int, g1 \in Int, offset \in Int :
        g0 = c.Gpr[0] /\ g1 = c.Gpr[r1] /\ offset = StackOffset(i)
  BY FieldTypes, StackOffsetType
<1>3. PICK operand \in Int, r0 \in Int, length \in Int :
        operand = g1 + offset /\ r0 = g0 - size /\ length = IF Immediate(i) THEN 4 ELSE 2
  OBVIOUS
<1>4. PICK value \in Int : value = IF OPERAND1_INDIRECT(i) THEN Read(c, operand, bytes) ELSE operand
  BY NaturalReadTyped
<1>5. PICK cut \in Int : cut = UInt(value, size)
  BY IntTypes
<1>6. Push(c, i, bytes, size) = Write(SetReg(Advance(c, length), 0, r0), r0, bytes, cut)
  BY <1>1, <1>2, <1>3, <1>4, <1>5, ZenonT(60) DEF Push
<1>7. Typed(Advance(c, length))
  BY TypedFields
<1>8. Typed(SetReg(Advance(c, length), 0, r0))
  <2>1. 0 \in 0 .. 7
    OBVIOUS
  <2>. QED
    BY <1>7, <2>1, TypedFields
<1>. QED
  BY <1>6, <1>8, WriteTyped

\* So does a pop.
LEMMA PopTyped ==
  ASSUME NEW c, Typed(c), NEW i, WellFormed(i), Opcode(i) \in {43, 44, 53, 54},
         NEW bytes \in {1, 2, 4, 8, N}, NEW size \in {1, 2, 4, 8}, NEW extended \in Int
  PROVE  Typed(Pop(c, i, bytes, size, extended))
<1>1. PICK r1 \in 0 .. 7 : r1 = OPERAND1_REGNUM(i)
  BY Registers
<1>2. PICK g0 \in Int, offset \in Int : g0 = c.Gpr[0] /\ offset = StackOffset(i)
  BY FieldTypes, StackOffsetType
<1>3. PICK r0 \in Int, length \in Int : r0 = g0 + size /\ length = IF Immediate(i) THEN 4 ELSE 2
  OBVIOUS
<1>4. PICK popped : popped = SetReg(Advance(c, length), 0, r0) /\ Typed(popped)
  <2>1. Typed(Advance(c, length))
    BY TypedFields
  <2>2. 0 \in 0 .. 7
    OBVIOUS
  <2>3. Typed(SetReg(Advance(c, length), 0, r0))
    BY <2>1, <2>2, TypedFields
  <2>. QED
    BY <2>3
<1>5. PICK g1 \in Int, value \in Int : g1 = popped.Gpr[r1] /\ value = Read(c, g0, bytes)
  BY <1>4, FieldTypes, NaturalReadTyped
<1>6. Pop(c, i, bytes, size, extended) =
        IF OPERAND1_INDIRECT(i) THEN Write(popped, g1 + offset, bytes, value)
        ELSE SetReg(popped, r1, extended)
  BY <1>1, <1>2, <1>3, <1>4, <1>5, ZenonT(60) DEF Pop
<1>7. g1 + offset \in Int
  OBVIOUS
<1>8. Typed(Write(popped, g1 + offset, bytes, value))
  BY <1>4, <1>7, WriteTyped
<1>9. Typed(SetReg(popped, r1, extended))
  BY <1>4, TypedFields
<1>. QED
  BY <1>6, <1>8, <1>9

\* So do PUSH, POP, PUSHn and POPn.
LEMMA StackTyped ==
  ASSUME NEW c, Typed(c), NEW i, WellFormed(i), Opcode(i) \in {43, 44, 53, 54}
  PROVE  /\ Typed(ExecutePUSH(c, i)) /\ Typed(ExecutePOP(c, i))
         /\ Typed(ExecutePUSHn(c, i)) /\ Typed(ExecutePOPn(c, i))
<1>1. PICK size \in {4, 8} : size = IF Wide(i) THEN 8 ELSE 4
  OBVIOUS
<1>2. PICK g0 \in Int, offset \in Int : g0 = c.Gpr[0] /\ offset = StackOffset(i)
  BY FieldTypes, StackOffsetType
<1>3. /\ size \in {1, 2, 4, 8} /\ size \in {1, 2, 4, 8, N} /\ size \in Int /\ -size \in Int
      /\ N \in {1, 2, 4, 8, N} /\ NATURAL \in {1, 2, 4, 8}
      /\ 0 \in Int /\ 1 \in Int /\ -1 \in Int
  BY WidthAssumption
<1>4. PICK narrow \in Int : narrow = SInt(Read(c, g0, size), size) + offset
  <2>1. Read(c, g0, size) \in Int
    BY <1>3, NaturalReadTyped
  <2>2. SInt(Read(c, g0, size), size) \in Int
    BY <1>3, <2>1, IntTypes
  <2>. QED
    BY <2>2
<1>5. PICK natural \in Int : natural = Natural(Read(c, g0, N) + offset)
  <2>1. Read(c, g0, N) \in Int
    BY <1>3, NaturalReadTyped
  <2>2. Read(c, g0, N) + offset \in Int
    BY <2>1
  <2>. QED
    BY <2>2, IntTypes
<1>6. /\ Typed(Push(c, i, size, size)) /\ Typed(Push(c, i, N, NATURAL))
      /\ Typed(Pop(c, i, size, size, narrow)) /\ Typed(Pop(c, i, N, NATURAL, natural))
  <2>1. \A b \in {1, 2, 4, 8, N}, s \in {1, 2, 4, 8} : Typed(Push(c, i, b, s))
    BY PushTyped
  <2>2. \A b \in {1, 2, 4, 8, N}, s \in {1, 2, 4, 8}, x \in Int : Typed(Pop(c, i, b, s, x))
    BY PopTyped
  <2>3. Typed(Push(c, i, size, size)) /\ Typed(Push(c, i, N, NATURAL))
    BY <1>3, <2>1
  <2>4. Typed(Pop(c, i, size, size, narrow)) /\ Typed(Pop(c, i, N, NATURAL, natural))
    BY <1>3, <2>2
  <2>. QED
    BY <2>3, <2>4
<1>7. /\ ExecutePUSH(c, i) = UpdateStackTracker(Push(c, i, size, size), 0, -size)
      /\ ExecutePUSHn(c, i) = UpdateStackTracker(Push(c, i, N, NATURAL), -1, 0)
      /\ ExecutePOP(c, i) = UpdateStackTracker(Pop(c, i, size, size, narrow), 0, size)
      /\ ExecutePOPn(c, i) = UpdateStackTracker(Pop(c, i, N, NATURAL, natural), 1, 0)
  BY <1>1, <1>2, <1>4, <1>5, Zenon DEF ExecutePUSH, ExecutePUSHn, ExecutePOP, ExecutePOPn
<1>. QED
  BY <1>3, <1>6, <1>7, TrackerTyped

\* ExecuteJMP leaves a typed context.
LEMMA JMPTyped ==
  ASSUME NEW c, Typed(c), NEW i, WellFormed(i)
  PROVE  Opcode(i) = 1 => Typed(ExecuteJMP(c, i))
<1>1. SUFFICES ASSUME Opcode(i) = 1 PROVE Typed(ExecuteJMP(c, i))
  OBVIOUS
<1>2. PICK len \in Int : len = JmpLen(i)
  <2>1. i.opcode \div 64 \in 0 .. 3
    BY DEF WellFormed
  <2>. QED
    BY <2>1 DEF JmpLen, mJMPLen
<1>3. PICK target \in Int : Wide(i) \/ target = Target32(i)
  <2>1. Immediate(i) /\ ~ Wide(i) /\ OPERAND1_INDIRECT(i) => VmReadIndex32(i.data[1]).Offset \in Int
    BY <1>1, DataTyped, DataKinds
  <2>2. Immediate(i) /\ ~ Wide(i) /\ ~ OPERAND1_INDIRECT(i) => i.data[1] \in Int
    BY <1>1, DataTyped, DataKinds
  <2>3. Immediate(i) /\ ~ Wide(i) /\ ~ OPERAND1_INDIRECT(i) => SInt(i.data[1], 4) \in Int
    BY <2>2, IntTypes
  <2>4. ~ Wide(i) => Target32(i) \in Int
    BY <2>1, <2>3 DEF Target32
  <2>. QED
    BY <2>4
<1>4. PICK base \in Int :
        Wide(i) \/ base = (IF OPERAND1_REGNUM(i) = 0 THEN 0 ELSE c.Gpr[OPERAND1_REGNUM(i)]) + Target32(i)
  <2>1. c.Gpr[OPERAND1_REGNUM(i)] \in Int
    BY FieldTypes, Registers
  <2>. QED
    BY <1>3, <2>1
<1>5. Immediate(i) /\ Wide(i) => i.data[1] \in Int
  <2>1. Immediate(i) /\ Wide(i) => i.data[1] \in DataOf(0)
    BY <1>1, DataTyped
  <2>. QED
    BY <2>1, DataKinds
<1>6. ASSUME NEW addr \in Int PROVE Typed(JumpTo(c, i, addr))
  <2>1. PICK a \in Int : a = Natural(addr)
    BY IntTypes
  <2>2. a + len \in Int
    OBVIOUS
  <2>3. Typed([Raise(c, "ALIGNMENT_CHECK", "FATAL") EXCEPT !.Status = "UNSUPPORTED"])
    BY DEF Typed, IsContext, Fields, Raise
  <2>4. Typed(Advance(c, a + len))
    BY <2>2, TypedFields
  <2>5. Typed([c EXCEPT !.Ip = Natural(addr)])
    BY TypedFields
  <2>6. JumpTo(c, i, addr) \in {[Raise(c, "ALIGNMENT_CHECK", "FATAL") EXCEPT !.Status = "UNSUPPORTED"],
                                Advance(c, a + len), [c EXCEPT !.Ip = Natural(addr)]}
    BY <1>2, <2>1 DEF JumpTo
  <2>. QED
    BY <2>3, <2>4, <2>5, <2>6
<1>7. PICK read \in Int : read = VmReadMemN(c.Mem, Natural(base))
  BY NaturalReadTyped
<1>8. Typed(Advance(c, len))
  BY TypedFields
<1>9. Typed([Raise(c, "INSTRUCTION_ENCODING", "ERROR") EXCEPT !.Status = "UNSUPPORTED"])
  BY DEF Typed, IsContext, Fields, Raise
<1>10. ExecuteJMP(c, i) =
         IF NotTaken(c, i.operands) THEN Advance(c, len)
         ELSE IF Wide(i) /\ ~ Immediate(i)
         THEN [Raise(c, "INSTRUCTION_ENCODING", "ERROR") EXCEPT !.Status = "UNSUPPORTED"]
         ELSE IF Wide(i) THEN JumpTo(c, i, i.data[1])
         ELSE JumpTo(c, i, IF OPERAND1_INDIRECT(i) THEN read ELSE base)
  BY <1>2, <1>4, <1>7, ZenonT(60) DEF ExecuteJMP
<1>. QED
  BY <1>5, <1>6, <1>8, <1>9, <1>10

\* So does ExecuteJMP8.
LEMMA JMP8Typed ==
  ASSUME NEW c, Typed(c), NEW i, WellFormed(i)
  PROVE  Typed(ExecuteJMP8(c, i))
<1>1. PICK offset \in Int :
        offset = 2 * (IF i.operands < 128 THEN i.operands ELSE i.operands - 256) + 2
  BY DEF WellFormed
<1>2. 2 \in Int
  OBVIOUS
<1>3. Typed(Advance(c, 2)) /\ Typed(Advance(c, offset))
  BY <1>2, TypedFields
<1>. QED
  BY <1>1, <1>3 DEF ExecuteJMP8

\* So does ExecuteCALL, of EBC and of native code.
LEMMA CALLTyped ==
  ASSUME NEW c, Typed(c), NEW i, WellFormed(i)
  PROVE  Opcode(i) = 3 => Typed(ExecuteCALL(c, i))
<1>1. SUFFICES ASSUME Opcode(i) = 3 PROVE Typed(ExecuteCALL(c, i))
  OBVIOUS
<1>2. PICK native \in BOOLEAN : native = Bit(i.operands, 5)
  BY DEF Bit
<1>20. PICK size \in Int : size = IF Immediate(i) THEN (IF Wide(i) THEN 10 ELSE 6) ELSE 2
  OBVIOUS
<1>3. PICK g0 \in Int : g0 = c.Gpr[0]
  BY FieldTypes
<1>4. PICK fp \in Int : fp = UInt(g0 - 8, 8)
  <2>1. g0 - 8 \in Int
    OBVIOUS
  <2>. QED
    BY <2>1, IntTypes
<1>5. PICK return \in Int : return = Natural(c.Ip + size)
  <2>1. c.Ip + size \in Int
    BY FieldTypes
  <2>. QED
    BY <2>1, IntTypes
<1>6. fp - 8 \in Int /\ 0 \in 0 .. 7 /\ N \in {1, 2, 4, 8, N} /\ 8 \in {1, 2, 4, 8, N} /\ c.FramePtr \in Int
  BY FieldTypes
<1>7. PICK framed : framed = Write(c, fp, N, c.FramePtr) /\ Typed(framed)
  BY <1>6, WriteTyped
<1>8. PICK lowered : lowered = SetReg(framed, 0, fp - 8) /\ Typed(lowered)
  BY <1>6, <1>7, TypedFields
<1>9. PICK pushed : pushed = Write(lowered, fp - 8, 8, return) /\ Typed(pushed)
  BY <1>6, <1>8, WriteTyped
<1>10. PICK entered : entered = (IF native THEN c ELSE [pushed EXCEPT !.FramePtr = Natural(fp)]) /\ Typed(entered)
  <2>1. Typed([pushed EXCEPT !.FramePtr = Natural(fp)])
    BY <1>9, TypedFields
  <2>. QED
    BY <2>1
<1>11. PICK target32 \in Int : Wide(i) \/ target32 = Target32(i)
  <2>1. Immediate(i) /\ ~ Wide(i) /\ OPERAND1_INDIRECT(i) => VmReadIndex32(i.data[1]).Offset \in Int
    BY <1>1, DataTyped, DataKinds
  <2>2. Immediate(i) /\ ~ Wide(i) /\ ~ OPERAND1_INDIRECT(i) => i.data[1] \in Int
    BY <1>1, DataTyped, DataKinds
  <2>3. Immediate(i) /\ ~ Wide(i) /\ ~ OPERAND1_INDIRECT(i) => SInt(i.data[1], 4) \in Int
    BY <2>2, IntTypes
  <2>4. ~ Wide(i) => Target32(i) \in Int
    BY <2>1, <2>3 DEF Target32
  <2>. QED
    BY <2>4
<1>12. PICK r1 \in 0 .. 7 : r1 = OPERAND1_REGNUM(i)
  BY Registers
<1>13. PICK base : base = (IF r1 = 0 THEN 0 ELSE Natural(entered.Gpr[r1])) + Target32(i)
  OBVIOUS
<1>14. Wide(i) \/ base \in Int
  <2>1. entered.Gpr[r1] \in Int
    BY <1>10, FieldTypes
  <2>2. Natural(entered.Gpr[r1]) \in Int
    BY <2>1, IntTypes
  <2>. QED
    BY <1>11, <1>13, <2>2
<1>15. PICK target \in Int :
         target = IF Wide(i) THEN (IF Immediate(i) THEN i.data[1] ELSE 0)
                  ELSE IF OPERAND1_INDIRECT(i) THEN VmReadMemN(entered.Mem, Natural(base))
                  ELSE base
  <2>1. Immediate(i) /\ Wide(i) => i.data[1] \in DataOf(0)
    BY <1>1, DataTyped
  <2>2. Immediate(i) /\ Wide(i) => i.data[1] \in Int
    BY <2>1, DataKinds
  <2>3. Wide(i) \/ VmReadMemN(entered.Mem, Natural(base)) \in Int
    BY <1>10, <1>14, NaturalReadTyped
  <2>4. 0 \in Int
    OBVIOUS
  <2>. QED
    BY <1>14, <2>2, <2>3, <2>4
<1>16. ExecuteCALL(c, i) =
         IF native THEN EbcLLCALLEX(c, size)
         ELSE IF ~ Wide(i) /\ Bit(i.operands, 4) THEN Advance(entered, target + size)
         ELSE [entered EXCEPT !.Ip = Natural(target)]
  BY <1>2, <1>20, <1>3, <1>4, <1>5, <1>7, <1>8, <1>9, <1>10, <1>12, <1>13, <1>15, SMTT(60) DEF ExecuteCALL
<1>17. Typed(EbcLLCALLEX(c, size))
  <2>1. 7 \in 0 .. 7 /\ 0 \in Int
    OBVIOUS
  <2>2. Typed(SetReg(c, 7, 0))
    BY <2>1, TypedFields
  <2>. QED
    BY <2>2, TypedFields DEF EbcLLCALLEX
<1>18. target + size \in Int
  OBVIOUS
<1>19. Typed(Advance(entered, target + size)) /\ Typed([entered EXCEPT !.Ip = Natural(target)])
  BY <1>10, <1>18, TypedFields
<1>. QED
  BY <1>16, <1>17, <1>19

\* So does ExecuteRET.
LEMMA RETTyped ==
  ASSUME NEW c, Typed(c), NEW i
  PROVE  Typed(ExecuteRET(c, i))
<1>1. PICK r0 \in Int : r0 = c.Gpr[0]
  BY FieldTypes
<1>2. r0 + 8 \in Int /\ r0 + 16 \in Int /\ 0 \in 0 .. 7
  OBVIOUS
<1>3. PICK return \in Int, frame \in Int : return = VmReadMem64(c.Mem, Natural(r0))
                                       /\ frame = VmReadMemN(c.Mem, Natural(r0 + 8)) /\ frame \in Address
  BY <1>2, NaturalReadTyped
<1>4. PICK checked : checked = (IF Natural(r0) % 2 = 0 THEN c ELSE Raise(c, "ALIGNMENT_CHECK", "FATAL"))
  OBVIOUS
<1>5. Typed(checked)
  BY <1>4, TypedFields
<1>6. PICK ip \in Address : ip = Natural(return)
  BY IntTypes
<1>7. Typed([checked EXCEPT !.Ip = ip, !.FramePtr = frame])
  BY <1>3, <1>5 DEF Typed, IsContext, Fields
<1>8. PICK restored : restored = [checked EXCEPT !.Ip = ip, !.FramePtr = frame]
  OBVIOUS
<1>9. Typed(SetReg(restored, 0, r0 + 16))
  BY <1>2, <1>7, <1>8, TypedFields
<1>10. ExecuteRET(c, i) = IF r0 = StackRetAddr THEN [c EXCEPT !.Done = TRUE]
                          ELSE SetReg(restored, 0, r0 + 16)
  BY <1>1, <1>3, <1>4, <1>6, <1>8, Zenon DEF ExecuteRET
<1>. QED
  BY <1>9, <1>10, TypedFields

\* So does ExecuteBREAK.
LEMMA BREAKTyped ==
  ASSUME NEW c, Typed(c), NEW i, NEW fails \in BOOLEAN
  PROVE  Typed(ExecuteBREAK(c, i, fails))
<1>1. PICK g7 \in Int : g7 = c.Gpr[7]
  BY FieldTypes
<1>2. 7 \in 0 .. 7 /\ 1 \in Int /\ 2 \in Int /\ 8 \in {1, 2, 4, 8, N}
  OBVIOUS
<1>3. PICK a : a = SetReg(c, 7, 1) /\ Typed(a)
  BY <1>2, TypedFields
<1>4. PICK b : b = Raise(c, "BREAKPOINT", "NONE") /\ Typed(b)
  BY TypedFields
<1>5. PICK d : d = Raise(c, "BAD_BREAK", "FATAL") /\ Typed(d)
  BY TypedFields
<1>6. PICK e : e = Write(c, g7, 8, 2) /\ Typed(e)
  BY <1>2, WriteTyped
<1>7. /\ Typed(Advance(a, 2)) /\ Typed(Advance(b, 2)) /\ Typed(Advance(d, 2)) /\ Typed(Advance(e, 2))
      /\ Typed(Advance(c, 2)) /\ Typed([c EXCEPT !.Status = "OUT_OF_RESOURCES"])
  BY <1>2, <1>3, <1>4, <1>5, <1>6, TypedFields
<1>8. ExecuteBREAK(c, i, fails) =
        CASE i.operands = 1 -> Advance(a, 2)
          [] i.operands = 3 -> Advance(b, 2)
          [] i.operands \in {4, 6} -> Advance(c, 2)
          [] i.operands = 5 ->
               IF fails THEN [c EXCEPT !.Status = "OUT_OF_RESOURCES"] ELSE Advance(e, 2)
          [] OTHER -> Advance(d, 2)
  BY <1>1, <1>3, <1>4, <1>5, <1>6, Zenon DEF ExecuteBREAK
<1>. QED
  BY <1>7, <1>8

\* So do ExecuteLOADSP and ExecuteSTORESP.
LEMMA DedicatedTyped ==
  ASSUME NEW c, Typed(c), NEW i, WellFormed(i)
  PROVE  Typed(ExecuteLOADSP(c, i)) /\ Typed(ExecuteSTORESP(c, i))
<1>0. 2 \in Int
  OBVIOUS
<1>1. PICK r1 \in 0 .. 7, r2 \in 0 .. 7 : r1 = OPERAND1_REGNUM(i) /\ r2 = OPERAND2_REGNUM(i)
  BY Registers
<1>2. Typed([Advance(Raise(c, "INSTRUCTION_ENCODING", "WARNING"), 2) EXCEPT !.Status = "UNSUPPORTED"])
  <2>1. Typed(Raise(c, "INSTRUCTION_ENCODING", "WARNING"))
    BY TypedFields
  <2>2. Typed(Advance(Raise(c, "INSTRUCTION_ENCODING", "WARNING"), 2))
    BY <1>0, <2>1, TypedFields
  <2>. QED
    BY <2>2, TypedFields
<1>3. Typed(ExecuteLOADSP(c, i))
  <2>1. PICK a, b \in BOOLEAN : a = Bit(c.Gpr[r2], 0) /\ b = Bit(c.Gpr[r2], 1)
    BY DEF Bit
  <2>2. Typed([c EXCEPT !.CC = a, !.STEP = b])
    BY TypedFields
  <2>3. Typed(Advance([c EXCEPT !.CC = a, !.STEP = b], 2))
    BY <1>0, <2>2, TypedFields
  <2>4. ExecuteLOADSP(c, i) \in
          {Advance([c EXCEPT !.CC = a, !.STEP = b], 2),
           [Advance(Raise(c, "INSTRUCTION_ENCODING", "WARNING"), 2) EXCEPT !.Status = "UNSUPPORTED"]}
    BY <1>1, <2>1, Zenon DEF ExecuteLOADSP
  <2>. QED
    BY <1>2, <2>3, <2>4
<1>4. Typed(ExecuteSTORESP(c, i))
  <2>1. PICK x \in Int : x = IF r2 = 0 THEN FlagsWord(c) ELSE c.Ip + 2
    BY FieldTypes DEF FlagsWord
  <2>2. Typed(SetReg(c, r1, x))
    BY TypedFields
  <2>3. Typed(Advance(SetReg(c, r1, x), 2))
    BY <1>0, <2>2, TypedFields
  <2>4. ExecuteSTORESP(c, i) \in
          {Advance(SetReg(c, r1, x), 2),
           [Advance(Raise(c, "INSTRUCTION_ENCODING", "WARNING"), 2) EXCEPT !.Status = "UNSUPPORTED"]}
    BY <1>1, <2>1, Zenon DEF ExecuteSTORESP
  <2>. QED
    BY <1>2, <2>3, <2>4
<1>. QED
  BY <1>3, <1>4

\* The 16-bit datum of a comparison or data instruction is a number.
LEMMA Datum16Type ==
  ASSUME NEW i, WellFormed(i), Opcode(i) \in 5 .. 28
  PROVE  Datum16(i) \in Int
<1>1. Immediate(i) /\ OPERAND2_INDIRECT(i) => VmReadIndex16(i.data[1]).Offset \in Int
  BY DataTyped, DataKinds
<1>2. Immediate(i) /\ ~ OPERAND2_INDIRECT(i) => i.data[1] \in Int
  BY DataTyped, DataKinds
<1>3. Immediate(i) /\ ~ OPERAND2_INDIRECT(i) => SInt(i.data[1], 2) \in Int
  BY <1>2, IntTypes
<1>. QED
  BY <1>1, <1>3 DEF Datum16

\* ExecuteCMP and ExecuteCMPI leave a typed context.
LEMMA CompareTyped ==
  ASSUME NEW c, Typed(c), NEW i, WellFormed(i)
  PROVE  /\ Opcode(i) \in 5 .. 9 => Typed(ExecuteCMP(c, i))
         /\ Opcode(i) \in 45 .. 49 => Typed(ExecuteCMPI(c, i))
<1>1. ASSUME NEW n \in 0 .. 4, NEW x \in Int, NEW y \in Int, NEW ux \in Int, NEW uy \in Int PROVE \E b \in BOOLEAN : b = Compares(n, x, y, ux, uy)
  <2>0. (x <= y) \in BOOLEAN /\ (x >= y) \in BOOLEAN /\ (ux <= uy) \in BOOLEAN /\ (ux >= uy) \in BOOLEAN
    OBVIOUS
  <2>1. PICK b0 \in BOOLEAN : b0 = (x = y)
    OBVIOUS
  <2>11. PICK b1 \in BOOLEAN : b1 = (x <= y)
    BY <2>0, Zenon
  <2>12. PICK b2 \in BOOLEAN : b2 = (x >= y)
    BY <2>0, Zenon
  <2>13. PICK b3 \in BOOLEAN : b3 = (ux <= uy)
    BY <2>0, Zenon
  <2>14. PICK b4 \in BOOLEAN : b4 = (ux >= uy)
    BY <2>0, Zenon
  <2>2. Compares(n, x, y, ux, uy) =
          CASE n = 0 -> b0 [] n = 1 -> b1 [] n = 2 -> b2 [] n = 3 -> b3 [] n = 4 -> b4
    BY <2>1, <2>11, <2>12, <2>13, <2>14, Zenon DEF Compares
  <2>. QED
    BY <2>2
<1>2. ASSUME NEW b \in BOOLEAN, NEW size \in Int PROVE Typed(Advance([c EXCEPT !.CC = b], size))
  <2>1. Typed([c EXCEPT !.CC = b])
    BY TypedFields
  <2>. QED
    BY <2>1, TypedFields
<1>5. PICK width \in {4, 8} : width = IF Wide(i) THEN 8 ELSE 4
  OBVIOUS
<1>6. width \in {1, 2, 4, 8} /\ 4 \in {1, 2, 4, 8}
  OBVIOUS
<1>3. ASSUME Opcode(i) \in 5 .. 9 PROVE Typed(ExecuteCMP(c, i))
  <2>1. PICK n \in 0 .. 4 : n = Opcode(i) - OP.CMPEQ
    BY <1>3, OpcodeNumbers
  <2>2. PICK size \in Int : size = IF Immediate(i) THEN 4 ELSE 2
    OBVIOUS
  <2>3. PICK x \in Int : x = c.Gpr[OPERAND1_REGNUM(i)]
    BY FieldTypes, Registers
  <2>4. PICK sum \in Int : sum = UInt(c.Gpr[OPERAND2_REGNUM(i)] + Datum16(i), 8)
    <3>1. c.Gpr[OPERAND2_REGNUM(i)] \in Int /\ Datum16(i) \in Int
      <4>1. Opcode(i) \in 5 .. 28
        BY <1>3
      <4>. QED
        BY <4>1, FieldTypes, Registers, Datum16Type
    <3>2. c.Gpr[OPERAND2_REGNUM(i)] + Datum16(i) \in Int
      BY <3>1
    <3>. QED
      BY <3>2, IntTypes
  <2>5. PICK y \in Int : y = IF OPERAND2_INDIRECT(i) THEN VmReadMem(c.Mem, sum, width) ELSE sum
    BY <1>6, NaturalReadTyped
  <2>6. PICK b \in BOOLEAN : b = Compares(n, SInt(x, width), SInt(y, width), UInt(x, width), UInt(y, width))
    <3>1. PICK sx \in Int, sy \in Int, ux \in Int, uy \in Int :
            /\ sx = SInt(x, width) /\ sy = SInt(y, width)
            /\ ux = UInt(x, width) /\ uy = UInt(y, width)
      BY <1>6, IntTypes
    <3>2. \E b \in BOOLEAN : b = Compares(n, sx, sy, ux, uy)
      BY <1>1, SMTT(30)
    <3>. QED
      BY <3>1, <3>2, Zenon
  <2>7. ExecuteCMP(c, i) = Advance([c EXCEPT !.CC = b], size)
    BY <1>5, <2>1, <2>2, <2>3, <2>4, <2>5, <2>6, ZenonT(60) DEF ExecuteCMP
  <2>. QED
    BY <1>2, <2>7
<1>4. ASSUME Opcode(i) \in 45 .. 49 PROVE Typed(ExecuteCMPI(c, i))
  <2>1. PICK n \in 0 .. 4 : n = Opcode(i) - OP.CMPIEQ
    BY <1>4, OpcodeNumbers
  <2>2. PICK indexed \in BOOLEAN, bytes \in {2, 4} :
          indexed = Bit(i.operands, 4) /\ bytes = IF Immediate(i) THEN 4 ELSE 2
    <3>1. PICK bytes \in {2, 4} : bytes = IF Immediate(i) THEN 4 ELSE 2
      OBVIOUS
    <3>. QED
      BY <3>1 DEF Bit
  <2>3. PICK size \in Int, all \in Int :
          size = 2 + (IF indexed THEN 2 ELSE 0) /\ all = size + bytes
    OBVIOUS
  <2>4. PICK r1 \in Int : r1 = c.Gpr[OPERAND1_REGNUM(i)]
    BY FieldTypes, Registers
  <2>5. PICK index \in Indexes3 : index = IndexAt(i, indexed, 1, 2)
    BY <1>4, <2>2, DataTyped, IndexAtTyped
  <2>6. r1 + index.Offset \in Int
    BY IndexFields
  <2>7. PICK x \in Int : x = IF OPERAND1_INDIRECT(i) THEN VmReadMem(c.Mem, r1 + index.Offset, width) ELSE r1
    BY <1>6, <2>6, NaturalReadTyped
  <2>8. PICK y \in Int : y = SInt(i.data[IF indexed THEN 2 ELSE 1], bytes)
    <3>1. i.data[IF indexed THEN 2 ELSE 1] \in DataOf(0)
      BY <1>4, <2>2, DataTyped
    <3>2. i.data[IF indexed THEN 2 ELSE 1] \in Int
      BY <3>1, DataKinds
    <3>. QED
      BY <3>2, IntTypes
  <2>9. PICK b \in BOOLEAN : b = Compares(n, SInt(x, width), y, UInt(x, width), UInt(y, 4))
    <3>1. PICK sx \in Int, ux \in Int, uy \in Int :
            sx = SInt(x, width) /\ ux = UInt(x, width) /\ uy = UInt(y, 4)
      BY <1>6, IntTypes
    <3>2. \E b \in BOOLEAN : b = Compares(n, sx, y, ux, uy)
      BY <1>1, SMTT(30)
    <3>. QED
      BY <3>1, <3>2, Zenon
  <2>10. Typed([Advance(Raise(c, "INSTRUCTION_ENCODING", "ERROR"), size) EXCEPT !.Status = "UNSUPPORTED"])
    <3>1. Typed(Raise(c, "INSTRUCTION_ENCODING", "ERROR"))
      BY TypedFields
    <3>2. Typed(Advance(Raise(c, "INSTRUCTION_ENCODING", "ERROR"), size))
      BY <3>1, TypedFields
    <3>. QED
      BY <3>2, TypedFields
  <2>11. ExecuteCMPI(c, i) =
           IF indexed /\ ~ OPERAND1_INDIRECT(i)
           THEN [Advance(Raise(c, "INSTRUCTION_ENCODING", "ERROR"), size) EXCEPT !.Status = "UNSUPPORTED"]
           ELSE Advance([c EXCEPT !.CC = b], all)
    BY <1>5, <2>1, <2>2, <2>3, <2>4, <2>5, <2>7, <2>8, <2>9, ZenonT(60) DEF ExecuteCMPI
  <2>. QED
    BY <1>2, <2>10, <2>11
<1>. QED
  BY <1>3, <1>4

\* Logic of words bit by bit comes to a number.
LEMMA BitOpType ==
  ASSUME NEW pairs, NEW x, NEW y
  PROVE  BitOp(pairs, x, y) \in Int
<1>. DEFINE Z == 8 * BYTE
            Add(n) == IF <<Bit(x, n - 1), Bit(y, n - 1)>> \in pairs THEN 2^(n - 1) ELSE 0
            IsSum(g) == g = [n \in 0 .. Z |-> IF n = 0 THEN 0 ELSE g[n - 1] + Add(n)]
            D == [n \in 1 .. Z |-> [s \in Int |-> s + Add(n)]]
            g == CHOOSE f : IsSum(f)
<1>0. Z \in Nat
  BY WidthAssumption
<1>1. \A n \in 1 .. Z : Add(n) \in Int
  <2>1. ASSUME NEW n \in 1 .. Z PROVE 2^(n - 1) \in Int
    <3>1. n - 1 \in Nat
      BY <1>0
    <3>. QED
      BY <3>1, PowerType
  <2>. QED
    BY <2>1
<1>. HIDE DEF Add, Z
<1>2. D \in [1 .. Z -> [Int -> Int]]
  BY <1>1
<1>3. PICK f \in [0 .. Z -> Int] : Steps(f, 0, D, Z)
  <2>1. 0 \in Int
    OBVIOUS
  <2>. HIDE DEF D
  <2>. QED
    BY <1>0, <1>2, <2>1, Recursion
<1>4. IsSum(f)
  <2>1. ASSUME NEW n \in 0 .. Z PROVE f[n] = IF n = 0 THEN 0 ELSE f[n - 1] + Add(n)
    <3>1. CASE n = 0
      BY <1>3, <3>1 DEF Steps
    <3>2. CASE n # 0
      <4>1. n \in 1 .. Z /\ n - 1 \in 0 .. Z
        BY <1>0, <3>2
      <4>2. f[n] = D[n][f[n - 1]] /\ f[n - 1] \in Int
        BY <1>3, <4>1 DEF Steps
      <4>. QED
        BY <3>2, <4>1, <4>2
    <3>. QED
      BY <3>1, <3>2
  <2>. QED
    BY <1>3, <2>1
<1>5. IsSum(g)
  <2>. HIDE DEF IsSum
  <2>. QED
    BY <1>4
<1>6. BitOp(pairs, x, y) = g[Z]
  BY Zenon DEF BitOp, Z, Add
<1>7. \A n \in 0 .. Z : g[n] = IF n = 0 THEN 0 ELSE g[n - 1] + Add(n)
  <2>. HIDE DEF g
  <2>. QED
    BY <1>5
<1>. HIDE DEF g
<1>. DEFINE T == {n \in Nat : n <= Z => g[n] \in Int}
<1>8. 0 \in T
  BY <1>0, <1>7
<1>9. ASSUME NEW n \in Nat, n \in T PROVE n + 1 \in T
  <2>1. SUFFICES ASSUME n + 1 <= Z PROVE g[n + 1] \in Int
    BY <1>9
  <2>2. n + 1 \in 0 .. Z /\ n + 1 \in 1 .. Z /\ n + 1 # 0 /\ (n + 1) - 1 = n /\ n <= Z
    BY <1>0, <2>1
  <2>3. g[n + 1] = g[n] + Add(n + 1) /\ Add(n + 1) \in Int
    BY <1>1, <1>7, <2>2
  <2>4. g[n] \in Int
    BY <1>9, <2>2
  <2>. QED
    BY <2>3, <2>4
<1>10. \A n \in Nat : n \in T
  <2>. HIDE DEF T
  <2>. QED
    BY <1>8, <1>9, NatBySet
<1>. QED
  BY <1>0, <1>6, <1>10

\* The number of places to shift is a natural.
LEMMA Count0 ==
  ASSUME NEW y \in Nat, NEW width \in {4, 8}, NEW masks \in BOOLEAN
  PROVE  Count(y, width, masks) \in Nat /\ 2^Count(y, width, masks) \in Nat \ {0}
<1>1. PICK w \in Nat \ {0} : w = BYTE * width
  BY WidthAssumption
<1>2. PICK n \in Nat : n = IF width = 8 THEN Natural(y) ELSE UInt(y, 4)
  <2>1. y \in Int /\ 4 \in {1, 2, 4, 8}
    OBVIOUS
  <2>2. Natural(y) \in Nat /\ UInt(y, 4) \in Nat
    BY <2>1, IntTypes
  <2>. QED
    BY <2>2
<1>3. n % w \in Nat
  BY <1>1
<1>4. Count(y, width, masks) = IF n < w THEN n ELSE IF masks THEN n % w ELSE w
  BY <1>1, <1>2, Zenon DEF Count
<1>5. Count(y, width, masks) \in Nat
  BY <1>3, <1>4
<1>. QED
  BY <1>5, PowerType

\* Extension of a value with a sign gives a word that is not 0 by its high bytes
\* alone.
LEMMA ExtendType ==
  ASSUME NEW op, NEW z \in Int, NEW width \in {4, 8}
  PROVE  /\ Extend(op, z, width) \in Words
         /\ Extend(op, z, width) # 0 => UInt(Extend(op, z, width), width) # 0
<1>0. 4 \in Nat /\ 8 \in Nat /\ 4 <= 8 /\ 4 \in Nat \ {0} /\ 8 \in Nat \ {0}
  OBVIOUS
<1>1. CASE width = 8
  <2>1. UInt(z, 8) \in Words /\ UInt(UInt(z, 8), 8) = UInt(z, 8)
    BY IntTypes, WordsType
  <2>. QED
    BY <1>1, <2>1 DEF Extend
<1>2. CASE width = 4
  <2>1. PICK s \in Int : s = SInt(z, 4)
    BY IntTypes
  <2>2. PICK u \in Int : u = UInt(z, 4)
    BY IntTypes
  <2>3. UInt(u, 4) = u
    BY <1>0, <2>2, UIntType
  <2>4. u \in Words
    <3>1. Cells(4) <= Cells(8) /\ Cells(4) \in Nat /\ Cells(8) \in Nat
      <4>1. Cells(4 + 4) = Cells(4) * Cells(4) /\ Cells(4) \in Nat \ {0}
        BY <1>0, CellsSum
      <4>2. PICK m \in Nat \ {0} : m = Cells(4)
        BY <4>1
      <4>3. m <= m * m
        OBVIOUS
      <4>. QED
        BY <4>1, <4>2, <4>3
    <3>2. u \in 0 .. Cells(4) - 1
      BY <1>0, <2>2, UIntType
    <3>. QED
      BY <3>1, <3>2 DEF Words
  <2>5. UInt(s, 8) \in Words /\ UInt(UInt(s, 8), 4) = u
    <3>1. UInt(UInt(s, 8), 4) = UInt(s, 4)
      BY <1>0, UIntNested
    <3>2. UInt(s, 4) = u
      BY <1>0, <2>1, <2>2, SIntType
    <3>. QED
      BY <3>1, <3>2, IntTypes
  <2>6. ASSUME u = 0 PROVE UInt(s, 8) = 0
    <3>1. s = 0
      <4>1. PICK h \in Nat \ {0} : Cells(4) = 2 * h /\ Cells(4) \div 2 = h
        BY <1>0, CellsHalf
      <4>. QED
        BY <2>1, <2>2, <2>6, <4>1 DEF SInt
    <3>2. 0 \in 0 .. Cells(8) - 1
      <4>1. Cells(8) \in Nat \ {0}
        BY <1>0, CellsSum
      <4>. QED
        BY <4>1
    <3>3. UInt(0, 8) = 0
      BY <1>0, <3>2, UIntSmall
    <3>. QED
      BY <3>1, <3>3
  <2>7. Extend(op, z, width) = IF op \in Signed THEN UInt(s, 8) ELSE u
    BY <1>2, <2>1, <2>2 DEF Extend
  <2>. QED
    BY <1>2, <2>3, <2>4, <2>5, <2>6, <2>7
<1>. QED
  BY <1>1, <1>2

\* C division of numbers gives numbers.
LEMMA QuotientType ==
  ASSUME NEW x \in Int, NEW y \in Int \ {0}
  PROVE  Quotient(x, y) \in Int /\ Remainder(x, y) \in Int
<1>1. PICK a \in Nat, b \in Nat \ {0} : a = (IF x < 0 THEN -x ELSE x) /\ b = (IF y < 0 THEN -y ELSE y)
  OBVIOUS
<1>2. PICK q \in Int : q = a \div b
  OBVIOUS
<1>3. Quotient(x, y) = IF (x < 0) = (y < 0) THEN q ELSE -q
  BY <1>1, <1>2, Zenon DEF Quotient
<1>4. Quotient(x, y) \in Int
  BY <1>3
<1>. QED
  BY <1>4 DEF Remainder

\* So do AND, OR and XOR.
LEMMA LogicType ==
  ASSUME NEW op \in {OP.AND, OP.OR, OP.XOR}, NEW x, NEW y
  PROVE  Logic(op, x, y) \in Int
<1>1. PICK a \in Int, b \in Int, d \in Int :
        /\ a = BitOp({<<TRUE, TRUE>>}, x, y)
        /\ b = BitOp((BOOLEAN \X BOOLEAN) \ {<<FALSE, FALSE>>}, x, y)
        /\ d = BitOp({<<TRUE, FALSE>>, <<FALSE, TRUE>>}, x, y)
  BY BitOpType, Zenon
<1>2. Logic(op, x, y) = CASE op = OP.AND -> a [] op = OP.OR -> b [] op = OP.XOR -> d
  BY <1>1, Zenon DEF Logic
<1>. QED
  BY <1>2 DEF OP

\* A divisor that is not 0 is not 0 with a sign either.
LEMMA DivisorSigned ==
  ASSUME NEW y \in Int, NEW width \in {4, 8}, UInt(y, width) # 0
  PROVE  SInt(y, width) # 0
<1>1. width \in Nat \ {0} /\ width \in Nat
  OBVIOUS
<1>2. UInt(SInt(y, width), width) = UInt(y, width)
  BY <1>1, SIntType
<1>3. 0 \in 0 .. Cells(width) - 1
  <2>1. Cells(width) \in Nat \ {0}
    BY <1>1, CellsSum
  <2>. QED
    BY <2>1
<1>4. UInt(0, width) = 0
  BY <1>1, <1>3, UIntSmall
<1>. QED
  BY <1>2, <1>4

\* Every data instruction computes a number from two words.
LEMMA DataManipType ==
  ASSUME NEW op \in 10 .. 28, NEW x \in Words, NEW y \in Words, NEW width \in {4, 8},
         y # 0 => UInt(y, width) # 0, NEW masks \in BOOLEAN
  PROVE  DataManip(op, x, y, width, masks) \in Int
<1>0. x \in Nat /\ y \in Nat /\ x \in Int /\ y \in Int
  BY WordsType
<1>1. PICK sx \in Int, sy \in Int, s8x \in Int, s8y \in Int :
        /\ sx = SInt(x, width) /\ sy = SInt(y, width)
        /\ s8x = SInt(x, 8) /\ s8y = SInt(y, 8)
  <2>1. width \in {1, 2, 4, 8} /\ 8 \in {1, 2, 4, 8}
    OBVIOUS
  <2>. QED
    BY <1>0, <2>1, IntTypes
<1>2. PICK ux \in Nat, uy \in Nat : ux = UInt(x, width) /\ uy = UInt(y, width)
  <2>1. width \in {1, 2, 4, 8}
    OBVIOUS
  <2>. QED
    BY <1>0, <2>1, IntTypes
<1>3. y # 0 => uy # 0 /\ sy # 0 /\ s8y # 0
  <2>1. y # 0 => UInt(y, 8) # 0
    BY WordsType
  <2>2. 8 \in {4, 8}
    OBVIOUS
  <2>3. y # 0 => SInt(y, 8) # 0
    BY <1>0, <2>1, <2>2, DivisorSigned
  <2>4. y # 0 => SInt(y, width) # 0
    BY <1>0, DivisorSigned
  <2>. QED
    BY <1>1, <1>2, <2>3, <2>4
<1>4. \A z \in Int : SInt(z, width) \in Int /\ UInt(z, width) \in Int /\ SInt(z, 1) \in Int
                     /\ SInt(z, 2) \in Int /\ SInt(z, 4) \in Int
  <2>1. width \in {1, 2, 4, 8} /\ 1 \in {1, 2, 4, 8} /\ 2 \in {1, 2, 4, 8} /\ 4 \in {1, 2, 4, 8}
    OBVIOUS
  <2>. QED
    BY <2>1, IntTypes
<1>5. sx - sy \in Int /\ sx * sy \in Int
  OBVIOUS
<1>6. PICK sub \in Int, mul \in Int, mulu \in Int :
        /\ sub = SInt(sx - sy, width) /\ mul = SInt(sx * sy, width) /\ mulu = UInt(sx * sy, width)
  BY <1>4, <1>5
<1>7. PICK div \in Int : div = IF y = 0 THEN 0 ELSE ExecuteDIV(x, y, width)
  <2>1. ASSUME y # 0 PROVE ExecuteDIV(x, y, width) \in Int
    <3>1. sy \in Int \ {0}
      BY <1>3, <2>1
    <3>2. Quotient(sx, sy) \in Int
      BY <3>1, QuotientType
    <3>. QED
      BY <1>1, <3>2 DEF ExecuteDIV
  <2>. QED
    BY <2>1
<1>8. PICK divu \in Int : divu = IF y = 0 THEN 0 ELSE ExecuteDIVU(x, y, width)
  <2>1. ASSUME y # 0 PROVE ExecuteDIVU(x, y, width) \in Int
    <3>1. uy \in Nat \ {0}
      BY <1>3, <2>1
    <3>2. ux \div uy \in Int
      BY <3>1
    <3>. QED
      BY <1>2, <3>2 DEF ExecuteDIVU
  <2>. QED
    BY <2>1
<1>9. PICK rest \in Int : rest = IF y = 0 THEN 0 ELSE ExecuteMOD(x, y)
  <2>1. ASSUME y # 0 PROVE ExecuteMOD(x, y) \in Int
    <3>1. s8y \in Int \ {0}
      BY <1>3, <2>1
    <3>2. Remainder(s8x, s8y) \in Int
      BY <3>1, QuotientType
    <3>. QED
      BY <1>1, <3>2 DEF ExecuteMOD
  <2>2. PICK m : m = ExecuteMOD(x, y)
    OBVIOUS
  <2>. QED
    BY <2>1, <2>2
<1>10. PICK modu \in Int : modu = IF y = 0 THEN 0 ELSE ExecuteMODU(x, y)
  <2>1. ASSUME y # 0 PROVE ExecuteMODU(x, y) \in Int
    BY <1>0, <2>1 DEF ExecuteMODU
  <2>. QED
    BY <2>1
<1>11. PICK n \in Nat, p \in Nat \ {0} : n = Count(y, width, masks) /\ p = 2^Count(y, width, masks)
  BY <1>0, Count0
<1>12. PICK shl \in Int : shl = ExecuteSHL(x, y, width, masks)
  <2>1. ux * p \in Int
    OBVIOUS
  <2>2. UInt(ux * p, width) \in Int
    BY <1>4, <2>1
  <2>3. ExecuteSHL(x, y, width, masks) = IF n = BYTE * width THEN 0 ELSE UInt(ux * p, width)
    BY <1>2, <1>11, Zenon DEF ExecuteSHL
  <2>. QED
    BY <2>2, <2>3
<1>13. PICK shr \in Int : shr = ExecuteSHR(x, y, width, masks)
  <2>1. ux \div p \in Int
    OBVIOUS
  <2>. QED
    BY <1>2, <1>11, <2>1 DEF ExecuteSHR
<1>14. PICK ashr \in Int : ashr = ExecuteASHR(x, y, width, masks)
  <2>1. sx \div p \in Int
    OBVIOUS
  <2>. QED
    BY <1>1, <1>11, <2>1 DEF ExecuteASHR
<1>15. PICK not \in Int, neg \in Int, add \in Int : not = -1 - y /\ neg = -y /\ add = x + y
  BY <1>0
<1>16. PICK e1 \in Int, e2 \in Int, e4 \in Int : e1 = SInt(y, 1) /\ e2 = SInt(y, 2) /\ e4 = SInt(y, 4)
  BY <1>0, <1>4
<1>17. PICK logic : logic = Logic(op, x, y) /\ (op \in {OP.AND, OP.OR, OP.XOR} => logic \in Int)
  BY LogicType, Zenon
<1>18. DataManip(op, x, y, width, masks) =
         CASE op = OP.NOT    -> not
           [] op = OP.NEG    -> neg
           [] op = OP.ADD    -> add
           [] op = OP.SUB    -> sub
           [] op = OP.MUL    -> mul
           [] op = OP.MULU   -> mulu
           [] op = OP.DIV    -> div
           [] op = OP.DIVU   -> divu
           [] op = OP.MOD    -> rest
           [] op = OP.MODU   -> modu
           [] op \in {OP.AND, OP.OR, OP.XOR} -> logic
           [] op = OP.SHL    -> shl
           [] op = OP.SHR    -> shr
           [] op = OP.ASHR   -> ashr
           [] op = OP.EXTNDB -> e1
           [] op = OP.EXTNDW -> e2
           [] op = OP.EXTNDD -> e4
  BY <1>1, <1>6, <1>7, <1>8, <1>9, <1>10, <1>12, <1>13, <1>14, <1>15, <1>16, <1>17, ZenonT(60) DEF DataManip
<1>. QED
  BY <1>17, <1>18, SMTT(30) DEF OP

\* The operands of a data instruction are words, cut to its width.
LEMMA ManipOperandsType ==
  ASSUME NEW c, Typed(c), NEW i, WellFormed(i), Opcode(i) \in 10 .. 28,
         NEW width, width = IF Wide(i) THEN 8 ELSE 4
  PROVE  /\ ManipOperands(c, i)[1] \in Words /\ ManipOperands(c, i)[2] \in Words
         /\ ManipOperands(c, i)[2] # 0 => UInt(ManipOperands(c, i)[2], width) # 0
<1>1. width \in {4, 8} /\ width \in {1, 2, 4, 8} /\ Opcode(i) \in 5 .. 28
  OBVIOUS
<1>2. PICK g1 \in Int, g2 \in Int, datum \in Int :
        g1 = c.Gpr[OPERAND1_REGNUM(i)] /\ g2 = c.Gpr[OPERAND2_REGNUM(i)] /\ datum = Datum16(i)
  BY <1>1, FieldTypes, Registers, Datum16Type
<1>3. PICK sum \in Int : sum = UInt(g2 + datum, 8)
  <2>1. g2 + datum \in Int
    OBVIOUS
  <2>. QED
    BY <2>1, IntTypes
<1>4. PICK x \in Int : x = IF OPERAND1_INDIRECT(i) THEN VmReadMem(c.Mem, g1, width) ELSE g1
  BY <1>1, NaturalReadTyped
<1>5. PICK y \in Int : y = IF OPERAND2_INDIRECT(i) THEN VmReadMem(c.Mem, sum, width) ELSE sum
  BY <1>1, NaturalReadTyped
<1>6. PICK a, b : a = Extend(Opcode(i), x, width) /\ b = Extend(Opcode(i), y, width)
  OBVIOUS
<1>7. a \in Words /\ b \in Words /\ (b # 0 => UInt(b, width) # 0)
  BY <1>1, <1>6, ExtendType
<1>8. ManipOperands(c, i) = <<a, b>>
  BY <1>2, <1>3, <1>4, <1>5, <1>6, ZenonT(60) DEF ManipOperands
<1>9. <<a, b>>[1] = a /\ <<a, b>>[2] = b
  OBVIOUS
<1>. QED
  BY <1>7, <1>8, <1>9

\* ExecuteDataManip leaves a typed context.
LEMMA DataManipTyped ==
  ASSUME NEW c, Typed(c), NEW i, WellFormed(i), NEW masks \in BOOLEAN, Opcode(i) \in 10 .. 28
  PROVE  Typed(ExecuteDataManip(c, i, masks))
<1>1. PICK width \in {4, 8} : width = IF Wide(i) THEN 8 ELSE 4
  OBVIOUS
<1>2. PICK x \in Words, y \in Words : /\ x = ManipOperands(c, i)[1] /\ y = ManipOperands(c, i)[2]
                                      /\ y # 0 => UInt(y, width) # 0
  BY <1>1, ManipOperandsType
<1>3. PICK z \in Int : z = DataManip(Opcode(i), x, y, width, masks)
  BY <1>2, DataManipType
<1>4. PICK result \in Int : result = UInt(z, 8)
  BY IntTypes
<1>5. width \in {1, 2, 4, 8, N} /\ width \in {1, 2, 4, 8}
  OBVIOUS
<1>6. PICK cut \in Int : cut = UInt(result, width)
  BY <1>5, IntTypes
<1>7. PICK raised : raised = (IF Opcode(i) \in Divides /\ y = 0 THEN Raise(c, "DIVIDE_ERROR", "FATAL") ELSE c)
  OBVIOUS
<1>8. Typed(raised)
  BY <1>7, TypedFields
<1>9. PICK r1 \in 0 .. 7 : r1 = OPERAND1_REGNUM(i)
  BY Registers
<1>10. PICK g1 \in Int : g1 = c.Gpr[r1]
  BY FieldTypes
<1>11. PICK size \in Int : size = IF Immediate(i) THEN 4 ELSE 2
  OBVIOUS
<1>12. PICK tracked : tracked = (IF r1 = 0 THEN UpdateStackTrackerFromDelta(raised, result) ELSE raised)
  OBVIOUS
<1>13. Typed(tracked)
  BY <1>8, <1>12, TrackerTyped
<1>14. Typed(Write(raised, g1, width, result)) /\ Typed(SetReg(tracked, r1, cut))
  BY <1>5, <1>8, <1>13, WriteTyped, TypedFields
<1>15. Typed(Advance(Write(raised, g1, width, result), size)) /\ Typed(Advance(SetReg(tracked, r1, cut), size))
  BY <1>14, TypedFields
<1>16. ExecuteDataManip(c, i, masks) =
         Advance(IF OPERAND1_INDIRECT(i) THEN Write(raised, g1, width, result)
                 ELSE SetReg(tracked, r1, cut), size)
  BY <1>1, <1>2, <1>3, <1>4, <1>6, <1>7, <1>9, <1>10, <1>11, <1>12, ZenonT(60) DEF ExecuteDataManip
<1>. QED
  BY <1>15, <1>16

-----------------------------------------------------------------------------
(***************************************************************************)
(* Types: the invariant that a context is typed, which every other theorem *)
(* about registers and memory rests on, and what follows from it at once.  *)
(***************************************************************************)

\* The function of the opcode leaves a typed context.
LEMMA DispatchTyped ==
  ASSUME NEW c, Typed(c), NEW i, WellFormed(i), Opcode(i) \notin NoFunction,
         NEW masks \in BOOLEAN, NEW fails \in BOOLEAN
  PROVE  Typed(Dispatch(c, i, masks, fails))
<1>. DEFINE k == [c EXCEPT !.Status = "SUCCESS"]
            op == Opcode(i)
            d == Dispatch(c, i, masks, fails)
            Gives(e) == d = e
<1>1. Typed(k)
  BY TypedFields
<1>2. op \in 0 .. 57 \ {39, 52}
  BY Registers DEF NoFunction
<1>. HIDE DEF k, op
<1>3. op \in {0, 1, 2, 3, 4} => Typed(d)
  <2>1. /\ op = 0 => d = ExecuteBREAK(k, i, fails)
        /\ op = 1 => d = ExecuteJMP(k, i)
        /\ op = 2 => d = ExecuteJMP8(k, i)
        /\ op = 3 => d = ExecuteCALL(k, i)
        /\ op = 4 => d = ExecuteRET(k, i)
    BY OpcodeNumbers, <1>2 DEF Dispatch, k, op
  <2>. HIDE DEF d
  <2>2. op = 0 => Typed(d)
    BY <1>1, <2>1, BREAKTyped
  <2>3. op = 1 => Typed(d)
    BY <1>1, <2>1, JMPTyped DEF op
  <2>4. op = 2 => Typed(d)
    BY <1>1, <2>1, JMP8Typed
  <2>5. op = 3 => Typed(d)
    BY <1>1, <2>1, CALLTyped DEF op
  <2>6. op = 4 => Typed(d)
    BY <1>1, <2>1, RETTyped
  <2>. QED
    BY <2>2, <2>3, <2>4, <2>5, <2>6
<1>4. op \in 5 .. 28 => Typed(d)
  <2>1. /\ op \in 5 .. 9 => d = ExecuteCMP(k, i)
        /\ op \in 10 .. 28 => d = ExecuteDataManip(k, i, masks)
    BY OpcodeNumbers, <1>2 DEF Dispatch, k, op
  <2>. HIDE DEF d
  <2>2. op \in 5 .. 9 => Typed(d)
    BY <1>1, <2>1, CompareTyped DEF op
  <2>3. op \in 10 .. 28 => Typed(d)
    BY <1>1, <2>1, DataManipTyped DEF op
  <2>. QED
    BY <2>2, <2>3
<1>5. op \in {37, 38, 41, 42} => Typed(d)
  <2>1. /\ op = 37 => d = MoveSigned(k, i, 2)
        /\ op = 38 => d = MoveSigned(k, i, 4)
        /\ op = 41 => d = ExecuteLOADSP(k, i)
        /\ op = 42 => d = ExecuteSTORESP(k, i)
    BY OpcodeNumbers, <1>2 DEF Dispatch, k, op, ExecuteMOVsnw, ExecuteMOVsnd
  <2>. HIDE DEF d
  <2>2. op \in {37, 38} => Typed(d)
    BY <1>1, <2>1, MoveSignedTyped DEF op
  <2>3. op \in {41, 42} => Typed(d)
    BY <1>1, <2>1, DedicatedTyped
  <2>. QED
    BY <2>2, <2>3
<1>6. op \in {43, 44, 53, 54} => Typed(d)
  <2>1. /\ op = 43 => d = ExecutePUSH(k, i)
        /\ op = 44 => d = ExecutePOP(k, i)
        /\ op = 53 => d = ExecutePUSHn(k, i)
        /\ op = 54 => d = ExecutePOPn(k, i)
    BY OpcodeNumbers, <1>2 DEF Dispatch, k, op
  <2>. HIDE DEF d
  <2>. QED
    BY <1>1, <2>1, StackTyped DEF op
<1>7. op \in 45 .. 49 => Typed(d)
  <2>1. op \in 45 .. 49 => d = ExecuteCMPI(k, i)
    BY OpcodeNumbers, <1>2 DEF Dispatch, k, op
  <2>. HIDE DEF d
  <2>. QED
    BY <1>1, <2>1, CompareTyped DEF op
<1>8. op \in 55 .. 57 => Typed(d)
  <2>1. /\ op = 55 => d = ExecuteMOVI(k, i)
        /\ op = 56 => d = ExecuteMOVIn(k, i)
        /\ op = 57 => d = ExecuteMOVREL(k, i)
    BY OpcodeNumbers, <1>2 DEF Dispatch, k, op
  <2>. HIDE DEF d
  <2>. QED
    BY <1>1, <2>1, MoveImmediatesTyped DEF op
<1>9. op \in 29 .. 36 \cup {40, 50, 51} => Typed(d)
  <2>1. op \in 29 .. 36 \cup {40, 50, 51} => d = ExecuteMOVxx(k, i)
    BY OpcodeNumbers, <1>2 DEF Dispatch, k, op
  <2>. HIDE DEF d
  <2>. QED
    BY <1>1, <2>1, MOVxxTyped DEF op
<1>. HIDE DEF d
<1>10. Typed(d)
  BY <1>2, <1>3, <1>4, <1>5, <1>6, <1>7, <1>8, <1>9
<1>. QED
  BY <1>10 DEF d

\* Memory holds its addresses, and the magic word, when a context begins.
LEMMA StartTyped ==
  ASSUME NEW start \in Starts
  PROVE  Typed(Start(start))
<1>1. /\ start.Gpr \in [0 .. 7 -> Words] /\ start.On \in BOOLEAN
      /\ EntryPoint \in Address /\ StackMagic \in Address
  BY ContextAssumption DEF Words
<1>. DEFINE gpr == start.Gpr
            mem == [a \in Address |-> a % Cells(1)]
<1>2. gpr[0] + 8 \in Int
  BY <1>1, WordsType
<1>3. Natural(gpr[0] + 8) \in Address
  BY <1>2, NaturalType
<1>4. mem \in Memories
  <2>1. \A a \in Address : a % Cells(1) \in Byte
    BY WordsType, ByteType DEF UInt
  <2>. QED
    BY <2>1 DEF Memories
<1>5. VmWriteMemN(mem, StackMagic, VM_STACK_KEY_VALUE) \in Memories
  <2>1. StackMagic \in Int /\ VM_STACK_KEY_VALUE \in Int
    BY <1>1, WordsType DEF VM_STACK_KEY_VALUE
  <2>. HIDE DEF mem
  <2>. QED
    BY <1>4, <2>1, WriteParts DEF Stored
<1>. HIDE DEF gpr, mem
<1>6. PICK new \in Memories : new = VmWriteMemN(mem, StackMagic, VM_STACK_KEY_VALUE)
  BY <1>5
<1>7. PICK fp \in Address : fp = Natural(gpr[0] + 8)
  BY <1>3
<1>8. PICK g \in [0 .. 7 -> Words] : g = start.Gpr
  BY <1>1
<1>9. PICK t : t = [On |-> start.On, Height |-> Height, OrgHeight |-> 0, OrgStackPointer |-> 0]
  OBVIOUS
<1>10. t \in TrackerType /\ (t.On => NATURAL = 4)
  BY <1>1, <1>9, ContextAssumption DEF TrackerType
<1>11. Start(start) =
         [Gpr |-> g, Ip |-> EntryPoint, CC |-> FALSE, STEP |-> FALSE,
          FramePtr |-> fp, Done |-> FALSE, LastException |-> "NONE",
          Mem |-> new, Tracker |-> t, Status |-> "SUCCESS"]
  BY <1>6, <1>7, <1>8, <1>9, Zenon DEF Start, gpr, mem
<1>. QED
  BY <1>1, <1>10, <1>11 DEF Typed, IsContext, Fields
-----------------------------------------------------------------------------
\* A context keeps its types.
TInv == Inv /\ Typed(vm) /\ StackCorrupted \in BOOLEAN

\* A context is typed when it begins.
LEMMA InitTInv == Init => TInv
<1>. SUFFICES ASSUME Init PROVE TInv
  OBVIOUS
<1>1. PICK start \in Starts : vm = Start(start)
  BY DEF Init
<1>. QED
  BY <1>1, InitInv, StartTyped DEF TInv, Init

\* Whether the stack is overrun is a truth value.
LEMMA OverrunType ==
  ASSUME NEW c
  PROVE  Overrun(c) \in BOOLEAN
  BY DEF Overrun

\* The instruction at Ip as it was encoded.
LEMMA CurrentWellFormed ==
  ASSUME TInv, ~ Ended
  PROVE  WellFormed(Current)
  BY ProgramAssumption DEF TInv, Inv, Ended, Current

\* One turn of the loop leaves it typed.
LEMMA ExecuteTyped ==
  ASSUME TInv, NEW masks \in BOOLEAN, NEW fails \in BOOLEAN, Execute(masks, fails)
  PROVE  /\ Typed(Dispatch(vm, Current, masks, fails)) /\ Typed(vm')
         /\ StackCorrupted' \in BOOLEAN
<1>. DEFINE c == Dispatch(vm, Current, masks, fails)
<1>1. Typed(c)
  BY CurrentWellFormed, DispatchTyped DEF Execute, Fetch, TInv
<1>2. vm' = CheckStack(StepFlag(c)) /\ StackCorrupted' = (StackCorrupted \/ Overrun(vm'))
  BY DEF Execute
<1>. HIDE DEF c
<1>3. Typed(StepFlag(c))
  BY <1>1, TypedFields DEF StepFlag
<1>4. Typed(vm')
  BY <1>2, <1>3, TypedFields DEF CheckStack
<1>5. StackCorrupted' \in BOOLEAN
  BY <1>2, OverrunType
<1>. QED
  BY <1>1, <1>4, <1>5 DEF c

\* So does every step.
LEMMA NextTInv == TInv /\ [Next]_vars => TInv'
<1>. SUFFICES ASSUME TInv, [Next]_vars PROVE TInv'
  OBVIOUS
<1>1. Inv'
  BY NextInv DEF TInv
<1>2. Typed(vm') /\ StackCorrupted' \in BOOLEAN
  <2>1. ASSUME NEW masks \in BOOLEAN, NEW fails \in BOOLEAN, Execute(masks, fails)
        PROVE  Typed(vm') /\ StackCorrupted' \in BOOLEAN
    BY <2>1, ExecuteTyped
  <2>2. CASE InvalidOpcode
    <3>1. Typed(Raise(vm, "INVALID_OPCODE", "FATAL"))
      BY TypedFields DEF TInv
    <3>. QED
      BY <2>2, <3>1, TypedFields DEF InvalidOpcode, TInv
  <2>3. CASE ProcessorTrap
    <3>1. Typed([vm EXCEPT !.LastException = "PROCESSOR", !.Done = TRUE])
      BY DEF TInv, Typed, IsContext, Fields
    <3>. QED
      BY <2>3, <3>1 DEF ProcessorTrap, TInv
  <2>4. CASE UNCHANGED vars
    BY <2>4 DEF vars, TInv
  <2>. QED
    BY <2>1, <2>2, <2>3, <2>4 DEF Next
<1>. QED
  BY <1>1, <1>2 DEF TInv, Typed, IsContext

\* So it always is.
LEMMA AlwaysTInv == Spec => []TInv
  BY InitTInv, NextTInv, PTL DEF Spec

\* Whatever program runs, registers stay words, Ip and the frame pointer natural
\* addresses and memory bytes: every function of EbcExecute.c cuts what it writes.
THEOREM TypeCorrect == Spec => []TypeOK
<1>1. TInv => TypeOK
  BY DEF TInv, Typed, TypeOK, Memories, Byte, Words
<1>. QED
  BY <1>1, AlwaysTInv, PTL

\* VmWriteMem8 .. VmWriteMemN store the same bytes however the address is aligned,
\* none but those of the store, and VmReadMem8 .. VmReadMemN read them back.
THEOREM StoresLoaded == Spec => []StoreThenLoad
<1>1. TInv => StoreThenLoad
  <2>. SUFFICES ASSUME TInv, NEW r \in {0, 1}, NEW bytes \in {1, 2, 4, 8, N}
                PROVE  LET c == Write(vm, vm.Gpr[r], bytes, vm.Gpr[3])
                       IN /\ Read(c, vm.Gpr[r], bytes) = UInt(vm.Gpr[3], Width(bytes))
                          /\ c.Mem = DirectWrite(vm.Mem, vm.Gpr[r], Width(bytes),
                                                 UInt(vm.Gpr[3], Width(bytes)))
    BY DEF StoreThenLoad, Width
  <2>1. PICK addr \in Int : addr = vm.Gpr[r]
    BY FieldTypes DEF TInv
  <2>2. PICK x \in Int : x = vm.Gpr[3]
    BY FieldTypes DEF TInv
  <2>3. PICK width \in 0 .. 8 : width = Width(bytes)
    BY WidthAssumption DEF Width
  <2>4. PICK c : c = Write(vm, addr, bytes, x)
    OBVIOUS
  <2>5. IsContext(vm) /\ vm.Mem \in Memories
    BY DEF TInv, Typed
  <2>6. Stored(vm.Mem, c.Mem, addr, width, x)
    BY <2>3, <2>4, <2>5, WriteStores
  <2>7. Read(c, addr, bytes) = UInt(x, width)
    <3>1. Read(c, addr, bytes) = Direct(c.Mem, addr, width)
      BY <2>3, <2>6, ReadIsDirect DEF Stored
    <3>. QED
      BY <2>5, <2>6, <3>1, ReadStored
  <2>8. c.Mem = DirectWrite(vm.Mem, addr, width, UInt(x, width))
    <3>1. width \in Nat /\ width <= width
      OBVIOUS
    <3>2. UInt(x, width) \in Int
      BY <3>1, UIntType, CellsType
    <3>3. Stored(vm.Mem, DirectWrite(vm.Mem, addr, width, UInt(x, width)), addr, width, UInt(x, width))
      BY <2>5, <3>2, DirectWriteStores
    <3>4. Stored(vm.Mem, DirectWrite(vm.Mem, addr, width, UInt(x, width)), addr, width, x)
      BY <3>1, <3>3, StoredCut
    <3>. QED
      BY <2>6, <3>4, StoredUnique
  <2>. QED
    BY <2>1, <2>2, <2>3, <2>4, <2>7, <2>8
<1>. QED
  BY <1>1, AlwaysTInv, PTL

-----------------------------------------------------------------------------
(***************************************************************************)
(* Frames.  While the bytes CALL wrote are as they were, they hold the     *)
(* return address and the frame pointer of the caller, wherever the stack  *)
(* is and wherever its addresses wrap.                                     *)
(***************************************************************************)
Kept(mem, f) ==
  /\ Natural(Direct(mem, f.Gpr0 - 16, 8)) = f.Ip
  /\ Direct(mem, f.Gpr0 - 8, NATURAL) = f.FramePtr

Frame == [Gpr0 : Words, FramePtr : Address, Ip : Address, clean : BOOLEAN]

FrameInv ==
  /\ TInv
  /\ calls \in Seq(Frame)
  /\ \A n \in DOMAIN calls : calls[n].clean => Kept(vm.Mem, calls[n])

\* Only the low bits of an address count.
LEMMA StoredSame ==
  ASSUME NEW mem, NEW new, NEW a \in Int, NEW b \in Int, NEW len \in 0 .. 8, NEW x,
         Natural(a) = Natural(b), Stored(mem, new, a, len, x)
  PROVE  Stored(mem, new, b, len, x)
<1>1. \A k \in 0 .. len - 1 : Natural(a + k) = Natural(b + k)
  <2>. SUFFICES ASSUME NEW k \in 0 .. len - 1 PROVE Natural(a + k) = Natural(b + k)
    OBVIOUS
  <2>1. k \in Int
    OBVIOUS
  <2>2. Natural(Natural(a) + k) = Natural(a + k) /\ Natural(Natural(b) + k) = Natural(b + k)
    BY <2>1, NaturalAdd
  <2>. QED
    BY <2>2
<1>. QED
  BY <1>1 DEF Stored, At

\* The bytes of a frame decide what it holds.
LEMMA KeptSame ==
  ASSUME NEW mem \in Memories, NEW new \in Memories, NEW f, f.Gpr0 \in Words,
         \A n \in 1 .. 16 : At(new, f.Gpr0 - n) = At(mem, f.Gpr0 - n), Kept(mem, f)
  PROVE  Kept(new, f)
<1>1. PICK r \in Int : r = f.Gpr0
  BY WordsType
<1>2. Direct(mem, r - 16, 8) = Direct(new, r - 16, 8)
  <2>1. \A k \in 0 .. 8 - 1 : At(mem, (r - 16) + k) = At(new, (r - 16) + k)
    <3>. SUFFICES ASSUME NEW k \in 0 .. 8 - 1
                  PROVE  At(mem, (r - 16) + k) = At(new, (r - 16) + k)
      OBVIOUS
    <3>1. (r - 16) + k = r - (16 - k) /\ 16 - k \in 1 .. 16
      OBVIOUS
    <3>. QED
      BY <1>1, <3>1
  <2>2. r - 16 \in Int /\ 8 \in 0 .. 8
    OBVIOUS
  <2>. QED
    BY <2>1, <2>2, DirectSame
<1>3. Direct(mem, r - 8, NATURAL) = Direct(new, r - 8, NATURAL)
  <2>1. \A k \in 0 .. NATURAL - 1 : At(mem, (r - 8) + k) = At(new, (r - 8) + k)
    <3>. SUFFICES ASSUME NEW k \in 0 .. NATURAL - 1
                  PROVE  At(mem, (r - 8) + k) = At(new, (r - 8) + k)
      OBVIOUS
    <3>1. (r - 8) + k = r - (8 - k) /\ 8 - k \in 1 .. 16
      BY WidthAssumption
    <3>. QED
      BY <1>1, <3>1
  <2>2. r - 8 \in Int /\ NATURAL \in 0 .. 8
    BY WidthAssumption
  <2>. QED
    BY <2>1, <2>2, DirectSame
<1>. QED
  BY <1>1, <1>2, <1>3 DEF Kept

\* Two stores side by side, the second below the first, make a frame.
LEMMA FrameStored ==
  ASSUME NEW mem \in Memories, NEW mid, NEW new, NEW r \in Int,
         NEW fp \in Address, NEW ip \in Address,
         Stored(mem, mid, r - 8, NATURAL, fp), Stored(mid, new, r - 16, 8, ip),
         NEW f, f.Gpr0 = r, f.FramePtr = fp, f.Ip = ip
  PROVE  Kept(new, f)
<1>1. /\ mid \in Memories /\ new \in Memories /\ fp \in Int /\ ip \in Int
      /\ r - 8 \in Int /\ r - 16 \in Int
  BY WordsType DEF Stored
<1>2. NATURAL \in 0 .. 8 /\ 8 \in 0 .. 8 /\ 8 \in Nat /\ NATURAL \in Nat /\ NATURAL <= 8
  BY WidthAssumption
<1>3. Natural(Direct(new, r - 16, 8)) = ip
  <2>1. Direct(new, r - 16, 8) = UInt(ip, 8)
    BY <1>1, <1>2, ReadStored
  <2>2. Natural(UInt(ip, 8)) = Natural(ip)
    BY <1>1, <1>2, UIntNested DEF Natural
  <2>3. Natural(ip) = ip
    BY <1>2, UIntSmall DEF Natural, Address
  <2>. QED
    BY <2>1, <2>2, <2>3
<1>4. Direct(new, r - 8, NATURAL) = fp
  <2>1. \A k \in 0 .. NATURAL - 1 : At(mid, (r - 8) + k) = At(new, (r - 8) + k)
    <3>. SUFFICES ASSUME NEW k \in 0 .. NATURAL - 1
                  PROVE  At(mid, (r - 8) + k) = At(new, (r - 8) + k)
      OBVIOUS
    <3>1. (r - 8) + k = (r - 16) + (8 + k) /\ 8 + k \in 0 .. 15 /\ (r - 8) + k \in Int
      BY WidthAssumption
    <3>2. \A j \in 0 .. 8 - 1 : Natural((r - 8) + k) # Natural((r - 16) + j)
      <4>. SUFFICES ASSUME NEW j \in 0 .. 8 - 1, Natural((r - 8) + k) = Natural((r - 16) + j)
                    PROVE  FALSE
        OBVIOUS
      <4>1. j \in 0 .. 15 /\ j # 8 + k
        BY WidthAssumption
      <4>2. Natural((r - 16) + (8 + k)) = Natural((r - 16) + j)
        BY <3>1
      <4>. QED
        BY <1>1, <3>1, <4>1, <4>2, NaturalApart
    <3>3. Natural((r - 8) + k) \in Address
      BY <3>1, NaturalType
    <3>. QED
      BY <3>2, <3>3 DEF Stored, At
  <2>2. Direct(mid, r - 8, NATURAL) = Direct(new, r - 8, NATURAL)
    <3>1. mid \in Memories /\ new \in Memories /\ r - 8 \in Int /\ NATURAL \in 0 .. 8
      BY <1>1, <1>2
    <3>. QED
      BY ONLY <2>1, <3>1, DirectSame, ZenonT(60)
  <2>3. Direct(mid, r - 8, NATURAL) = UInt(fp, NATURAL)
    BY <1>1, <1>2, ReadStored
  <2>4. UInt(fp, NATURAL) = fp
    BY <1>2, UIntSmall DEF Address
  <2>. QED
    BY <2>2, <2>3, <2>4
<1>. QED
  BY <1>3, <1>4 DEF Kept

\* What the loop adds to the instruction touches neither registers nor memory.
LEMMA ExecuteKeeps ==
  ASSUME TInv, NEW masks \in BOOLEAN, NEW fails \in BOOLEAN, Execute(masks, fails)
  PROVE  LET c == Dispatch(vm, Current, masks, fails)
         IN /\ vm'.Gpr = c.Gpr /\ vm'.Mem = c.Mem /\ vm'.Ip = c.Ip
            /\ vm'.FramePtr = c.FramePtr /\ vm'.CC = c.CC /\ vm'.Tracker = c.Tracker
<1>. DEFINE c == Dispatch(vm, Current, masks, fails)
            Same(d, e) == /\ e.Gpr = d.Gpr /\ e.Mem = d.Mem /\ e.Ip = d.Ip
                          /\ e.FramePtr = d.FramePtr /\ e.CC = d.CC /\ e.Tracker = d.Tracker
<1>1. Typed(c)
  BY ExecuteTyped
<1>2. vm' = CheckStack(StepFlag(c))
  BY DEF Execute
<1>. HIDE DEF c
<1>3. ASSUME NEW d, Typed(d), NEW type, NEW flag
      PROVE  Same(d, Raise(d, type, flag))
  BY <1>3 DEF Typed, IsContext, Fields, Raise
<1>4. Same(c, StepFlag(c)) /\ Typed(StepFlag(c))
  BY <1>1, <1>3, TypedFields, ZenonT(60) DEF StepFlag
<1>5. Same(StepFlag(c), vm')
  BY <1>2, <1>3, <1>4 DEF CheckStack
<1>. QED
  BY <1>4, <1>5 DEF c

\* A call of EBC code leaves its frame below R0.
LEMMA CALLFrame ==
  ASSUME NEW c, Typed(c), NEW i, ~ Bit(i.operands, 5), NEW f,
         f.Gpr0 = c.Gpr[0], f.FramePtr = c.FramePtr,
         f.Ip = Natural(c.Ip + (IF Immediate(i) THEN IF Wide(i) THEN 10 ELSE 6 ELSE 2))
  PROVE  Kept(ExecuteCALL(c, i).Mem, f)
<1>1. PICK r \in Int : r = c.Gpr[0]
  <2>1. 0 \in 0 .. 7
    OBVIOUS
  <2>. QED
    BY <2>1, FieldTypes
<1>2. PICK size \in Int : size = IF Immediate(i) THEN (IF Wide(i) THEN 10 ELSE 6) ELSE 2
  OBVIOUS
<1>3. PICK fp \in Int : fp = UInt(r - 8, 8) /\ Natural(fp) = Natural(r - 8)
  <2>1. r - 8 \in Int /\ NATURAL \in Nat /\ 8 \in Nat /\ NATURAL <= 8
    BY WidthAssumption
  <2>2. UInt(r - 8, 8) \in Int
    BY <2>1, IntTypes
  <2>3. Natural(UInt(r - 8, 8)) = Natural(r - 8)
    BY <2>1, UIntNested DEF Natural
  <2>. QED
    BY <2>2, <2>3
<1>4. PICK ip \in Address : ip = Natural(c.Ip + size)
  <2>1. c.Ip + size \in Int
    BY FieldTypes
  <2>. QED
    BY <2>1, NaturalType
<1>5. PICK low : low = Write(c, fp, N, c.FramePtr)
  OBVIOUS
<1>6. Typed(low) /\ Stored(c.Mem, low.Mem, fp, NATURAL, c.FramePtr)
  <2>1. /\ c.FramePtr \in Int /\ N \in {1, 2, 4, 8, N} /\ IsContext(c) /\ c.Mem \in Memories
        /\ Width(N) = NATURAL
    BY FieldTypes DEF Width, Typed
  <2>2. Stored(c.Mem, low.Mem, fp, Width(N), c.FramePtr)
    BY <1>5, <2>1, WriteStores
  <2>. QED
    BY <1>5, <2>1, <2>2, WriteTyped
<1>7. PICK set : set = SetReg(low, 0, fp - 8)
  OBVIOUS
<1>8. Typed(set) /\ set.Mem = low.Mem
  <2>1. 0 \in 0 .. 7 /\ fp - 8 \in Int
    OBVIOUS
  <2>2. Typed(set)
    BY <1>6, <1>7, <2>1, TypedFields
  <2>3. set.Mem = low.Mem
    BY <1>6, <1>7, SetRegContext DEF Typed
  <2>. QED
    BY <2>2, <2>3
<1>9. PICK pushed : pushed = Write(set, fp - 8, 8, ip)
  OBVIOUS
<1>10. IsContext(pushed) /\ Stored(low.Mem, pushed.Mem, fp - 8, 8, ip)
  <2>1. /\ ip \in Int /\ fp - 8 \in Int /\ 8 \in {1, 2, 4, 8, N} /\ IsContext(set) /\ set.Mem \in Memories
        /\ Width(8) = 8
    BY <1>8, WordsType DEF Width, Typed, N
  <2>2. Stored(set.Mem, pushed.Mem, fp - 8, Width(8), ip)
    BY <1>9, <2>1, WriteStores
  <2>. QED
    BY <1>8, <1>9, <2>1, <2>2, WriteContext
<1>11. PICK entered : entered = [pushed EXCEPT !.FramePtr = Natural(fp)]
  OBVIOUS
<1>12. IsContext(entered) /\ entered.Mem = pushed.Mem
  BY <1>10, <1>11 DEF IsContext, Fields
<1>13. \E target : \/ ExecuteCALL(c, i) = Advance(entered, target + size)
                   \/ ExecuteCALL(c, i) = [entered EXCEPT !.Ip = Natural(target)]
  <2>1. PICK native \in BOOLEAN : native = Bit(i.operands, 5)
    BY DEF Bit
  <2>2. PICK d : d = (IF native THEN c ELSE [pushed EXCEPT !.FramePtr = Natural(fp)])
    OBVIOUS
  <2>3. PICK r1 : r1 = OPERAND1_REGNUM(i)
    OBVIOUS
  <2>4. PICK base : base = (IF r1 = 0 THEN 0 ELSE Natural(d.Gpr[r1])) + Target32(i)
    OBVIOUS
  <2>5. PICK target :
          target = IF Wide(i) THEN (IF Immediate(i) THEN i.data[1] ELSE 0)
                   ELSE IF OPERAND1_INDIRECT(i) THEN VmReadMemN(d.Mem, Natural(base))
                   ELSE base
    OBVIOUS
  <2>6. fp = UInt(r - 8, 8)
    BY <1>3
  <2>7. ExecuteCALL(c, i) =
          IF native THEN EbcLLCALLEX(c, size)
          ELSE IF ~ Wide(i) /\ Bit(i.operands, 4) THEN Advance(d, target + size)
          ELSE [d EXCEPT !.Ip = Natural(target)]
    BY <1>1, <1>2, <2>6, <1>4, <1>5, <1>7, <1>9, <2>1, <2>2, <2>3, <2>4, <2>5, SMTT(60)
       DEF ExecuteCALL
  <2>8. ~ native /\ d = entered
    BY <1>11, <2>1, <2>2
  <2>. QED
    BY <2>7, <2>8
<1>14. ExecuteCALL(c, i).Mem = pushed.Mem
  <2>1. ASSUME NEW target
        PROVE  /\ Advance(entered, target + size).Mem = entered.Mem
               /\ [entered EXCEPT !.Ip = Natural(target)].Mem = entered.Mem
    BY <1>12, AdvanceContext DEF IsContext, Fields, SameData
  <2>. QED
    BY <1>12, <1>13, <2>1
<1>15. Stored(c.Mem, low.Mem, r - 8, NATURAL, c.FramePtr)
  <2>1. NATURAL \in 0 .. 8 /\ r - 8 \in Int
    BY WidthAssumption
  <2>. QED
    BY <1>3, <1>6, <2>1, StoredSame
<1>16. Stored(low.Mem, pushed.Mem, r - 16, 8, ip)
  <2>1. fp - 8 = fp + (-8) /\ r - 16 = (r - 8) + (-8) /\ -8 \in Int /\ r - 8 \in Int
        /\ fp - 8 \in Int /\ r - 16 \in Int /\ 8 \in 0 .. 8
    OBVIOUS
  <2>2. Natural(Natural(fp) + (-8)) = Natural(fp + (-8))
        /\ Natural(Natural(r - 8) + (-8)) = Natural((r - 8) + (-8))
    BY <2>1, NaturalAdd
  <2>3. Natural(fp - 8) = Natural(r - 16)
    BY <1>3, <2>1, <2>2
  <2>. QED
    BY <1>10, <2>1, <2>3, StoredSame
<1>. QED
  BY <1>1, <1>2, <1>4, <1>14, <1>15, <1>16, FrameStored DEF Typed

\* RET takes Ip, the frame pointer and R0 from the stack, and changes no memory.
LEMMA RETMemory ==
  ASSUME NEW c, Typed(c), NEW i
  PROVE  /\ ExecuteRET(c, i).Mem = c.Mem
         /\ c.Gpr[0] # StackRetAddr =>
              /\ ExecuteRET(c, i).Gpr[0] = UInt(c.Gpr[0] + 16, 8)
              /\ ExecuteRET(c, i).Ip = Natural(VmReadMem64(c.Mem, Natural(c.Gpr[0])))
              /\ ExecuteRET(c, i).FramePtr = VmReadMemN(c.Mem, Natural(c.Gpr[0] + 8))
<1>1. PICK checked : checked = IF Natural(c.Gpr[0]) % 2 = 0 THEN c
                               ELSE Raise(c, "ALIGNMENT_CHECK", "FATAL")
  OBVIOUS
<1>2. Typed(checked) /\ checked.Mem = c.Mem /\ checked.Gpr = c.Gpr
  <2>1. PICK d : d = Raise(c, "ALIGNMENT_CHECK", "FATAL")
    OBVIOUS
  <2>2. Typed(d)
    BY <2>1, TypedFields
  <2>3. d.Mem = c.Mem /\ d.Gpr = c.Gpr
    BY <2>1, RaiseContext DEF Typed, SameData
  <2>4. checked = c \/ checked = d
    BY <1>1, <2>1
  <2>. QED
    BY <2>2, <2>3, <2>4
<1>3. PICK ip : ip = Natural(VmReadMem64(c.Mem, Natural(c.Gpr[0])))
  OBVIOUS
<1>4. PICK fp : fp = VmReadMemN(c.Mem, Natural(c.Gpr[0] + 8))
  OBVIOUS
<1>5. PICK popped : popped = [checked EXCEPT !.Ip = ip, !.FramePtr = fp]
  OBVIOUS
<1>6. /\ IsContext(popped) /\ popped.Mem = c.Mem /\ popped.Gpr = c.Gpr
      /\ popped.Ip = ip /\ popped.FramePtr = fp /\ 0 \in DOMAIN popped.Gpr
  <2>1. IsContext(checked) /\ 0 \in DOMAIN checked.Gpr
    BY <1>2 DEF Typed
  <2>2. /\ IsContext(popped) /\ popped.Mem = checked.Mem /\ popped.Gpr = checked.Gpr
        /\ popped.Ip = ip /\ popped.FramePtr = fp
    BY <1>5, <2>1 DEF IsContext, Fields
  <2>. QED
    BY <1>2, <2>1, <2>2
<1>7. ExecuteRET(c, i) = IF c.Gpr[0] = StackRetAddr THEN [c EXCEPT !.Done = TRUE]
                         ELSE SetReg(popped, 0, c.Gpr[0] + 16)
  BY <1>1, <1>3, <1>4, <1>5, Zenon DEF ExecuteRET
<1>8. [c EXCEPT !.Done = TRUE].Mem = c.Mem
  BY DEF Typed, IsContext, Fields
<1>9. /\ SetReg(popped, 0, c.Gpr[0] + 16).Mem = c.Mem
      /\ SetReg(popped, 0, c.Gpr[0] + 16).Ip = ip
      /\ SetReg(popped, 0, c.Gpr[0] + 16).FramePtr = fp
      /\ SetReg(popped, 0, c.Gpr[0] + 16).Gpr[0] = UInt(c.Gpr[0] + 16, 8)
  <2>1. PICK x : x = UInt(c.Gpr[0] + 16, 8)
    OBVIOUS
  <2>2. SetReg(popped, 0, c.Gpr[0] + 16) = [popped EXCEPT !.Gpr[0] = x]
    BY <2>1, Zenon DEF SetReg
  <2>. QED
    BY <1>6, <2>1, <2>2 DEF IsContext, Fields
<1>. QED
  BY <1>3, <1>4, <1>7, <1>8, <1>9

\* The opcode of CALL leads to ExecuteCALL.
LEMMA CurrentCALL ==
  ASSUME NEW c, NEW i, Opcode(i) = OP.CALL, NEW masks, NEW fails
  PROVE  Dispatch(c, i, masks, fails) = ExecuteCALL([c EXCEPT !.Status = "SUCCESS"], i)
  BY OpcodeNumbers DEF Dispatch

\* That of RET leads to ExecuteRET.
LEMMA CurrentRET ==
  ASSUME NEW c, NEW i, Opcode(i) = OP.RET, NEW masks, NEW fails
  PROVE  Dispatch(c, i, masks, fails) = ExecuteRET([c EXCEPT !.Status = "SUCCESS"], i)
  BY OpcodeNumbers DEF Dispatch

\* Forgetting the status of the instruction before keeps the rest.
LEMMA StatusReset ==
  ASSUME NEW c, Typed(c), NEW k, k = [c EXCEPT !.Status = "SUCCESS"]
  PROVE  /\ Typed(k)
         /\ k.Gpr = c.Gpr /\ k.Mem = c.Mem /\ k.Ip = c.Ip /\ k.FramePtr = c.FramePtr
         /\ k.CC = c.CC /\ k.Tracker = c.Tracker /\ k.Status = "SUCCESS"
  BY TypedFields DEF Typed, IsContext, Fields

\* There is no frame when a context begins.
LEMMA InitFrames == Init => FrameInv
<1>. SUFFICES ASSUME Init PROVE FrameInv
  OBVIOUS
<1>1. calls = <<>>
  BY DEF Init
<1>. QED
  BY <1>1, InitTInv DEF FrameInv

\* One instruction: the frames whose bytes it leaves alone, the one it makes, the
\* one it gives up.
LEMMA ExecuteFrames ==
  ASSUME FrameInv, NEW masks \in BOOLEAN, NEW fails \in BOOLEAN, Execute(masks, fails)
  PROVE  /\ calls' \in Seq(Frame)
         /\ \A n \in DOMAIN calls' : calls'[n].clean => Kept(vm'.Mem, calls'[n])
<1>1. Typed(vm) /\ Typed(vm') /\ TInv
  BY ExecuteTyped DEF FrameInv, TInv
<1>2. vm.Mem \in Memories /\ vm'.Mem \in Memories
  BY <1>1, FieldTypes
<1>. DEFINE i == Current
            Wrote(f) == \E n \in 1 .. 16 : At(vm'.Mem, f.Gpr0 - n) # At(vm.Mem, f.Gpr0 - n)
            marked == [n \in DOMAIN calls |->
                         [calls[n] EXCEPT !.clean = @ /\ ~ Wrote(calls[n])]]
            called == [Gpr0 |-> vm.Gpr[0], FramePtr |-> vm.FramePtr,
                       Ip |-> Natural(vm.Ip + (IF Immediate(i) THEN IF Wide(i) THEN 10 ELSE 6
                                               ELSE 2)),
                       clean |-> TRUE]
<1>3. calls' = IF Opcode(i) = OP.CALL /\ ~ Bit(i.operands, 5) THEN Append(marked, called)
               ELSE IF Opcode(i) = OP.RET /\ calls # <<>> THEN SubSeq(calls, 1, Len(calls) - 1)
               ELSE marked
  BY DEF Execute, Recorded
<1>. DEFINE Good(s) == /\ s \in Seq(Frame)
                       /\ \A n \in DOMAIN s : s[n].clean => Kept(vm'.Mem, s[n])
<1>4. Good(marked)
  <2>. DEFINE Mark(f) == [f EXCEPT !.clean = @ /\ ~ Wrote(f)]
  <2>1. ASSUME NEW f \in Frame, f.clean => Kept(vm.Mem, f)
        PROVE  Mark(f) \in Frame /\ (Mark(f).clean => Kept(vm'.Mem, Mark(f)))
    <3>1. Wrote(f) \in BOOLEAN
      OBVIOUS
    <3>2. PICK w \in BOOLEAN : w = Wrote(f)
      BY <3>1
    <3>3. /\ Mark(f) \in Frame /\ Mark(f).Gpr0 = f.Gpr0 /\ Mark(f).Ip = f.Ip
          /\ Mark(f).FramePtr = f.FramePtr /\ (Mark(f).clean => f.clean /\ ~ w)
      <4>1. Mark(f) = [f EXCEPT !.clean = @ /\ ~ w]
        BY <3>2
      <4>. HIDE DEF Mark
      <4>. QED
        BY <4>1 DEF Frame
    <3>4. ~ w /\ f.clean => Kept(vm'.Mem, f)
      <4>. SUFFICES ASSUME ~ w, f.clean PROVE Kept(vm'.Mem, f)
        OBVIOUS
      <4>1. \A n \in 1 .. 16 : At(vm'.Mem, f.Gpr0 - n) = At(vm.Mem, f.Gpr0 - n)
        BY <3>2
      <4>2. f.Gpr0 \in Words
        BY DEF Frame
      <4>3. Kept(vm.Mem, f)
        BY <2>1
      <4>. QED
        BY <1>2, <4>1, <4>2, <4>3, KeptSame
    <3>. HIDE DEF Mark
    <3>. QED
      BY <3>3, <3>4 DEF Kept
  <2>2. marked = [n \in DOMAIN calls |-> Mark(calls[n])]
    OBVIOUS
  <2>3. calls \in Seq(Frame) /\ \A n \in DOMAIN calls : calls[n].clean => Kept(vm.Mem, calls[n])
    BY DEF FrameInv
  <2>. HIDE DEF marked, Mark
  <2>4. \A n \in 1 .. Len(calls) : /\ Mark(calls[n]) \in Frame
                                   /\ Mark(calls[n]).clean => Kept(vm'.Mem, Mark(calls[n]))
    BY <2>1, <2>3
  <2>. QED
    BY <2>2, <2>3, <2>4
<1>5. Opcode(i) = OP.CALL /\ ~ Bit(i.operands, 5) => called \in Frame /\ Kept(vm'.Mem, called)
  <2>. SUFFICES ASSUME Opcode(i) = OP.CALL, ~ Bit(i.operands, 5)
                PROVE  called \in Frame /\ Kept(vm'.Mem, called)
    OBVIOUS
  <2>1. PICK size \in Int : size = IF Immediate(i) THEN IF Wide(i) THEN 10 ELSE 6 ELSE 2
    OBVIOUS
  <2>2. vm.Ip + size \in Int /\ vm.FramePtr \in Address /\ vm.Gpr[0] \in Words
    <3>1. 0 \in 0 .. 7
      OBVIOUS
    <3>. QED
      BY <1>1, <3>1, FieldTypes
  <2>3. PICK ip \in Address : ip = Natural(vm.Ip + size)
    BY <2>2, NaturalType
  <2>4. called = [Gpr0 |-> vm.Gpr[0], FramePtr |-> vm.FramePtr, Ip |-> ip, clean |-> TRUE]
    BY <2>1, <2>3
  <2>5. called \in Frame
    BY <2>2, <2>4 DEF Frame
  <2>6. PICK k : k = [vm EXCEPT !.Status = "SUCCESS"]
    OBVIOUS
  <2>7. vm'.Mem = ExecuteCALL(k, i).Mem
    BY <1>1, <2>6, ExecuteKeeps, CurrentCALL
  <2>8. /\ called.Gpr0 = k.Gpr[0] /\ called.FramePtr = k.FramePtr
        /\ called.Ip = Natural(k.Ip + (IF Immediate(i) THEN IF Wide(i) THEN 10 ELSE 6 ELSE 2))
        /\ Typed(k)
    BY <1>1, <2>6, StatusReset
  <2>. HIDE DEF called
  <2>. QED
    BY <2>5, <2>7, <2>8, CALLFrame
<1>6. Opcode(i) = OP.RET /\ calls # <<>> => Good(SubSeq(calls, 1, Len(calls) - 1))
  <2>. SUFFICES ASSUME Opcode(i) = OP.RET, calls # <<>>
                PROVE  Good(SubSeq(calls, 1, Len(calls) - 1))
    OBVIOUS
  <2>1. calls \in Seq(Frame) /\ \A n \in DOMAIN calls : calls[n].clean => Kept(vm.Mem, calls[n])
    BY DEF FrameInv
  <2>2. vm'.Mem = vm.Mem
    <3>1. PICK k : k = [vm EXCEPT !.Status = "SUCCESS"]
      OBVIOUS
    <3>2. vm'.Mem = ExecuteRET(k, i).Mem
      BY <1>1, <3>1, ExecuteKeeps, CurrentRET
    <3>3. Typed(k) /\ k.Mem = vm.Mem
      BY <1>1, <3>1, StatusReset
    <3>4. ExecuteRET(k, i).Mem = k.Mem
      BY <3>3, RETMemory
    <3>. QED
      BY <3>2, <3>3, <3>4
  <2>3. /\ SubSeq(calls, 1, Len(calls) - 1) \in Seq(Frame)
        /\ \A n \in DOMAIN SubSeq(calls, 1, Len(calls) - 1) :
             n \in DOMAIN calls /\ SubSeq(calls, 1, Len(calls) - 1)[n] = calls[n]
    BY <2>1
  <2>. QED
    BY <2>1, <2>2, <2>3
<1>. HIDE DEF marked, called
<1>7. Opcode(i) = OP.CALL /\ ~ Bit(i.operands, 5) => Good(Append(marked, called))
  BY <1>4, <1>5
<1>. QED
  BY <1>3, <1>4, <1>6, <1>7

\* Every step keeps what is known of the frames.
LEMMA NextFrames == FrameInv /\ [Next]_vars => FrameInv'
<1>. SUFFICES ASSUME FrameInv, [Next]_vars PROVE FrameInv'
  OBVIOUS
<1>1. TInv'
  BY NextTInv DEF FrameInv
<1>2. /\ calls' \in Seq(Frame)
      /\ \A n \in DOMAIN calls' : calls'[n].clean => Kept(vm'.Mem, calls'[n])
  <2>1. ASSUME calls' = calls, vm'.Mem = vm.Mem
        PROVE  /\ calls' \in Seq(Frame)
               /\ \A n \in DOMAIN calls' : calls'[n].clean => Kept(vm'.Mem, calls'[n])
    BY <2>1 DEF FrameInv
  <2>2. IsContext(vm)
    BY DEF FrameInv, TInv, Typed
  <2>3. CASE InvalidOpcode
    <3>1. PICK d : d = Raise(vm, "INVALID_OPCODE", "FATAL")
      OBVIOUS
    <3>2. IsContext(d) /\ d.Mem = vm.Mem
      BY <2>2, <3>1, RaiseContext DEF SameData
    <3>3. vm' = [d EXCEPT !.Status = "UNSUPPORTED"] /\ calls' = calls
      BY <2>3, <3>1 DEF InvalidOpcode
    <3>4. vm'.Mem = vm.Mem
      BY <3>2, <3>3 DEF IsContext, Fields
    <3>. QED
      BY <2>1, <3>3, <3>4
  <2>4. CASE ProcessorTrap
    <3>1. vm'.Mem = vm.Mem /\ calls' = calls
      BY <2>2, <2>4 DEF ProcessorTrap, IsContext, Fields
    <3>. QED
      BY <2>1, <3>1
  <2>5. CASE UNCHANGED vars
    BY <2>1, <2>5 DEF vars
  <2>. QED
    BY <2>3, <2>4, <2>5, ExecuteFrames DEF Next
<1>. QED
  BY <1>1, <1>2 DEF FrameInv

\* It always holds.
LEMMA AlwaysFrames == Spec => []FrameInv
  BY InitFrames, NextFrames, PTL DEF Spec

\* RET gives back the R0, the frame pointer and the address the CALL it returns
\* from found, however the stack is aligned, calls are nested and addresses wrap,
\* as long as nothing was written over the frame and R0 is back at it: ExecuteCALL
\* and ExecuteRET agree on where the two words of a frame are.
THEOREM CallsReturn == Spec => ReturnRestores
<1>. DEFINE f == calls[Len(calls)]
            Returns == ( /\ Opcode(Current) = OP.RET
                         /\ calls # <<>>
                         /\ f.clean
                         /\ vm.Gpr[0] = f.Gpr0 - 16
                         /\ vm.Gpr[0] # StackRetAddr ) =>
                       /\ vm'.Gpr[0] = f.Gpr0
                       /\ vm'.FramePtr = f.FramePtr
                       /\ vm'.Ip = f.Ip
<1>1. ASSUME FrameInv, [Next]_vars PROVE [Returns]_vars
  <2>1. ASSUME NEW masks \in BOOLEAN, NEW fails \in BOOLEAN, Execute(masks, fails),
               Opcode(Current) = OP.RET, calls # <<>>, f.clean,
               vm.Gpr[0] = f.Gpr0 - 16, vm.Gpr[0] # StackRetAddr
        PROVE  vm'.Gpr[0] = f.Gpr0 /\ vm'.FramePtr = f.FramePtr /\ vm'.Ip = f.Ip
    <3>1. f \in Frame /\ Kept(vm.Mem, f)
      <4>1. Len(calls) \in DOMAIN calls
        BY <1>1, <2>1 DEF FrameInv
      <4>. QED
        BY <1>1, <2>1, <4>1 DEF FrameInv
    <3>2. TInv /\ Typed(vm)
      BY <1>1 DEF FrameInv, TInv
    <3>3. PICK k : k = [vm EXCEPT !.Status = "SUCCESS"]
      OBVIOUS
    <3>4. Typed(k) /\ k.Gpr = vm.Gpr /\ k.Mem = vm.Mem
      BY <3>2, <3>3, StatusReset
    <3>5. /\ vm'.Gpr = ExecuteRET(k, Current).Gpr /\ vm'.Ip = ExecuteRET(k, Current).Ip
          /\ vm'.FramePtr = ExecuteRET(k, Current).FramePtr
      BY <2>1, <3>2, <3>3, ExecuteKeeps, CurrentRET
    <3>. HIDE DEF f
    <3>6. PICK r \in Words : r = f.Gpr0
      BY <3>1 DEF Frame
    <3>7. r \in Int /\ r - 16 \in Int /\ r - 8 \in Int /\ (r - 16) + 16 = r /\ (r - 16) + 8 = r - 8
      BY WordsType
    <3>8. k.Gpr[0] = r - 16
      BY <2>1, <3>4, <3>6
    <3>9. /\ vm'.Gpr[0] = UInt((r - 16) + 16, 8)
          /\ vm'.Ip = Natural(VmReadMem64(vm.Mem, Natural(r - 16)))
          /\ vm'.FramePtr = VmReadMemN(vm.Mem, Natural((r - 16) + 8))
      BY <2>1, <3>4, <3>5, <3>8, RETMemory
    <3>10. vm'.Gpr[0] = r
      BY <3>7, <3>9, WordsType
    <3>11. vm.Mem \in Memories
      BY <3>2, FieldTypes
    <3>12. vm'.FramePtr = f.FramePtr
      <4>1. VmReadMemN(vm.Mem, Natural(r - 8)) = Direct(vm.Mem, r - 8, NATURAL)
        BY <3>7, <3>11, ReadWhole
      <4>. QED
        BY <3>1, <3>6, <3>7, <3>9, <4>1 DEF Kept
    <3>13. vm'.Ip = f.Ip
      <4>1. Natural(r - 16) \in Int /\ 8 \in 0 .. 8
        BY <3>7, IntTypes
      <4>2. VmReadMem64(vm.Mem, Natural(r - 16)) = Direct(vm.Mem, Natural(r - 16), 8)
        BY <3>11, <4>1, ReadParts
      <4>3. Direct(vm.Mem, Natural(r - 16), 8) = Direct(vm.Mem, r - 16, 8)
        BY <3>7, <3>11, <4>1, DirectNatural
      <4>. QED
        BY <3>1, <3>6, <3>9, <4>2, <4>3 DEF Kept
    <3>. QED
      BY <3>6, <3>10, <3>12, <3>13 DEF f
  <2>2. InvalidOpcode => Opcode(Current) # OP.RET
    <3>1. OP.RET = 4
      BY OpcodeNumbers
    <3>2. 4 \notin NoFunction
      BY DEF NoFunction
    <3>. QED
      BY <3>1, <3>2 DEF InvalidOpcode
  <2>3. ProcessorTrap => Opcode(Current) # OP.RET
    BY OpcodeNumbers DEF ProcessorTrap, Traps
  <2>. HIDE DEF f
  <2>. QED
    BY <1>1, <2>1, <2>2, <2>3 DEF Next, f
<1>. QED
  BY <1>1, AlwaysFrames, PTL DEF Spec, ReturnRestores
=============================================================================

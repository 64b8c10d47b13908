--------------------------- MODULE EbcLaws_proofs ---------------------------
(***************************************************************************)
(* Proofs of the laws that relate instructions to each other and to what   *)
(* is kept and shown beside them, for every program, width of a byte and   *)
(* of a natural: the stack tracker is told of every move of R0, the        *)
(* debugger shows the units of an index the interpreter uses, the five     *)
(* comparisons are those of one order, quotient and remainder make up the  *)
(* dividend, and every line of a listing fits.                             *)
(***************************************************************************)
EXTENDS EbcExecute_proofs

-----------------------------------------------------------------------------
(***************************************************************************)
(* The stack tracker: what each function of EbcExecute.c adds to R0 and    *)
(* what it tells the tracker are the same.                                 *)
(***************************************************************************)

\* Tracker t counts what R0 moves by from r to s when it becomes u.
Counts(t, r, u, s) ==
  ( /\ t.On
    /\ t.OrgHeight = 0 /\ u.OrgHeight = 0
    /\ t.Height >= 0 /\ u.Height >= 0
    /\ t.Height = 0 => InPool(Natural(s)) ) =>
  Natural(u.Height - t.Height) = Natural(r - s)

Follows(c, d) == Counts(c.Tracker, c.Gpr[0], d.Tracker, d.Gpr[0])

\* d is c with something done to it, but not to R0 nor to the tracker.
Still(c, d) ==
  /\ IsContext(d) /\ DOMAIN d.Gpr = 0 .. 7
  /\ d.Tracker = c.Tracker /\ d.Gpr[0] = c.Gpr[0]

\* Nothing done is Still.
LEMMA StillItself ==
  ASSUME NEW c, Typed(c)
  PROVE  Still(c, c)
  BY DEF Still, Typed

\* The steps the functions are made of leave R0 and the tracker alone.
LEMMA StillSteps ==
  ASSUME NEW c, NEW d, Still(c, d)
  PROVE  /\ \A type, flag : Still(c, Raise(d, type, flag))
         /\ \A size : Still(c, Advance(d, size))
         /\ \A addr, bytes, x : Still(c, Write(d, addr, bytes, x))
         /\ \A r \in 1 .. 7 : \A x : Still(c, SetReg(d, r, x))
         /\ \A b : Still(c, [d EXCEPT !.CC = b])
         /\ \A a, b : Still(c, [d EXCEPT !.CC = a, !.STEP = b])
         /\ \A s : Still(c, [d EXCEPT !.Status = s])
         /\ \A x : Still(c, [d EXCEPT !.Ip = x])
<1>1. IsContext(d) /\ DOMAIN d.Gpr = 0 .. 7
  BY DEF Still
<1>2. ASSUME NEW e, IsContext(e), e.Tracker = d.Tracker, e.Gpr = d.Gpr
      PROVE  Still(c, e)
  BY <1>2 DEF Still
<1>3. ASSUME NEW x
      PROVE  /\ Still(c, [d EXCEPT !.CC = x]) /\ Still(c, [d EXCEPT !.Status = x])
             /\ Still(c, [d EXCEPT !.Ip = x]) /\ Still(c, [d EXCEPT !.Mem = x])
  BY <1>1, <1>2 DEF IsContext, Fields
<1>4. ASSUME NEW a, NEW b PROVE Still(c, [d EXCEPT !.CC = a, !.STEP = b])
  <2>1. PICK e : e = [d EXCEPT !.CC = a, !.STEP = b]
    OBVIOUS
  <2>2. IsContext(e) /\ e.Tracker = d.Tracker /\ e.Gpr = d.Gpr
    BY <1>1, <2>1 DEF IsContext, Fields
  <2>. QED
    BY <1>2, <2>1, <2>2
<1>5. ASSUME NEW type, NEW flag PROVE Still(c, Raise(d, type, flag))
  <2>1. PICK e : e = Raise(d, type, flag)
    OBVIOUS
  <2>2. IsContext(e) /\ e.Tracker = d.Tracker /\ e.Gpr = d.Gpr
    BY <1>1, <2>1 DEF IsContext, Fields, Raise
  <2>. QED
    BY <1>2, <2>1, <2>2
<1>6. ASSUME NEW size PROVE Still(c, Advance(d, size))
  BY <1>1, <1>2 DEF IsContext, Fields, Advance
<1>7. ASSUME NEW addr, NEW bytes, NEW x PROVE Still(c, Write(d, addr, bytes, x))
  <2>. DEFINE a == Natural(addr)
              v == UInt(x, 8)
  <2>1. PICK mem : mem = CASE bytes = 1   -> VmWriteMem8(d.Mem, a, v)
                           [] bytes = 2   -> VmWriteMem16(d.Mem, a, v)
                           [] bytes = 4   -> VmWriteMem32(d.Mem, a, v)
                           [] bytes = 8   -> VmWriteMem64(d.Mem, a, v)
                           [] bytes = N -> VmWriteMemN(d.Mem, a, Natural(v))
    BY Zenon
  <2>2. Write(d, addr, bytes, x) = [d EXCEPT !.Mem = mem]
    BY <2>1, Zenon DEF Write
  <2>. QED
    BY <1>3, <2>2
<1>8. ASSUME NEW r \in 1 .. 7, NEW x PROVE Still(c, SetReg(d, r, x))
  <2>1. PICK v : v = UInt(x, 8)
    OBVIOUS
  <2>2. PICK g : g = [d.Gpr EXCEPT ![r] = v]
    OBVIOUS
  <2>3. SetReg(d, r, x) = [d EXCEPT !.Gpr = g]
    BY <1>1, <2>1, <2>2 DEF SetReg, IsContext, Fields
  <2>4. DOMAIN g = 0 .. 7 /\ g[0] = d.Gpr[0]
    <3>1. 0 \in 0 .. 7 /\ r # 0
      OBVIOUS
    <3>. QED
      BY <1>1, <2>2, <3>1
  <2>5. PICK e : e = [d EXCEPT !.Gpr = g]
    OBVIOUS
  <2>6. IsContext(e) /\ e.Tracker = d.Tracker /\ e.Gpr = g
    BY <1>1, <2>5 DEF IsContext, Fields
  <2>. QED
    BY <2>3, <2>4, <2>5, <2>6 DEF Still
<1>. QED
  BY <1>3, <1>4, <1>5, <1>6, <1>7, <1>8

\* Where R0 and the tracker stay, the tracker follows.
LEMMA StillFollows ==
  ASSUME NEW c, Typed(c), NEW d, Still(c, d)
  PROVE  Follows(c, d)
<1>1. c.Tracker.Height \in Int /\ c.Gpr[0] \in Int
  <2>1. 0 \in 0 .. 7
    OBVIOUS
  <2>2. c.Gpr[0] \in Int
    BY <2>1, FieldTypes
  <2>. QED
    BY <2>2 DEF Typed, TrackerType
<1>2. c.Tracker.Height - c.Tracker.Height = 0 /\ c.Gpr[0] - c.Gpr[0] = 0
  BY <1>1
<1>. QED
  BY <1>2 DEF Still, Follows, Counts

\* What happens before and after does not matter.
LEMMA FollowsBetween ==
  ASSUME NEW a, NEW b, Still(a, b), NEW c, Follows(b, c), NEW d, Still(c, d)
  PROVE  Follows(a, d)
  BY DEF Still, Follows

\* Naturals and constants that make up the move of R0 are counted.
LEMMA UnitsCounted ==
  ASSUME NEW e, IsContext(e), e.Tracker \in TrackerType, NEW r \in Int, NEW s \in Int,
         NEW n \in Int, NEW k \in Int, Natural(n * NATURAL + k) = Natural(s - r)
  PROVE  Counts(e.Tracker, r, UpdateStackTracker(e, n, k).Tracker, s)
<1>1. PICK t \in TrackerType : t = e.Tracker
  OBVIOUS
<1>2. PICK height \in Int : height = e.Tracker.Height - n * NATURAL - k
  <2>1. e.Tracker.Height \in Int /\ NATURAL \in Int
    BY WidthAssumption DEF TrackerType
  <2>. QED
    BY <2>1
<1>3. UpdateStackTracker(e, n, k) =
        IF ~ t.On THEN e
        ELSE IF height < 0
        THEN [e EXCEPT !.Tracker.Height = -1, !.Status = "UNSUPPORTED"]
        ELSE [e EXCEPT !.Tracker.Height = height]
  BY <1>1, <1>2 DEF UpdateStackTracker
<1>4. CASE ~ t.On
  BY <1>1, <1>4 DEF Counts
<1>5. CASE t.On /\ height < 0
  <2>1. UpdateStackTracker(e, n, k) = [e EXCEPT !.Tracker.Height = -1, !.Status = "UNSUPPORTED"]
    BY <1>3, <1>5
  <2>2. UpdateStackTracker(e, n, k).Tracker.Height = -1
    BY <2>1 DEF IsContext, Fields, TrackerType
  <2>. QED
    BY <2>2 DEF Counts
<1>6. CASE t.On /\ ~ (height < 0)
  <2>1. UpdateStackTracker(e, n, k) = [e EXCEPT !.Tracker.Height = height]
    BY <1>3, <1>6
  <2>2. UpdateStackTracker(e, n, k).Tracker.Height = height
    BY <2>1 DEF IsContext, Fields, TrackerType
  <2>3. PICK m \in Int : m = n * NATURAL + k
    BY WidthAssumption
  <2>4. height - t.Height = 0 - m
    <3>1. t.Height \in Int /\ n * NATURAL \in Int
      BY WidthAssumption DEF TrackerType
    <3>. QED
      BY <1>1, <1>2, <2>3, <3>1
  <2>5. Natural(0 - m) = Natural(0 - (s - r))
    <3>1. 0 \in Int /\ s - r \in Int /\ NATURAL \in Nat
      BY WidthAssumption
    <3>2. UInt(m, NATURAL) = UInt(s - r, NATURAL)
      BY <2>3 DEF Natural
    <3>. QED
      BY <3>1, <3>2, UIntArithmetic DEF Natural
  <2>6. 0 - (s - r) = r - s
    OBVIOUS
  <2>. QED
    BY <1>1, <2>2, <2>4, <2>5, <2>6 DEF Counts
<1>. QED
  BY <1>4, <1>5, <1>6

\* So is the move of R0 to an address, unless the tracker notes that it left the pool.
LEMMA DeltaCounted ==
  ASSUME NEW c, Typed(c), NEW x \in Int, NEW s \in Int, Natural(s) = Natural(x)
  PROVE  Counts(c.Tracker, c.Gpr[0], UpdateStackTrackerFromDelta(c, x).Tracker, s)
<1>1. PICK t \in TrackerType : t = c.Tracker
  BY DEF Typed
<1>2. PICK r \in Int : r = c.Gpr[0]
  <2>1. 0 \in 0 .. 7
    OBVIOUS
  <2>. QED
    BY <2>1, FieldTypes
<1>3. PICK new \in Int : new = Natural(x) /\ new = Natural(s)
  BY IntTypes
<1>4. PICK old \in Int : old = Natural(r)
  BY IntTypes
<1>. DEFINE Delta(y) == SInt(new - y, NATURAL)
            away == [c EXCEPT !.Tracker.OrgHeight = t.Height, !.Tracker.OrgStackPointer = old]
<1>5. SUFFICES ASSUME t.On, t.OrgHeight = 0
               PROVE  Counts(t, r, UpdateStackTrackerFromDelta(c, x).Tracker, s)
  BY <1>1, <1>2 DEF Counts
<1>6. CASE ~ InPool(new)
  <2>1. UpdateStackTrackerFromDelta(c, x) = away
    BY <1>1, <1>2, <1>3, <1>4, <1>5, <1>6 DEF UpdateStackTrackerFromDelta
  <2>2. away.Tracker.OrgHeight = t.Height
    BY <1>1 DEF Typed, IsContext, Fields, TrackerType
  <2>. HIDE DEF away
  <2>. QED
    BY <1>3, <1>6, <2>1, <2>2 DEF Counts
<1>7. CASE InPool(new)
  <2>1. UpdateStackTrackerFromDelta(c, x) = UpdateStackTracker(c, 0, Delta(old))
    BY <1>1, <1>2, <1>3, <1>4, <1>5, <1>7 DEF UpdateStackTrackerFromDelta
  <2>2. PICK k \in Int : k = Delta(old)
    <3>1. new - old \in Int
      OBVIOUS
    <3>. QED
      BY <3>1, IntTypes
  <2>3. Natural(k) = Natural(s - r)
    <3>1. NATURAL \in Nat \ {0} /\ NATURAL \in Nat /\ new - old \in Int
      BY WidthAssumption
    <3>2. UInt(k, NATURAL) = UInt(new - old, NATURAL)
      BY <2>2, <3>1, SIntType
    <3>3. UInt(new, NATURAL) = UInt(s, NATURAL) /\ UInt(old, NATURAL) = UInt(r, NATURAL)
      BY <1>3, <1>4, <3>1, UIntType DEF Natural
    <3>4. UInt(new - old, NATURAL) = UInt(s - r, NATURAL)
      BY <3>1, <3>3, UIntArithmetic
    <3>. QED
      BY <3>2, <3>4 DEF Natural
  <2>4. 0 * NATURAL + k = k /\ 0 \in Int
    BY WidthAssumption
  <2>5. IsContext(c) /\ c.Tracker \in TrackerType
    BY DEF Typed
  <2>6. Counts(c.Tracker, r, UpdateStackTracker(c, 0, k).Tracker, s)
    BY <2>3, <2>4, <2>5, UnitsCounted
  <2>. QED
    BY <1>1, <2>1, <2>2, <2>6
<1>. QED
  BY <1>6, <1>7

\* Setting R0 after the tracker was told of it.
LEMMA R0Followed ==
  ASSUME NEW c, Typed(c), NEW d, IsContext(d), DOMAIN d.Gpr = 0 .. 7, NEW x \in Int,
         Counts(c.Tracker, c.Gpr[0], d.Tracker, UInt(x, 8))
  PROVE  /\ Follows(c, SetReg(d, 0, x))
         /\ IsContext(SetReg(d, 0, x)) /\ DOMAIN SetReg(d, 0, x).Gpr = 0 .. 7
<1>1. PICK v : v = UInt(x, 8)
  OBVIOUS
<1>2. PICK g : g = [d.Gpr EXCEPT ![0] = v]
  OBVIOUS
<1>3. SetReg(d, 0, x) = [d EXCEPT !.Gpr = g]
  BY <1>1, <1>2 DEF SetReg, IsContext, Fields
<1>4. DOMAIN g = 0 .. 7 /\ g[0] = v
  <2>1. 0 \in 0 .. 7
    OBVIOUS
  <2>. QED
    BY <1>2, <2>1
<1>5. PICK e : e = [d EXCEPT !.Gpr = g]
  OBVIOUS
<1>6. IsContext(e) /\ e.Tracker = d.Tracker /\ e.Gpr = g
  BY <1>5 DEF IsContext, Fields
<1>. QED
  BY <1>1, <1>3, <1>4, <1>5, <1>6 DEF Follows

\* A context that told the tracker of a move to an address before it set R0.
LEMMA TrackedFollows ==
  ASSUME NEW c, Typed(c), NEW x \in Int, NEW y \in Int, Natural(y) = Natural(x)
  PROVE  LET d == SetReg(UpdateStackTrackerFromDelta(c, x), 0, y)
         IN Follows(c, d) /\ Still(d, d)
<1>1. PICK d : d = UpdateStackTrackerFromDelta(c, x)
  OBVIOUS
<1>2. Typed(d)
  BY <1>1, TrackerTyped
<1>3. UInt(y, 8) \in Int /\ Natural(UInt(y, 8)) = Natural(x)
  <2>1. NATURAL \in Nat /\ 8 \in Nat /\ NATURAL <= 8
    BY WidthAssumption
  <2>. QED
    BY <2>1, IntTypes, UIntNested DEF Natural
<1>4. Counts(c.Tracker, c.Gpr[0], d.Tracker, UInt(y, 8))
  BY <1>1, <1>3, DeltaCounted
<1>5. IsContext(d) /\ DOMAIN d.Gpr = 0 .. 7
  BY <1>2 DEF Typed
<1>. QED
  BY <1>1, <1>4, <1>5, R0Followed DEF Still

\* The tracker follows, or the context has stopped.
Followed(c, d) == d.Done \/ Follows(c, d)

\* Where nothing moved, nothing has to be told.
LEMMA StillFollowed ==
  ASSUME NEW c, Typed(c), NEW d, Still(c, d)
  PROVE  Followed(c, d)
  BY StillFollows DEF Followed

\* JMP, JMP8 and BREAK do not move R0.
LEMMA JumpStill ==
  ASSUME NEW c, Typed(c), NEW i, NEW fails
  PROVE  /\ Still(c, ExecuteJMP(c, i)) /\ Still(c, ExecuteJMP8(c, i))
         /\ Still(c, ExecuteBREAK(c, i, fails))
<1>1. Still(c, c)
  BY StillItself
<1>2. ASSUME NEW d, Still(c, d), NEW type, NEW flag, NEW s
      PROVE  Still(c, [Raise(d, type, flag) EXCEPT !.Status = s])
  <2>1. PICK e : e = Raise(d, type, flag)
    OBVIOUS
  <2>2. Still(c, e)
    BY <1>2, <2>1, StillSteps
  <2>. QED
    BY <2>1, <2>2, StillSteps
<1>3. \A size : Still(c, Advance(c, size))
  BY <1>1, StillSteps
<1>4. ASSUME NEW addr PROVE Still(c, JumpTo(c, i, addr))
  <2>1. PICK a : a = Natural(addr)
    OBVIOUS
  <2>2. PICK d : d = [Raise(c, "ALIGNMENT_CHECK", "FATAL") EXCEPT !.Status = "UNSUPPORTED"]
    OBVIOUS
  <2>3. PICK e : e = [c EXCEPT !.Ip = a]
    OBVIOUS
  <2>4. JumpTo(c, i, addr) \in {d, Advance(c, a + JmpLen(i)), e}
    BY <2>1, <2>2, <2>3 DEF JumpTo
  <2>5. Still(c, d) /\ Still(c, e)
    BY <1>1, <1>2, <2>2, <2>3, StillSteps
  <2>. QED
    BY <1>3, <2>4, <2>5
<1>5. Still(c, ExecuteJMP(c, i))
  <2>1. PICK base : base = (IF OPERAND1_REGNUM(i) = 0 THEN 0 ELSE c.Gpr[OPERAND1_REGNUM(i)]) + Target32(i)
    OBVIOUS
  <2>2. PICK a : a = IF OPERAND1_INDIRECT(i) THEN VmReadMemN(c.Mem, Natural(base)) ELSE base
    OBVIOUS
  <2>3. PICK d : d = [Raise(c, "INSTRUCTION_ENCODING", "ERROR") EXCEPT !.Status = "UNSUPPORTED"]
    OBVIOUS
  <2>4. ExecuteJMP(c, i) = IF NotTaken(c, i.operands) THEN Advance(c, JmpLen(i))
                           ELSE IF Wide(i) /\ ~ Immediate(i) THEN d
                           ELSE IF Wide(i) THEN JumpTo(c, i, i.data[1]) ELSE JumpTo(c, i, a)
    BY <2>1, <2>2, <2>3 DEF ExecuteJMP
  <2>5. Still(c, d)
    BY <1>1, <1>2, <2>3
  <2>. QED
    BY <1>3, <1>4, <2>4, <2>5
<1>6. Still(c, ExecuteJMP8(c, i))
  BY <1>3 DEF ExecuteJMP8
<1>7. Still(c, ExecuteBREAK(c, i, fails))
  <2>1. PICK d : d = SetReg(c, 7, 1)
    OBVIOUS
  <2>2. PICK e : e = Raise(c, "BREAKPOINT", "NONE")
    OBVIOUS
  <2>3. PICK b : b = Raise(c, "BAD_BREAK", "FATAL")
    OBVIOUS
  <2>4. PICK w : w = Write(c, c.Gpr[7], 8, 2)
    OBVIOUS
  <2>5. PICK f : f = [c EXCEPT !.Status = "OUT_OF_RESOURCES"]
    OBVIOUS
  <2>6. \/ ExecuteBREAK(c, i, fails) = f
        \/ \E x \in {c, d, e, b, w} : ExecuteBREAK(c, i, fails) = Advance(x, 2)
    <3>1. ExecuteBREAK(c, i, fails) =
            CASE i.operands = 1 -> Advance(d, 2)
              [] i.operands = 3 -> Advance(e, 2)
              [] i.operands \in {4, 6} -> Advance(c, 2)
              [] i.operands = 5 -> IF fails THEN f ELSE Advance(w, 2)
              [] OTHER -> Advance(b, 2)
      BY <2>1, <2>2, <2>3, <2>4, <2>5, Zenon DEF ExecuteBREAK
    <3>. QED
      BY <3>1
  <2>7. 7 \in 1 .. 7
    OBVIOUS
  <2>8. Still(c, d) /\ Still(c, e) /\ Still(c, b) /\ Still(c, w) /\ Still(c, f)
    BY <1>1, <2>1, <2>2, <2>3, <2>4, <2>5, <2>7, StillSteps
  <2>9. \A x \in {c, d, e, b, w} : Still(c, Advance(x, 2))
    <3>1. ASSUME NEW x, Still(c, x) PROVE Still(c, Advance(x, 2))
      BY <3>1, StillSteps
    <3>. QED
      BY <1>1, <2>8, <3>1
  <2>. QED
    BY <2>6, <2>8, <2>9
<1>. QED
  BY <1>5, <1>6, <1>7

\* CMP and CMPI do not either.
LEMMA CompareStill ==
  ASSUME NEW c, Typed(c), NEW i
  PROVE  Still(c, ExecuteCMP(c, i)) /\ Still(c, ExecuteCMPI(c, i))
<1>1. Still(c, c)
  BY StillItself
<1>2. \A b, size : Still(c, Advance([c EXCEPT !.CC = b], size))
  <2>. SUFFICES ASSUME NEW b, NEW size PROVE Still(c, Advance([c EXCEPT !.CC = b], size))
    OBVIOUS
  <2>1. PICK d : d = [c EXCEPT !.CC = b]
    OBVIOUS
  <2>2. Still(c, d)
    BY <1>1, <2>1, StillSteps
  <2>. QED
    BY <2>1, <2>2, StillSteps
<1>3. \E b, size : ExecuteCMP(c, i) = Advance([c EXCEPT !.CC = b], size)
  BY Zenon DEF ExecuteCMP
<1>4. \/ \E b, size : ExecuteCMPI(c, i) = Advance([c EXCEPT !.CC = b], size)
      \/ \E size : ExecuteCMPI(c, i) = [Advance(Raise(c, "INSTRUCTION_ENCODING", "ERROR"), size)
                                          EXCEPT !.Status = "UNSUPPORTED"]
  <2>. DEFINE width   == IF Wide(i) THEN 8 ELSE 4
              indexed == Bit(i.operands, 4)
              index   == IndexAt(i, indexed, 1, 2)
              bytes   == IF Immediate(i) THEN 4 ELSE 2
              size    == 2 + (IF indexed THEN 2 ELSE 0)
              r1      == c.Gpr[OPERAND1_REGNUM(i)]
              x       == IF OPERAND1_INDIRECT(i)
                         THEN VmReadMem(c.Mem, r1 + index.Offset, width) ELSE r1
              y       == SInt(i.data[IF indexed THEN 2 ELSE 1], bytes)
  <2>1. PICK b : b = Compares(Opcode(i) - OP.CMPIEQ, SInt(x, width), y, UInt(x, width), UInt(y, 4))
    OBVIOUS
  <2>2. ExecuteCMPI(c, i) = IF indexed /\ ~ OPERAND1_INDIRECT(i)
                            THEN [Advance(Raise(c, "INSTRUCTION_ENCODING", "ERROR"), size)
                                    EXCEPT !.Status = "UNSUPPORTED"]
                            ELSE Advance([c EXCEPT !.CC = b], size + bytes)
    BY <2>1, Zenon DEF ExecuteCMPI
  <2>. QED
    BY <2>2, Zenon
<1>5. \A size : Still(c, [Advance(Raise(c, "INSTRUCTION_ENCODING", "ERROR"), size)
                            EXCEPT !.Status = "UNSUPPORTED"])
  <2>. SUFFICES ASSUME NEW size
                PROVE  Still(c, [Advance(Raise(c, "INSTRUCTION_ENCODING", "ERROR"), size)
                                   EXCEPT !.Status = "UNSUPPORTED"])
    OBVIOUS
  <2>1. PICK d : d = Raise(c, "INSTRUCTION_ENCODING", "ERROR")
    OBVIOUS
  <2>2. PICK e : e = Advance(d, size)
    OBVIOUS
  <2>3. Still(c, d)
    BY <1>1, <2>1, StillSteps
  <2>4. Still(c, e)
    BY <2>2, <2>3, StillSteps
  <2>. QED
    BY <2>1, <2>2, <2>4, StillSteps
<1>6. Still(c, ExecuteCMP(c, i))
  BY <1>2, <1>3, Zenon
<1>7. Still(c, ExecuteCMPI(c, i))
  BY <1>2, <1>4, <1>5, Zenon
<1>. QED
  BY <1>6, <1>7

\* Nor do LOADSP, and STORESP to another register.
LEMMA DedicatedStill ==
  ASSUME NEW c, Typed(c), NEW i, WellFormed(i)
  PROVE  /\ Still(c, ExecuteLOADSP(c, i))
         /\ OPERAND1_REGNUM(i) # 0 => Still(c, ExecuteSTORESP(c, i))
<1>1. Still(c, c)
  BY StillItself
<1>2. PICK d : d = [Advance(Raise(c, "INSTRUCTION_ENCODING", "WARNING"), 2)
                      EXCEPT !.Status = "UNSUPPORTED"]
  OBVIOUS
<1>3. Still(c, d)
  <2>1. PICK e : e = Raise(c, "INSTRUCTION_ENCODING", "WARNING")
    OBVIOUS
  <2>2. PICK f : f = Advance(e, 2)
    OBVIOUS
  <2>3. Still(c, e)
    BY <1>1, <2>1, StillSteps
  <2>4. Still(c, f)
    BY <2>2, <2>3, StillSteps
  <2>. QED
    BY <1>2, <2>1, <2>2, <2>4, StillSteps
<1>4. Still(c, ExecuteLOADSP(c, i))
  <2>1. PICK flags : flags = c.Gpr[OPERAND2_REGNUM(i)]
    OBVIOUS
  <2>2. PICK e : e = [c EXCEPT !.CC = Bit(flags, 0), !.STEP = Bit(flags, 1)]
    OBVIOUS
  <2>3. ExecuteLOADSP(c, i) = IF OPERAND1_REGNUM(i) = 0 THEN Advance(e, 2) ELSE d
    BY <1>2, <2>1, <2>2 DEF ExecuteLOADSP
  <2>4. Still(c, e)
    BY <1>1, <2>2, StillSteps
  <2>5. Still(c, Advance(e, 2))
    BY <2>4, StillSteps
  <2>. QED
    BY <1>3, <2>3, <2>5
<1>5. OPERAND1_REGNUM(i) # 0 => Still(c, ExecuteSTORESP(c, i))
  <2>. SUFFICES ASSUME OPERAND1_REGNUM(i) # 0 PROVE Still(c, ExecuteSTORESP(c, i))
    OBVIOUS
  <2>1. PICK r \in 1 .. 7 : r = OPERAND1_REGNUM(i)
    BY Registers
  <2>2. PICK x : x = IF OPERAND2_REGNUM(i) = 0 THEN FlagsWord(c) ELSE c.Ip + 2
    OBVIOUS
  <2>3. PICK e : e = SetReg(c, r, x)
    OBVIOUS
  <2>4. ExecuteSTORESP(c, i) = IF OPERAND2_REGNUM(i) \in {0, 1} THEN Advance(e, 2) ELSE d
    BY <1>2, <2>1, <2>2, <2>3 DEF ExecuteSTORESP
  <2>5. Still(c, e)
    BY <1>1, <2>3, StillSteps
  <2>6. Still(c, Advance(e, 2))
    BY <2>5, StillSteps
  <2>. QED
    BY <1>3, <2>4, <2>6
<1>. QED
  BY <1>4, <1>5

\* A context with an encoding exception has stopped.
LEMMA EncodingDone ==
  ASSUME NEW c, IsContext(c)
  PROVE  Encoding(c).Done
<1>1. PICK d : d = Raise(c, "INSTRUCTION_ENCODING", "FATAL")
  OBVIOUS
<1>2. IsContext(d) /\ d.Done
  BY <1>1, RaiseContext
<1>. QED
  BY <1>1, <1>2 DEF Encoding, IsContext, Fields

\* An advance at the end changes nothing of it.
LEMMA AdvanceFollows ==
  ASSUME NEW c, Typed(c), NEW d, Follows(c, d), Still(d, d), NEW size
  PROVE  Follows(c, Advance(d, size))
<1>1. Still(d, Advance(d, size))
  BY StillSteps
<1>2. Still(c, c)
  BY StillItself
<1>. QED
  BY <1>1, <1>2, FollowsBetween

\* What is stored in memory does not move R0.
LEMMA StoreFollows ==
  ASSUME NEW c, Typed(c), NEW d, Still(c, d), NEW addr, NEW bytes, NEW x, NEW size
  PROVE  Follows(c, Advance(Write(d, addr, bytes, x), size))
<1>1. PICK e : e = Write(d, addr, bytes, x)
  OBVIOUS
<1>2. Still(c, e)
  BY <1>1, StillSteps
<1>3. Still(c, Advance(e, size))
  BY <1>2, StillSteps
<1>. QED
  BY <1>1, <1>3, StillFollows

\* A register set with the help of the tracker is followed if it is R0.
LEMMA SetTrackedFollows ==
  ASSUME NEW c, Typed(c), NEW r \in 0 .. 7, NEW x \in Int, NEW size
  PROVE  Follows(c, Advance(SetTracked(c, r, x), size))
<1>1. CASE r = 0
  <2>1. PICK d : d = SetReg(UpdateStackTrackerFromDelta(c, x), 0, x)
    OBVIOUS
  <2>2. Follows(c, d) /\ Still(d, d)
    BY <2>1, TrackedFollows
  <2>3. SetTracked(c, r, x) = d
    BY <1>1, <2>1 DEF SetTracked
  <2>. QED
    BY <2>2, <2>3, AdvanceFollows
<1>2. CASE r # 0
  <2>1. PICK d : d = SetReg(c, r, x)
    OBVIOUS
  <2>2. r \in 1 .. 7
    BY <1>2
  <2>3. Still(c, d)
    BY <2>1, <2>2, StillItself, StillSteps
  <2>4. Still(c, Advance(d, size))
    BY <2>3, StillSteps
  <2>5. SetTracked(c, r, x) = d
    BY <1>2, <2>1 DEF SetTracked
  <2>. QED
    BY <2>4, <2>5, StillFollows
<1>. QED
  BY <1>1, <1>2

\* The part MOVI, MOVIn and MOVREL have in common tells the tracker.
LEMMA MoveImmediateFollows ==
  ASSUME NEW c, Typed(c), NEW i, WellFormed(i), NEW x, DataWidth(i) # 0 => x \in Int,
         NEW bytes, NEW mask \in {1, 2, 4, 8}
  PROVE  Followed(c, MoveImmediate(c, i, x, bytes, mask))
<1>. DEFINE d == MoveImmediate(c, i, x, bytes, mask)
<1>1. \E addr, size :
        \/ d = Encoding(c)
        \/ d = Advance(Write(c, addr, bytes, x), size)
        \/ DataWidth(i) # 0 /\ d = Advance(SetTracked(c, OPERAND1_REGNUM(i), UInt(x, mask)), size)
  BY Zenon DEF MoveImmediate
<1>. HIDE DEF d
<1>2. d = Encoding(c) => Followed(c, d)
  BY EncodingDone DEF Followed, Typed
<1>3. ASSUME NEW addr, NEW size, d = Advance(Write(c, addr, bytes, x), size)
      PROVE  Followed(c, d)
  BY <1>3, StillItself, StoreFollows DEF Followed
<1>4. ASSUME NEW size, DataWidth(i) # 0,
             d = Advance(SetTracked(c, OPERAND1_REGNUM(i), UInt(x, mask)), size)
      PROVE  Followed(c, d)
  <2>1. UInt(x, mask) \in Int
    BY <1>4, IntTypes
  <2>2. OPERAND1_REGNUM(i) \in 0 .. 7
    BY Registers
  <2>. QED
    BY <1>4, <2>1, <2>2, SetTrackedFollows DEF Followed
<1>5. Followed(c, d)
  BY <1>1, <1>2, <1>3, <1>4
<1>. QED
  BY <1>5 DEF d

\* So do the three.
LEMMA MoveImmediatesFollow ==
  ASSUME NEW c, Typed(c), NEW i, WellFormed(i)
  PROVE  /\ Opcode(i) = 55 => Followed(c, ExecuteMOVI(c, i))
         /\ Opcode(i) = 56 => Followed(c, ExecuteMOVIn(c, i))
         /\ Opcode(i) = 57 => Followed(c, ExecuteMOVREL(c, i))
<1>1. PICK bytes \in {0, 2, 4, 8} : bytes = DataWidth(i)
  BY Registers
<1>2. ASSUME Opcode(i) \in {55, 57}, bytes # 0 PROVE SInt(Datum(i), bytes) \in Int
  <2>1. Datum(i) \in DataOf(0)
    BY <1>1, <1>2, DataTyped
  <2>2. PICK x \in Int : x = Datum(i)
    BY <2>1, DataKinds
  <2>. QED
    BY <1>2, <2>2, IntTypes
<1>3. ASSUME Opcode(i) = 55 PROVE Followed(c, ExecuteMOVI(c, i))
  <2>1. PICK width \in {1, 2, 4, 8} : width = 2^((i.operands \div 16) % 4)
    <3>1. PICK k \in 0 .. 3 : k = (i.operands \div 16) % 4
      BY DEF WellFormed
    <3>2. 2^0 = 1 /\ 2^1 = 2 /\ 2^2 = 4 /\ 2^3 = 8
      OBVIOUS
    <3>3. \A j \in 0 .. 3 : 2^j \in {1, 2, 4, 8}
      <4>1. \A j \in 0 .. 3 : j = 0 \/ j = 1 \/ j = 2 \/ j = 3
        OBVIOUS
      <4>. QED
        BY <3>2, <4>1, Zenon
    <3>. QED
      BY <3>1, <3>3, Zenon
  <2>2. ExecuteMOVI(c, i) = MoveImmediate(c, i, SInt(Datum(i), bytes), width, width)
    BY <1>1, <2>1, Zenon DEF ExecuteMOVI
  <2>. QED
    BY <1>1, <1>2, <1>3, <2>2, MoveImmediateFollows
<1>4. ASSUME Opcode(i) = 56 PROVE Followed(c, ExecuteMOVIn(c, i))
  <2>1. DataWidth(i) # 0 => VmReadIndex(Datum(i), DataWidth(i)).Offset \in Int
    BY <1>1, <1>4, DataTyped, DataKinds
  <2>2. 8 \in {1, 2, 4, 8}
    OBVIOUS
  <2>. QED
    BY <2>1, <2>2, MoveImmediateFollows DEF ExecuteMOVIn
<1>5. ASSUME Opcode(i) = 57 PROVE Followed(c, ExecuteMOVREL(c, i))
  <2>1. PICK size \in Int : size = 2 + (IF Bit(i.operands, 6) THEN 2 ELSE 0) + bytes
    OBVIOUS
  <2>2. bytes # 0 => c.Ip + SInt(Datum(i), bytes) + size \in Int
    BY <1>2, <1>5, FieldTypes
  <2>3. ExecuteMOVREL(c, i) = MoveImmediate(c, i, c.Ip + SInt(Datum(i), bytes) + size, N, 8)
    BY <1>1, <2>1, Zenon DEF ExecuteMOVREL
  <2>4. 8 \in {1, 2, 4, 8}
    OBVIOUS
  <2>. QED
    BY <1>1, <2>2, <2>3, <2>4, MoveImmediateFollows
<1>. QED
  BY <1>3, <1>4, <1>5

\* So do MOVsnw and MOVsnd.
LEMMA MoveSignedFollows ==
  ASSUME NEW c, Typed(c), NEW i, WellFormed(i), NEW width \in {2, 4},
         Opcode(i) = (IF width = 2 THEN 37 ELSE 38)
  PROVE  Followed(c, MoveSigned(c, i, width))
<1>. DEFINE d == MoveSigned(c, i, width)
<1>1. PICK r1 \in 0 .. 7, r2 \in 0 .. 7 : r1 = OPERAND1_REGNUM(i) /\ r2 = OPERAND2_REGNUM(i)
  BY Registers
<1>2. PICK has1, has2 \in BOOLEAN : has1 = Bit(i.opcode, 7) /\ has2 = Bit(i.opcode, 6)
  BY DEF Bit
<1>3. PICK datum : datum = i.data[IF has1 THEN 2 ELSE 1]
  OBVIOUS
<1>4. width \in {2, 4, 8} /\ width \in {1, 2, 4, 8}
  OBVIOUS
<1>5. has2 => datum \in DataOf(IF OPERAND2_INDIRECT(i) THEN width ELSE 0)
  BY <1>2, <1>3, DataTyped
<1>6. PICK offset \in Int :
        offset = IF ~ has2 THEN 0
                 ELSE IF OPERAND2_INDIRECT(i) THEN VmReadIndex(datum, width).Offset
                 ELSE SInt(datum, width)
  <2>1. has2 /\ OPERAND2_INDIRECT(i) => VmReadIndex(datum, width).Offset \in Int
    BY <1>4, <1>5, DataKinds
  <2>2. has2 /\ ~ OPERAND2_INDIRECT(i) => datum \in Int
    BY <1>5, DataKinds
  <2>3. has2 /\ ~ OPERAND2_INDIRECT(i) => SInt(datum, width) \in Int
    BY <1>4, <2>2, IntTypes
  <2>. QED
    BY <2>1, <2>3
<1>7. PICK size \in Int : size = 2 + (IF has1 THEN width ELSE 0) + (IF has2 THEN width ELSE 0)
  OBVIOUS
<1>8. PICK addr : addr = c.Gpr[r1] + IndexAt(i, has1, 1, width).Offset
  OBVIOUS
<1>9. PICK g2 \in Int : g2 = c.Gpr[r2]
  BY FieldTypes
<1>10. PICK sum \in Int : sum = SInt(g2 + offset, NATURAL)
  <2>1. g2 + offset \in Int
    OBVIOUS
  <2>. QED
    BY <2>1, IntTypes
<1>11. PICK value \in Int :
         value = IF OPERAND2_INDIRECT(i) THEN SInt(VmReadMemN(c.Mem, Natural(sum)), NATURAL) ELSE sum
  BY NaturalReadTyped, IntTypes
<1>12. d = IF has1 /\ ~ OPERAND1_INDIRECT(i) THEN Encoding(c)
           ELSE Advance(IF OPERAND1_INDIRECT(i) THEN Write(c, addr, N, value)
                        ELSE SetTracked(c, r1, value), size)
  BY <1>1, <1>2, <1>3, <1>6, <1>7, <1>8, <1>9, <1>10, <1>11, ZenonT(60) DEF MoveSigned
<1>13. Encoding(c).Done
  BY EncodingDone DEF Typed
<1>14. Follows(c, Advance(Write(c, addr, N, value), size))
  BY StillItself, StoreFollows
<1>15. Follows(c, Advance(SetTracked(c, r1, value), size))
  BY SetTrackedFollows
<1>. HIDE DEF d
<1>16. Followed(c, d)
  BY <1>12, <1>13, <1>14, <1>15 DEF Followed
<1>. QED
  BY <1>16 DEF d

\* Naturals and constants that come to the move of R0, told after it, are counted.
LEMMA MoveCounted ==
  ASSUME NEW c, Typed(c), NEW r0 \in Int, NEW d, IsContext(d), d.Tracker = c.Tracker,
         d.Gpr[0] = UInt(r0, 8), NEW n \in Int, NEW k \in Int,
         Natural(n * NATURAL + k) = Natural(r0 - c.Gpr[0])
  PROVE  Follows(c, UpdateStackTracker(d, n, k))
<1>1. PICK g0 \in Int : g0 = c.Gpr[0]
  <2>1. 0 \in 0 .. 7
    OBVIOUS
  <2>. QED
    BY <2>1, FieldTypes
<1>2. PICK s \in Int : s = UInt(r0, 8)
  BY IntTypes
<1>3. Natural(n * NATURAL + k) = Natural(s - g0)
  <2>1. NATURAL \in Nat /\ 8 \in Nat /\ NATURAL <= 8
    BY WidthAssumption
  <2>2. UInt(s, NATURAL) = UInt(r0, NATURAL)
    BY <1>2, <2>1, UIntNested
  <2>3. UInt(s - g0, NATURAL) = UInt(r0 - g0, NATURAL)
    <3>1. PICK w \in Nat : w = NATURAL
      BY <2>1
    <3>2. PICK h \in Int : h = g0
      OBVIOUS
    <3>3. UInt(s, w) = UInt(r0, w) /\ UInt(g0, w) = UInt(h, w)
      BY ONLY <2>2, <3>1, <3>2
    <3>4. UInt(s - g0, w) = UInt(r0 - h, w)
      BY ONLY <3>3, w \in Nat, s \in Int, r0 \in Int, g0 \in Int, h \in Int, UIntArithmetic
    <3>. QED
      BY ONLY <3>1, <3>2, <3>4, Zenon
  <2>. QED
    BY <1>1, <2>3 DEF Natural
<1>4. d.Tracker \in TrackerType
  BY DEF Typed
<1>5. PICK e : e = UpdateStackTracker(d, n, k)
  OBVIOUS
<1>6. Counts(d.Tracker, g0, e.Tracker, s)
  BY <1>3, <1>4, <1>5, UnitsCounted
<1>7. e.Gpr = d.Gpr
  BY <1>5, TrackerContext DEF SameData
<1>. QED
  BY <1>1, <1>2, <1>5, <1>6, <1>7 DEF Follows

\* R0 is moved by an instruction that tells the tracker afterwards.
LEMMA R0Moved ==
  ASSUME NEW c, Typed(c), NEW length \in Int, NEW r0 \in Int, NEW d,
         d = SetReg(Advance(c, length), 0, r0)
  PROVE  Still(d, d) /\ d.Tracker = c.Tracker /\ d.Gpr[0] = UInt(r0, 8)
<1>1. PICK a : a = Advance(c, length)
  OBVIOUS
<1>2. Still(c, a)
  BY <1>1, StillItself, StillSteps
<1>3. PICK v : v = UInt(r0, 8)
  OBVIOUS
<1>4. PICK g : g = [a.Gpr EXCEPT ![0] = v]
  OBVIOUS
<1>5. IsContext(a) /\ DOMAIN a.Gpr = 0 .. 7 /\ a.Tracker = c.Tracker
  BY <1>2 DEF Still
<1>6. d = [a EXCEPT !.Gpr = g]
  BY <1>1, <1>3, <1>4, <1>5 DEF SetReg, IsContext, Fields
<1>7. DOMAIN g = 0 .. 7 /\ g[0] = v
  <2>1. 0 \in 0 .. 7
    OBVIOUS
  <2>. QED
    BY <1>4, <1>5, <2>1
<1>8. IsContext(d) /\ d.Tracker = a.Tracker /\ d.Gpr = g
  BY <1>5, <1>6 DEF IsContext, Fields
<1>. QED
  BY <1>3, <1>5, <1>7, <1>8 DEF Still

\* A push moves R0 down by its size and tells the tracker the same.
LEMMA PushMoves ==
  ASSUME NEW c, Typed(c), NEW i, NEW bytes, NEW size \in {4, 8}, NEW n \in Int, NEW k \in Int,
         n * NATURAL + k = -size
  PROVE  Follows(c, UpdateStackTracker(Push(c, i, bytes, size), n, k))
<1>1. PICK g0 \in Int : g0 = c.Gpr[0]
  <2>1. 0 \in 0 .. 7
    OBVIOUS
  <2>. QED
    BY <2>1, FieldTypes
<1>2. PICK r0 \in Int, length \in Int : r0 = g0 - size /\ length = IF Immediate(i) THEN 4 ELSE 2
  OBVIOUS
<1>3. PICK operand : operand = c.Gpr[OPERAND1_REGNUM(i)] + StackOffset(i)
  OBVIOUS
<1>4. PICK cut : cut = UInt(IF OPERAND1_INDIRECT(i) THEN Read(c, operand, bytes) ELSE operand, size)
  OBVIOUS
<1>5. PICK d : d = SetReg(Advance(c, length), 0, r0)
  OBVIOUS
<1>6. Push(c, i, bytes, size) = Write(d, r0, bytes, cut)
  BY <1>1, <1>2, <1>3, <1>4, <1>5, ZenonT(60) DEF Push
<1>7. Still(d, d) /\ d.Tracker = c.Tracker /\ d.Gpr[0] = UInt(r0, 8)
  BY <1>5, R0Moved
<1>8. PICK e : e = Write(d, r0, bytes, cut)
  OBVIOUS
<1>9. Still(d, e)
  BY <1>7, <1>8, StillSteps
<1>10. IsContext(e) /\ e.Tracker = c.Tracker /\ e.Gpr[0] = UInt(r0, 8)
  BY <1>7, <1>9 DEF Still
<1>11. Natural(n * NATURAL + k) = Natural(r0 - c.Gpr[0])
  <2>1. r0 - g0 = -size
    BY <1>2
  <2>. QED
    BY <1>1, <2>1
<1>. QED
  BY <1>6, <1>8, <1>10, <1>11, MoveCounted

\* A pop moves it up, if what it pops is not R0.
LEMMA PopMoves ==
  ASSUME NEW c, Typed(c), NEW i, WellFormed(i), OPERAND1_REGNUM(i) # 0, NEW bytes,
         NEW size \in {4, 8}, NEW extended, NEW n \in Int, NEW k \in Int, n * NATURAL + k = size
  PROVE  Follows(c, UpdateStackTracker(Pop(c, i, bytes, size, extended), n, k))
<1>1. PICK g0 \in Int : g0 = c.Gpr[0]
  <2>1. 0 \in 0 .. 7
    OBVIOUS
  <2>. QED
    BY <2>1, FieldTypes
<1>2. PICK r0 \in Int, length \in Int : r0 = g0 + size /\ length = IF Immediate(i) THEN 4 ELSE 2
  OBVIOUS
<1>3. PICK d : d = SetReg(Advance(c, length), 0, r0)
  OBVIOUS
<1>4. PICK r1 \in 1 .. 7 : r1 = OPERAND1_REGNUM(i)
  BY Registers
<1>5. PICK addr : addr = d.Gpr[r1] + StackOffset(i)
  OBVIOUS
<1>6. PICK value : value = Read(c, g0, bytes)
  OBVIOUS
<1>7. Pop(c, i, bytes, size, extended) =
        IF OPERAND1_INDIRECT(i) THEN Write(d, addr, bytes, value) ELSE SetReg(d, r1, extended)
  BY <1>1, <1>2, <1>3, <1>4, <1>5, <1>6, ZenonT(60) DEF Pop
<1>8. Still(d, d) /\ d.Tracker = c.Tracker /\ d.Gpr[0] = UInt(r0, 8)
  BY <1>3, R0Moved
<1>9. Still(d, Write(d, addr, bytes, value)) /\ Still(d, SetReg(d, r1, extended))
  BY <1>8, StillSteps
<1>10. PICK e : e = Pop(c, i, bytes, size, extended)
  OBVIOUS
<1>11. Still(d, e)
  BY <1>7, <1>9, <1>10
<1>12. IsContext(e) /\ e.Tracker = c.Tracker /\ e.Gpr[0] = UInt(r0, 8)
  BY <1>8, <1>11 DEF Still
<1>13. Natural(n * NATURAL + k) = Natural(r0 - c.Gpr[0])
  <2>1. r0 - g0 = size
    BY <1>2
  <2>. QED
    BY <1>1, <2>1
<1>. QED
  BY <1>10, <1>12, <1>13, MoveCounted

\* PUSH, POP, PUSHn and POPn tell the tracker.
LEMMA StackFollows ==
  ASSUME NEW c, Typed(c), NEW i, WellFormed(i)
  PROVE  /\ Follows(c, ExecutePUSH(c, i)) /\ Follows(c, ExecutePUSHn(c, i))
         /\ OPERAND1_REGNUM(i) # 0 =>
              Follows(c, ExecutePOP(c, i)) /\ Follows(c, ExecutePOPn(c, i))
<1>1. PICK size \in {4, 8} : size = IF Wide(i) THEN 8 ELSE 4
  OBVIOUS
<1>2. /\ size \in Int /\ -size \in Int /\ 0 \in Int /\ 1 \in Int /\ -1 \in Int
      /\ NATURAL \in {4, 8}
  BY WidthAssumption
<1>3. /\ 0 * NATURAL + (-size) = -size /\ (-1) * NATURAL + 0 = -NATURAL
      /\ 0 * NATURAL + size = size /\ 1 * NATURAL + 0 = NATURAL
  BY WidthAssumption
<1>4. PICK narrow : narrow = SInt(Read(c, c.Gpr[0], size), size) + StackOffset(i)
  OBVIOUS
<1>5. PICK natural : natural = Natural(Read(c, c.Gpr[0], N) + StackOffset(i))
  OBVIOUS
<1>6. /\ ExecutePUSH(c, i) = UpdateStackTracker(Push(c, i, size, size), 0, -size)
      /\ ExecutePUSHn(c, i) = UpdateStackTracker(Push(c, i, N, NATURAL), -1, 0)
      /\ ExecutePOP(c, i) = UpdateStackTracker(Pop(c, i, size, size, narrow), 0, size)
      /\ ExecutePOPn(c, i) = UpdateStackTracker(Pop(c, i, N, NATURAL, natural), 1, 0)
  BY <1>1, <1>4, <1>5, Zenon DEF ExecutePUSH, ExecutePUSHn, ExecutePOP, ExecutePOPn
<1>7. Follows(c, UpdateStackTracker(Push(c, i, size, size), 0, -size))
  BY <1>2, <1>3, PushMoves
<1>8. Follows(c, UpdateStackTracker(Push(c, i, N, NATURAL), -1, 0))
  BY <1>2, <1>3, PushMoves
<1>9. OPERAND1_REGNUM(i) # 0 => Follows(c, UpdateStackTracker(Pop(c, i, size, size, narrow), 0, size))
  BY <1>2, <1>3, PopMoves
<1>10. OPERAND1_REGNUM(i) # 0 => Follows(c, UpdateStackTracker(Pop(c, i, N, NATURAL, natural), 1, 0))
  BY <1>2, <1>3, PopMoves
<1>. QED
  BY <1>6, <1>7, <1>8, <1>9, <1>10

\* So does a data instruction whose result is R0.
LEMMA DataManipFollows ==
  ASSUME NEW c, Typed(c), NEW i, WellFormed(i), NEW masks \in BOOLEAN, Opcode(i) \in 10 .. 28,
         c.Tracker.On
  PROVE  Followed(c, ExecuteDataManip(c, i, masks))
<1>1. PICK width \in {4, 8} : width = IF Wide(i) THEN 8 ELSE 4
  OBVIOUS
<1>2. PICK x \in Words, y \in Words : /\ x = ManipOperands(c, i)[1] /\ y = ManipOperands(c, i)[2]
                                      /\ y # 0 => UInt(y, width) # 0
  BY <1>1, ManipOperandsType
<1>3. PICK z \in Int : z = DataManip(Opcode(i), x, y, width, masks)
  BY <1>2, DataManipType
<1>4. PICK result \in Int : result = UInt(z, 8)
  BY IntTypes
<1>5. PICK cut \in Int : cut = UInt(result, width)
  <2>1. width \in {1, 2, 4, 8}
    OBVIOUS
  <2>. QED
    BY <2>1, IntTypes
<1>6. PICK raised : raised = (IF Opcode(i) \in Divides /\ y = 0 THEN Raise(c, "DIVIDE_ERROR", "FATAL") ELSE c)
  OBVIOUS
<1>7. Typed(raised) /\ Still(c, raised)
  <2>1. PICK d : d = Raise(c, "DIVIDE_ERROR", "FATAL")
    OBVIOUS
  <2>2. Typed(d)
    BY <2>1, TypedFields
  <2>3. Still(c, d)
    BY <2>1, StillItself, StillSteps
  <2>4. raised = c \/ raised = d
    BY <1>6, <2>1
  <2>. QED
    BY <2>2, <2>3, <2>4, StillItself
<1>8. PICK r1 \in 0 .. 7 : r1 = OPERAND1_REGNUM(i)
  BY Registers
<1>9. PICK g1 : g1 = c.Gpr[r1]
  OBVIOUS
<1>10. PICK size : size = IF Immediate(i) THEN 4 ELSE 2
  OBVIOUS
<1>11. PICK tracked : tracked = (IF r1 = 0 THEN UpdateStackTrackerFromDelta(raised, result) ELSE raised)
  OBVIOUS
<1>12. ExecuteDataManip(c, i, masks) =
         Advance(IF OPERAND1_INDIRECT(i) THEN Write(raised, g1, width, result)
                 ELSE SetReg(tracked, r1, cut), size)
  BY <1>1, <1>2, <1>3, <1>4, <1>5, <1>6, <1>8, <1>9, <1>10, <1>11, ZenonT(60) DEF ExecuteDataManip
<1>13. Follows(c, Advance(Write(raised, g1, width, result), size))
  BY <1>7, StoreFollows
<1>14. Follows(c, Advance(SetReg(tracked, r1, cut), size))
  <2>1. CASE r1 # 0
    <3>1. PICK d : d = SetReg(raised, r1, cut)
      OBVIOUS
    <3>2. r1 \in 1 .. 7
      BY <2>1
    <3>3. Still(c, d)
      BY <1>7, <3>1, <3>2, StillSteps
    <3>4. Still(c, Advance(d, size))
      BY <3>3, StillSteps
    <3>. QED
      BY <1>11, <2>1, <3>1, <3>4, StillFollows
  <2>2. CASE r1 = 0
    <3>1. Natural(cut) = Natural(result)
      <4>1. NATURAL = 4
        BY DEF Typed
      <4>2. NATURAL \in Nat /\ width \in Nat /\ NATURAL <= width
        BY <4>1
      <4>. QED
        BY <1>5, <4>2, UIntNested DEF Natural
    <3>2. PICK d : d = SetReg(UpdateStackTrackerFromDelta(raised, result), 0, cut)
      OBVIOUS
    <3>3. Follows(raised, d) /\ Still(d, d)
      BY <1>7, <3>1, <3>2, TrackedFollows
    <3>4. Still(d, Advance(d, size))
      BY <3>3, StillSteps
    <3>5. Follows(c, Advance(d, size))
      BY <1>7, <3>3, <3>4, FollowsBetween
    <3>. QED
      BY <1>11, <2>2, <3>2, <3>5
  <2>. QED
    BY <2>1, <2>2
<1>15. Follows(c, ExecuteDataManip(c, i, masks))
  BY <1>12, <1>13, <1>14
<1>. QED
  BY <1>15 DEF Followed

-----------------------------------------------------------------------------
(***************************************************************************)
(* Indexes and their units: the offset an index is decoded to is what the  *)
(* tracker is told of it, unless the index is overlong.                    *)
(***************************************************************************)

\* The Offset of an index is what its units come to.
Whole(index) == index.Offset = index.NaturalUnits * NATURAL + index.ConstUnits

\* A sign distributes over the units of an index.
LEMMA SignedSum ==
  ASSUME NEW sign \in {-1, 1}, NEW n \in Int, NEW k \in Int
  PROVE  sign * (n * NATURAL + k) = (sign * n) * NATURAL + sign * k
<1>1. PICK w \in Int : w = NATURAL
  BY WidthAssumption
<1>2. PICK p \in Int : p = n * w
  OBVIOUS
<1>3. (-n) * w = -p
  BY <1>2
<1>4. CASE sign = 1
  BY <1>1, <1>4
<1>5. CASE sign = -1
  <2>1. sign * n = -n /\ sign * k = -k /\ sign * (p + k) = -p - k
    BY <1>5
  <2>. QED
    BY <1>1, <1>2, <1>3, <2>1
<1>. QED
  BY <1>4, <1>5

\* Indexes of four and eight bytes are what their units come to.
LEMMA SplitWhole ==
  ASSUME NEW x \in [Sign : {-1, 1}, NBits : 0 .. 7, Rest : Nat], NEW unit \in {4, 8}
  PROVE  Whole(SplitIndex(x, unit))
<1>1. x.Sign \in {-1, 1} /\ x.Rest \in Nat /\ unit * x.NBits \in Nat
  OBVIOUS
<1>2. PICK p \in Nat \ {0} : p = 2^(unit * x.NBits)
  BY <1>1, PowerType
<1>3. PICK y \in Int : y = x.Rest
  BY <1>1
<1>4. Rem(y, p) \in 0 .. p - 1 /\ Quo(y, p) \in Int
  BY ONLY p \in Nat \ {0}, y \in Int, DivMod
<1>5. PICK natural \in Int, constant \in Int : natural = x.Rest % p /\ constant = x.Rest \div p
  BY <1>3, <1>4 DEF Rem, Quo
<1>6. PICK sign \in {-1, 1} : sign = x.Sign
  BY <1>1
<1>7. SplitIndex(x, unit) = [Offset |-> sign * (natural * NATURAL + constant),
                             NaturalUnits |-> sign * natural,
                             ConstUnits |-> sign * constant]
  BY <1>2, <1>5, <1>6 DEF SplitIndex
<1>8. sign * (natural * NATURAL + constant) = (sign * natural) * NATURAL + sign * constant
  BY SignedSum
<1>. QED
  BY <1>7, <1>8 DEF Whole

\* Natural and constant units that come to less than 2^15.
SmallUnits(n, k) == /\ n \in Int /\ 0 <= n /\ k \in Int /\ 0 <= k
                    /\ \/ n <= 1023 /\ k <= 4095
                       \/ n <= 4095 /\ k = 0

NaturalMask(x) == 2^(2 * ((x \div 4096) % 8))

\* With at most twelve natural bits no sum is longer than fifteen.
LEMMA UnitsBounded ==
  ASSUME NEW x \in Int, 0 <= x, x <= 65535, (x \div 4096) % 8 # 7
  PROVE  LET p == NaturalMask(x) IN SmallUnits(x % p, (x % 4096) \div p)
<1>1. PICK k \in 0 .. 6 : k = (x \div 4096) % 8
  OBVIOUS
<1>. DEFINE Power(j) == 2^(2 * j)
            Splits(m) == SmallUnits(x % m, (x % 4096) \div m)
<1>2. PICK p : p = Power(k) /\ p \in {1, 4, 16, 64, 256, 1024, 4096}
  <2>1. /\ Power(0) = 1 /\ Power(1) = 4 /\ Power(2) = 16 /\ Power(3) = 64
        /\ Power(4) = 256 /\ Power(5) = 1024 /\ Power(6) = 4096
    OBVIOUS
  <2>. HIDE DEF Power
  <2>. QED
    BY <2>1
<1>3. Splits(1) /\ Splits(4) /\ Splits(16) /\ Splits(64) /\ Splits(256) /\ Splits(1024) /\ Splits(4096)
  <2>1. Splits(1)
    <3>1. /\ x % 1 \in Int /\ 0 <= x % 1 /\ x % 1 <= 0
          /\ (x % 4096) \div 1 \in Int
          /\ 0 <= (x % 4096) \div 1 /\ (x % 4096) \div 1 <= 4095
      OBVIOUS
    <3>. QED
      BY <3>1 DEF SmallUnits
  <2>2. Splits(4)
    <3>1. /\ x % 4 \in Int /\ 0 <= x % 4 /\ x % 4 <= 3
          /\ (x % 4096) \div 4 \in Int
          /\ 0 <= (x % 4096) \div 4 /\ (x % 4096) \div 4 <= 1023
      OBVIOUS
    <3>. QED
      BY <3>1 DEF SmallUnits
  <2>3. Splits(16)
    <3>1. /\ x % 16 \in Int /\ 0 <= x % 16 /\ x % 16 <= 15
          /\ (x % 4096) \div 16 \in Int
          /\ 0 <= (x % 4096) \div 16 /\ (x % 4096) \div 16 <= 255
      OBVIOUS
    <3>. QED
      BY <3>1 DEF SmallUnits
  <2>4. Splits(64)
    <3>1. /\ x % 64 \in Int /\ 0 <= x % 64 /\ x % 64 <= 63
          /\ (x % 4096) \div 64 \in Int
          /\ 0 <= (x % 4096) \div 64 /\ (x % 4096) \div 64 <= 63
      OBVIOUS
    <3>. QED
      BY <3>1 DEF SmallUnits
  <2>5. Splits(256)
    <3>1. /\ x % 256 \in Int /\ 0 <= x % 256 /\ x % 256 <= 255
          /\ (x % 4096) \div 256 \in Int
          /\ 0 <= (x % 4096) \div 256 /\ (x % 4096) \div 256 <= 15
      OBVIOUS
    <3>. QED
      BY <3>1 DEF SmallUnits
  <2>6. Splits(1024)
    <3>1. /\ x % 1024 \in Int /\ 0 <= x % 1024 /\ x % 1024 <= 1023
          /\ (x % 4096) \div 1024 \in Int
          /\ 0 <= (x % 4096) \div 1024 /\ (x % 4096) \div 1024 <= 3
      OBVIOUS
    <3>. QED
      BY <3>1 DEF SmallUnits
  <2>7. Splits(4096)
    <3>1. /\ x % 4096 \in Int /\ 0 <= x % 4096 /\ x % 4096 <= 4095
          /\ (x % 4096) \div 4096 \in Int
          /\ 0 <= (x % 4096) \div 4096 /\ (x % 4096) \div 4096 <= 0
      OBVIOUS
    <3>. QED
      BY <3>1 DEF SmallUnits
  <2>. QED
    BY <2>1, <2>2, <2>3, <2>4, <2>5, <2>6, <2>7
<1>4. Splits(p)
  <2>. HIDE DEF Splits
  <2>. QED
    BY <1>2, <1>3
<1>5. p = NaturalMask(x)
  BY <1>1, <1>2 DEF NaturalMask
<1>. QED
  BY <1>4, <1>5

\* So are those of two bytes, but for the overlong ones.
LEMMA Index16Whole ==
  ASSUME NEW x \in DataOf(2), ~ Overlong(x)
  PROVE  Whole(VmReadIndex16(x))
<1>1. 2^12 = 4096 /\ 2^16 = 65536 /\ 2^15 = 32768
  OBVIOUS
<1>. DEFINE Short(y) == y \in Int /\ 0 <= y /\ y <= 65535
            Few(y) == (y \div 4096) % 8 # 7
<1>2. Short(x) /\ Few(x)
  <2>1. Short(x)
    <3>1. x \in 0 .. 2^16 - 1
      BY DEF DataOf
    <3>2. 2^16 - 1 = 65535
      OBVIOUS
    <3>. QED
      BY <3>1, <3>2
  <2>2. ~ Overlong(x) => Few(x)
    BY <1>1 DEF Overlong
  <2>. HIDE DEF Short, Few
  <2>. QED
    BY <2>1, <2>2
<1>3. PICK p : p = NaturalMask(x) /\ SmallUnits(x % p, (x % 4096) \div p)
  BY <1>2, UnitsBounded
<1>4. PICK natural, constant :
        natural = x % p /\ constant = (x % 4096) \div p /\ SmallUnits(natural, constant)
  BY <1>3
<1>5. PICK sign \in {-1, 1} : sign = IF Bit(x, 15) THEN -1 ELSE 1
  OBVIOUS
<1>. DEFINE Wrap(z) == IF z % 65536 < 32768 THEN z % 65536 ELSE (z % 65536) - 65536
<1>6. VmReadIndex16(x) = [Offset |-> Wrap(sign * Wrap(natural * NATURAL + constant)),
                          NaturalUnits |-> sign * natural,
                          ConstUnits |-> sign * constant]
  BY <1>1, <1>3, <1>4, <1>5 DEF VmReadIndex16, Index, NaturalMask
<1>7. PICK sum \in Int : sum = natural * NATURAL + constant /\ 0 <= sum /\ sum <= 32767
  <2>1. NATURAL = 4 \/ NATURAL = 8
    BY WidthAssumption
  <2>2. /\ natural * 4 + constant \in Int
        /\ 0 <= natural * 4 + constant /\ natural * 4 + constant <= 32767
    BY <1>4 DEF SmallUnits
  <2>3. /\ natural * 8 + constant \in Int
        /\ 0 <= natural * 8 + constant /\ natural * 8 + constant <= 32767
    BY <1>4 DEF SmallUnits
  <2>. QED
    BY <2>1, <2>2, <2>3
<1>8. Wrap(sum) = sum
  <2>1. sum % 65536 = sum /\ sum < 32768
    BY <1>7
  <2>. QED
    BY <2>1
<1>9. Wrap(sign * sum) = sign * sum
  <2>1. CASE sign = 1
    BY <1>8, <2>1
  <2>2. CASE sign = -1
    <3>1. sign * sum = -sum
      BY <2>2
    <3>2. CASE sum = 0
      BY <1>8, <3>1, <3>2
    <3>3. CASE sum # 0
      <4>1. (-sum) % 65536 = 65536 - sum /\ ~ (65536 - sum < 32768)
        BY <1>7, <3>3
      <4>2. (65536 - sum) - 65536 = -sum
        OBVIOUS
      <4>. QED
        BY <3>1, <4>1, <4>2
    <3>. QED
      BY <3>2, <3>3
  <2>. QED
    BY <2>1, <2>2
<1>10. sign * (natural * NATURAL + constant) = (sign * natural) * NATURAL + sign * constant
  BY <1>4, SignedSum DEF SmallUnits
<1>. HIDE DEF Wrap
<1>11. VmReadIndex16(x).Offset = sign * sum
  BY <1>6, <1>7, <1>8, <1>9
<1>. QED
  BY <1>6, <1>7, <1>10, <1>11 DEF Whole

\* So is every index ExecuteMOVxx reads, but for those.
LEMMA IndexWhole ==
  ASSUME NEW bytes \in {2, 4, 8}, NEW x \in DataOf(bytes), bytes = 2 => ~ Overlong(x)
  PROVE  Whole(VmReadIndex(x, bytes))
<1>1. bytes = 2 => Whole(VmReadIndex(x, bytes))
  BY Index16Whole DEF VmReadIndex
<1>2. bytes = 4 => Whole(VmReadIndex(x, bytes))
  <2>1. ASSUME bytes = 4 PROVE x \in [Sign : {-1, 1}, NBits : 0 .. 7, Rest : Nat]
    BY <2>1 DEF DataOf
  <2>. QED
    BY <2>1, SplitWhole DEF VmReadIndex, VmReadIndex32
<1>3. bytes = 8 => Whole(VmReadIndex(x, bytes))
  <2>1. ASSUME bytes = 8 PROVE x \in [Sign : {-1, 1}, NBits : 0 .. 7, Rest : Nat]
    BY <2>1 DEF DataOf
  <2>. QED
    BY <2>1, SplitWhole DEF VmReadIndex, VmReadIndex64
<1>. QED
  BY <1>1, <1>2, <1>3

\* A context refused by the tracker has a tracker that gave up.
LEMMA RefusedFollows ==
  ASSUME NEW c, Typed(c), c.Status = "SUCCESS", NEW n \in Int, NEW k \in Int, NEW x \in Int
  PROVE  /\ UpdateStackTracker(c, n, k).Status # "SUCCESS" =>
              Follows(c, UpdateStackTracker(c, n, k))
         /\ UpdateStackTrackerFromDelta(c, x).Status # "SUCCESS" =>
              Follows(c, UpdateStackTrackerFromDelta(c, x))
<1>1. IsContext(c) /\ c.Tracker \in TrackerType
  BY DEF Typed
<1>2. ASSUME NEW e, IsContext(e), e.Tracker \in TrackerType, e.Status = "SUCCESS",
             NEW a, NEW b, UpdateStackTracker(e, a, b).Status # "SUCCESS"
      PROVE  UpdateStackTracker(e, a, b).Tracker.Height = -1
  <2>1. PICK h : h = e.Tracker.Height - a * NATURAL - b
    OBVIOUS
  <2>2. PICK d1 : d1 = [e EXCEPT !.Tracker.Height = -1, !.Status = "UNSUPPORTED"]
    OBVIOUS
  <2>3. PICK d2 : d2 = [e EXCEPT !.Tracker.Height = h]
    OBVIOUS
  <2>4. UpdateStackTracker(e, a, b) \in {e, d1, d2}
    BY <2>1, <2>2, <2>3 DEF UpdateStackTracker
  <2>5. d1.Tracker.Height = -1
    BY <1>2, <2>2 DEF IsContext, Fields, TrackerType
  <2>6. d2.Status = "SUCCESS"
    BY <1>2, <2>3 DEF IsContext, Fields, TrackerType
  <2>. QED
    BY <1>2, <2>4, <2>5, <2>6
<1>3. ASSUME NEW d, d.Tracker.Height = -1 PROVE Follows(c, d)
  BY <1>3 DEF Follows, Counts
<1>4. UpdateStackTracker(c, n, k).Status # "SUCCESS" => Follows(c, UpdateStackTracker(c, n, k))
  BY <1>1, <1>2, <1>3
<1>5. UpdateStackTrackerFromDelta(c, x).Status # "SUCCESS" =>
        Follows(c, UpdateStackTrackerFromDelta(c, x))
  <2>1. PICK t : t = c.Tracker
    OBVIOUS
  <2>. DEFINE Delta(y) == SInt(Natural(x) - y, NATURAL)
  <2>2. PICK away : away = [c EXCEPT !.Tracker.OrgHeight = t.Height,
                                     !.Tracker.OrgStackPointer = Natural(c.Gpr[0])]
    OBVIOUS
  <2>3. PICK back : back = [c EXCEPT !.Tracker.Height = t.OrgHeight, !.Tracker.OrgHeight = 0]
    OBVIOUS
  <2>4. \/ UpdateStackTrackerFromDelta(c, x) = c
        \/ UpdateStackTrackerFromDelta(c, x) = away
        \/ UpdateStackTrackerFromDelta(c, x) = UpdateStackTracker(back, 0, Delta(t.OrgStackPointer))
        \/ UpdateStackTrackerFromDelta(c, x) = UpdateStackTracker(c, 0, Delta(Natural(c.Gpr[0])))
    BY <2>1, <2>2, <2>3, Zenon DEF UpdateStackTrackerFromDelta
  <2>5. away.Status = "SUCCESS"
    BY <1>1, <2>2 DEF IsContext, Fields
  <2>6. IsContext(back) /\ back.Tracker \in TrackerType /\ back.Status = "SUCCESS"
    <3>1. PICK h : h = t.OrgHeight
      OBVIOUS
    <3>2. PICK u : u = [t EXCEPT !.Height = h, !.OrgHeight = 0]
      OBVIOUS
    <3>3. back = [c EXCEPT !.Tracker = u]
      BY <1>1, <2>1, <2>3, <3>1, <3>2 DEF IsContext, Fields, TrackerType
    <3>4. u \in TrackerType
      <4>1. t \in TrackerType
        BY <1>1, <2>1
      <4>2. h \in Int
        BY <3>1, <4>1 DEF TrackerType
      <4>. QED
        <5>1. u = [On |-> t.On, Height |-> h, OrgHeight |-> 0, OrgStackPointer |-> t.OrgStackPointer]
          BY <3>2, <4>1 DEF TrackerType
        <5>2. t.On \in BOOLEAN /\ t.OrgStackPointer \in Int
          BY <4>1 DEF TrackerType
        <5>3. 0 \in Int
          OBVIOUS
        <5>. QED
          BY <4>2, <5>1, <5>2, <5>3 DEF TrackerType
    <3>. QED
      BY <1>1, <3>3, <3>4 DEF IsContext, Fields
  <2>. HIDE DEF Delta
  <2>7. ASSUME NEW a, NEW b, UpdateStackTracker(back, a, b).Status # "SUCCESS"
        PROVE  Follows(c, UpdateStackTracker(back, a, b))
    BY <1>2, <1>3, <2>6, <2>7
  <2>8. ASSUME NEW a, NEW b, UpdateStackTracker(c, a, b).Status # "SUCCESS"
        PROVE  Follows(c, UpdateStackTracker(c, a, b))
    BY <1>1, <1>2, <1>3, <2>8
  <2>. QED
    BY <2>4, <2>5, <2>7, <2>8
<1>. QED
  BY <1>4, <1>5

\* What a move of R0 to itself adds to it is what the tracker is told.
LEMMA SelfMoveFollows ==
  ASSUME NEW c, Typed(c), NEW o \in Int, NEW n \in Int, NEW k \in Int,
         o = n * NATURAL + k, NEW width \in {1, 2, 4, 8}, NATURAL <= width
  PROVE  LET cut == UInt(UInt(c.Gpr[0] + o, 8), width)
         IN /\ Follows(c, SetReg(UpdateStackTracker(c, n, k), 0, cut))
            /\ o = 0 => Follows(c, SetReg(c, 0, cut))
<1>1. PICK g0 \in Int : g0 = c.Gpr[0]
  <2>1. 0 \in 0 .. 7
    OBVIOUS
  <2>. QED
    BY <2>1, FieldTypes
<1>2. PICK sum \in Int : sum = g0 + o
  OBVIOUS
<1>3. PICK source \in Int : source = UInt(sum, 8)
  BY IntTypes
<1>4. PICK cut \in Int : cut = UInt(source, width)
  BY IntTypes
<1>5. PICK s \in Int : s = UInt(cut, 8)
  BY IntTypes
<1>6. UInt(s, NATURAL) = UInt(sum, NATURAL)
  <2>1. NATURAL \in Nat /\ 8 \in Nat /\ NATURAL <= 8 /\ width \in Nat
    BY WidthAssumption
  <2>2. UInt(s, NATURAL) = UInt(cut, NATURAL)
    BY <1>5, <2>1, UIntNested
  <2>3. UInt(cut, NATURAL) = UInt(source, NATURAL)
    BY <1>4, <2>1, UIntNested
  <2>4. UInt(source, NATURAL) = UInt(sum, NATURAL)
    BY <1>3, <2>1, UIntNested
  <2>. QED
    BY <2>2, <2>3, <2>4
<1>7. UInt(s - g0, NATURAL) = UInt(o, NATURAL)
  <2>1. NATURAL \in Nat
    BY WidthAssumption
  <2>3. UInt(s - g0, NATURAL) = UInt(sum - g0, NATURAL)
    <3>1. NATURAL \in Nat
      BY <2>1
    <3>2. PICK h \in Int : h = g0
      OBVIOUS
    <3>3. UInt(h, NATURAL) = UInt(g0, NATURAL)
      BY <3>2
    <3>4. UInt(s - h, NATURAL) = UInt(sum - g0, NATURAL)
      BY ONLY <1>6, <3>1, <3>3, UIntArithmetic, s \in Int, sum \in Int, g0 \in Int, h \in Int
    <3>. QED
      BY <3>2, <3>4
  <2>4. sum - g0 = o
    BY <1>2
  <2>. QED
    BY <2>3, <2>4
<1>8. Natural(n * NATURAL + k) = Natural(s - g0)
  BY <1>7 DEF Natural
<1>9. IsContext(c) /\ c.Tracker \in TrackerType /\ DOMAIN c.Gpr = 0 .. 7
  BY DEF Typed
<1>10. Follows(c, SetReg(UpdateStackTracker(c, n, k), 0, cut))
  <2>1. PICK d : d = UpdateStackTracker(c, n, k)
    OBVIOUS
  <2>2. Typed(d)
    BY <2>1, TrackerTyped
  <2>3. Counts(c.Tracker, g0, d.Tracker, s)
    BY <1>8, <1>9, <2>1, UnitsCounted
  <2>4. IsContext(d) /\ DOMAIN d.Gpr = 0 .. 7
    BY <2>2 DEF Typed
  <2>. QED
    BY <1>1, <1>5, <2>1, <2>3, <2>4, R0Followed
<1>11. o = 0 => Follows(c, SetReg(c, 0, cut))
  <2>1. SUFFICES ASSUME o = 0 PROVE Follows(c, SetReg(c, 0, cut))
    OBVIOUS
  <2>2. Natural(0) = Natural(g0 - s)
    <3>1. NATURAL \in Nat
      BY WidthAssumption
    <3>2. sum = g0
      BY <1>2, <2>1
    <3>3. PICK h \in Int : h = g0
      OBVIOUS
    <3>4. UInt(h, NATURAL) = UInt(g0, NATURAL) /\ UInt(g0, NATURAL) = UInt(s, NATURAL)
      BY <1>6, <3>2, <3>3
    <3>5. UInt(h - g0, NATURAL) = UInt(g0 - s, NATURAL)
      BY ONLY <3>1, <3>4, UIntArithmetic, s \in Int, g0 \in Int, h \in Int
    <3>6. h - g0 = 0
      BY <3>3
    <3>. QED
      BY <3>5, <3>6 DEF Natural
  <2>3. c.Tracker.Height - c.Tracker.Height = 0
    BY <1>9 DEF TrackerType
  <2>4. Counts(c.Tracker, g0, c.Tracker, s)
    BY <2>2, <2>3 DEF Counts
  <2>. QED
    BY <1>1, <1>5, <1>9, <2>4, R0Followed
<1>. QED
  BY <1>1, <1>2, <1>3, <1>4, <1>10, <1>11

\* R0 moved to itself without an index, at a width that holds an address.
LEMMA SelfCopyFollows ==
  ASSUME NEW c, Typed(c), NEW width \in {1, 2, 4, 8}, NATURAL <= width
  PROVE  Follows(c, SetReg(c, 0, UInt(UInt(c.Gpr[0] + 0, 8), width)))
<1>1. PICK o \in Int, n \in Int, k \in Int : o = 0 /\ o = n * NATURAL + k
  <2>1. 0 = 0 * NATURAL + 0 /\ 0 \in Int
    BY WidthAssumption
  <2>. QED
    BY <2>1
<1>2. o = 0 => Follows(c, SetReg(c, 0, UInt(UInt(c.Gpr[0] + o, 8), width)))
  BY <1>1, SelfMoveFollows
<1>. QED
  BY <1>1, <1>2

\* ExecuteMOVxx tells the tracker, unless it moves R0 to itself in a way the
\* tracker cannot follow.
LEMMA MOVxxFollows ==
  ASSUME NEW c, Typed(c), c.Status = "SUCCESS", NEW i, WellFormed(i),
         Opcode(i) \in 29 .. 36 \cup {40, 50, 51}, ~ Untracked(i)
  PROVE  Followed(c, ExecuteMOVxx(c, i))
<1>1. PICK r1 \in 0 .. 7, r2 \in 0 .. 7 : r1 = OPERAND1_REGNUM(i) /\ r2 = OPERAND2_REGNUM(i)
  BY Registers
<1>2. PICK has1, has2 \in BOOLEAN : has1 = Bit(i.opcode, 7) /\ has2 = Bit(i.opcode, 6)
  BY DEF Bit
<1>3. PICK width \in {1, 2, 4, 8}, bytes \in {2, 4, 8} :
        width = MoveSize(Opcode(i)) /\ bytes = IndexSize(Opcode(i))
  BY MoveWidth
<1>4. PICK index1 \in Indexes3 : index1 = IndexAt(i, has1, 1, bytes)
  BY <1>2, <1>3, DataTyped, IndexAtTyped
<1>5. PICK index2 \in Indexes3 : index2 = IndexAt(i, has2, IF has1 THEN 2 ELSE 1, bytes)
  BY <1>2, <1>3, DataTyped, IndexAtTyped
<1>6. PICK o1 \in Int, o2 \in Int, n2 \in Int, k2 \in Int :
        o1 = index1.Offset /\ o2 = index2.Offset /\ n2 = index2.NaturalUnits /\ k2 = index2.ConstUnits
  BY IndexFields
<1>7. PICK size \in Int : size = 2 + (IF has1 THEN bytes ELSE 0) + (IF has2 THEN bytes ELSE 0)
  OBVIOUS
<1>8. PICK g1 \in Int, g2 \in Int : g1 = c.Gpr[r1] /\ g2 = c.Gpr[r2]
  BY FieldTypes
<1>9. PICK source \in Int : source = UInt(g2 + o2, 8)
  <2>1. g2 + o2 \in Int
    OBVIOUS
  <2>. QED
    BY <2>1, IntTypes
<1>10. PICK taken \in BOOLEAN :
         taken = (has2 /\ r2 = 0 /\ o2 > 0 /\ r1 = 0 /\ OPERAND1_INDIRECT(i))
  OBVIOUS
<1>11. PICK data \in Int :
         data = IF OPERAND2_INDIRECT(i) THEN VmReadMem(c.Mem, source, width)
                ELSE IF taken THEN Natural(source) ELSE source
  <2>1. VmReadMem(c.Mem, source, width) \in Nat
    BY FieldTypes, ReadTyped
  <2>2. Natural(source) \in Int
    BY IntTypes
  <2>. QED
    BY <2>1, <2>2
<1>12. PICK cut \in Int : cut = UInt(data, width)
  BY IntTypes
<1>13. PICK tracked :
         tracked = IF r1 # 0 \/ OPERAND1_INDIRECT(i) THEN c
                   ELSE IF r2 # 0 \/ OPERAND2_INDIRECT(i)
                   THEN UpdateStackTrackerFromDelta(c, cut)
                   ELSE IF has2
                   THEN UpdateStackTracker(c, n2, k2)
                   ELSE c
  OBVIOUS
<1>14. Typed(tracked)
  BY <1>13, TrackerTyped
<1>15. ExecuteMOVxx(c, i) =
         IF tracked.Status # "SUCCESS" THEN tracked
         ELSE IF OPERAND1_INDIRECT(i) THEN Advance(Write(c, g1 + o1, width, data), size)
         ELSE IF has1 THEN Encoding(tracked)
         ELSE Advance(SetReg(tracked, r1, cut), size)
  BY <1>1, <1>2, <1>3, <1>4, <1>5, <1>6, <1>7, <1>8, <1>9, <1>10, <1>11, <1>12, <1>13, ZenonT(60) DEF ExecuteMOVxx
<1>16. tracked.Status # "SUCCESS" => Follows(c, tracked)
  BY <1>13, RefusedFollows
<1>17. Follows(c, Advance(Write(c, g1 + o1, width, data), size))
  BY StillItself, StoreFollows
<1>18. Encoding(tracked).Done
  BY <1>14, EncodingDone DEF Typed
<1>19. ~ OPERAND1_INDIRECT(i) => Follows(c, Advance(SetReg(tracked, r1, cut), size))
  <2>1. SUFFICES ASSUME ~ OPERAND1_INDIRECT(i)
                 PROVE  Follows(c, Advance(SetReg(tracked, r1, cut), size))
    OBVIOUS
  <2>2. CASE r1 # 0
    <3>1. r1 \in 1 .. 7 /\ tracked = c
      BY <1>13, <2>2
    <3>2. PICK d : d = SetReg(c, r1, cut)
      OBVIOUS
    <3>3. Still(c, d)
      BY <3>1, <3>2, StillItself, StillSteps
    <3>4. Still(c, Advance(d, size))
      BY <3>3, StillSteps
    <3>. QED
      BY <3>1, <3>2, <3>4, StillFollows
  <2>3. CASE r1 = 0
    <3>1. PICK d : d = SetReg(tracked, 0, cut)
      OBVIOUS
    <3>2. Still(d, d)
      <4>1. Typed(d)
        <5>1. 0 \in 0 .. 7
          OBVIOUS
        <5>. QED
          BY <1>14, <3>1, <5>1, TypedFields
      <4>. QED
        BY <4>1, StillItself
    <3>3. Follows(c, d)
      <4>1. CASE r2 # 0 \/ OPERAND2_INDIRECT(i)
        <5>1. tracked = UpdateStackTrackerFromDelta(c, cut)
          BY <1>13, <2>1, <2>3, <4>1
        <5>. QED
          BY <3>1, <5>1, TrackedFollows
      <4>2. CASE ~ (r2 # 0 \/ OPERAND2_INDIRECT(i))
        <5>1. /\ ~ (MoveSize(Opcode(i)) < NATURAL)
              /\ ~ (IndexSize(Opcode(i)) = 2 /\ \E n \in DOMAIN i.data : Overlong(i.data[n]))
          BY <1>1, <2>3, <4>2 DEF Untracked, OP
        <5>2. NATURAL <= width
          BY <1>3, <5>1, WidthAssumption
        <5>3. cut = UInt(UInt(c.Gpr[0] + o2, 8), width)
          <6>1. ~ taken /\ r2 = 0 /\ ~ OPERAND2_INDIRECT(i)
            BY <1>10, <2>1, <4>2
          <6>2. data = source /\ g2 = c.Gpr[0]
            BY <1>8, <1>11, <6>1
          <6>3. cut = UInt(source, width)
            BY <1>12, <6>2
          <6>4. source = UInt(c.Gpr[0] + o2, 8)
            BY <1>9, <6>2
          <6>. QED
            BY <6>3, <6>4
        <5>4. CASE has2
          <6>1. PICK n : n = IF has1 THEN 2 ELSE 1
            OBVIOUS
          <6>2. n \in DOMAIN i.data /\ i.data[n] \in DataOf(bytes)
            BY <1>2, <1>3, <5>4, <6>1, DataTyped
          <6>3. bytes = 2 => ~ Overlong(i.data[n])
            BY <1>3, <5>1, <6>2
          <6>4. PICK datum : datum = i.data[n]
            OBVIOUS
          <6>5. Whole(VmReadIndex(datum, bytes))
            BY <6>2, <6>3, <6>4, IndexWhole
          <6>6. index2 = VmReadIndex(datum, bytes)
            BY <1>5, <5>4, <6>1, <6>4 DEF IndexAt
          <6>7. o2 = n2 * NATURAL + k2
            BY <1>6, <6>5, <6>6 DEF Whole
          <6>8. tracked = UpdateStackTracker(c, n2, k2)
            BY <1>13, <2>1, <2>3, <4>2, <5>4
          <6>9. Follows(c, SetReg(UpdateStackTracker(c, n2, k2), 0, cut))
            BY <5>2, <5>3, <6>7, SelfMoveFollows
          <6>. QED
            BY <3>1, <6>8, <6>9
        <5>5. CASE ~ has2
          <6>1. o2 = 0
            BY <1>5, <1>6, <5>5 DEF IndexAt, NoIndex
          <6>2. cut = UInt(UInt(c.Gpr[0] + 0, 8), width)
            BY <5>3, <6>1
          <6>3. Follows(c, SetReg(c, 0, cut))
            BY <5>2, <6>2, SelfCopyFollows
          <6>4. tracked = c
            BY <1>13, <2>1, <2>3, <4>2, <5>5
          <6>. QED
            BY <3>1, <6>3, <6>4
        <5>. QED
          BY <5>4, <5>5
      <4>. QED
        BY <4>1, <4>2
    <3>4. Follows(c, Advance(d, size))
      BY <3>2, <3>3, AdvanceFollows
    <3>. QED
      BY <2>3, <3>1, <3>4
  <2>. QED
    BY <2>2, <2>3
<1>20. Followed(c, ExecuteMOVxx(c, i))
  <2>1. PICK d : d = ExecuteMOVxx(c, i)
    OBVIOUS
  <2>2. tracked.Status # "SUCCESS" => d = tracked
    BY <1>15, <2>1
  <2>. QED
    BY <1>15, <1>16, <1>17, <1>18, <1>19, <2>1, <2>2 DEF Followed
<1>. QED
  BY <1>20

-----------------------------------------------------------------------------
(***************************************************************************)
(* All instructions together.                                              *)
(***************************************************************************)

\* mVmOpcodeTable by opcode numbers.
LEMMA DispatchCases ==
  ASSUME NEW c, NEW i, WellFormed(i), Opcode(i) \notin NoFunction, NEW masks, NEW fails,
         NEW k, k = [c EXCEPT !.Status = "SUCCESS"],
         NEW op, op = Opcode(i), NEW d, d = Dispatch(c, i, masks, fails)
  PROVE  /\ op \in 0 .. 57 \ {39, 52}
         /\ op = 0 => d = ExecuteBREAK(k, i, fails)
         /\ op = 1 => d = ExecuteJMP(k, i)
         /\ op = 2 => d = ExecuteJMP8(k, i)
         /\ op = 3 => d = ExecuteCALL(k, i)
         /\ op = 4 => d = ExecuteRET(k, i)
         /\ op \in 5 .. 9 => d = ExecuteCMP(k, i)
         /\ op \in 10 .. 28 => d = ExecuteDataManip(k, i, masks)
         /\ op \in 29 .. 36 \cup {40, 50, 51} => d = ExecuteMOVxx(k, i)
         /\ op = 37 => d = MoveSigned(k, i, 2)
         /\ op = 38 => d = MoveSigned(k, i, 4)
         /\ op = 41 => d = ExecuteLOADSP(k, i)
         /\ op = 42 => d = ExecuteSTORESP(k, i)
         /\ op = 43 => d = ExecutePUSH(k, i)
         /\ op = 44 => d = ExecutePOP(k, i)
         /\ op \in 45 .. 49 => d = ExecuteCMPI(k, i)
         /\ op = 53 => d = ExecutePUSHn(k, i)
         /\ op = 54 => d = ExecutePOPn(k, i)
         /\ op = 55 => d = ExecuteMOVI(k, i)
         /\ op = 56 => d = ExecuteMOVIn(k, i)
         /\ op = 57 => d = ExecuteMOVREL(k, i)
<1>1. op \in 0 .. 57 \ {39, 52}
  BY Registers DEF NoFunction
<1>2. /\ op = 0 => d = ExecuteBREAK(k, i, fails)
      /\ op = 1 => d = ExecuteJMP(k, i)
      /\ op = 2 => d = ExecuteJMP8(k, i)
      /\ op = 3 => d = ExecuteCALL(k, i)
      /\ op = 4 => d = ExecuteRET(k, i)
  BY OpcodeNumbers, <1>1 DEF Dispatch
<1>3. /\ op \in 5 .. 9 => d = ExecuteCMP(k, i)
      /\ op \in 10 .. 28 => d = ExecuteDataManip(k, i, masks)
      /\ op \in 45 .. 49 => d = ExecuteCMPI(k, i)
  BY OpcodeNumbers, <1>1 DEF Dispatch
<1>4. /\ op = 37 => d = MoveSigned(k, i, 2)
      /\ op = 38 => d = MoveSigned(k, i, 4)
      /\ op = 41 => d = ExecuteLOADSP(k, i)
      /\ op = 42 => d = ExecuteSTORESP(k, i)
  BY OpcodeNumbers, <1>1 DEF Dispatch, ExecuteMOVsnw, ExecuteMOVsnd
<1>5. /\ op = 43 => d = ExecutePUSH(k, i)
      /\ op = 44 => d = ExecutePOP(k, i)
      /\ op = 53 => d = ExecutePUSHn(k, i)
      /\ op = 54 => d = ExecutePOPn(k, i)
  BY OpcodeNumbers, <1>1 DEF Dispatch
<1>6. /\ op = 55 => d = ExecuteMOVI(k, i)
      /\ op = 56 => d = ExecuteMOVIn(k, i)
      /\ op = 57 => d = ExecuteMOVREL(k, i)
  BY OpcodeNumbers, <1>1 DEF Dispatch
<1>7. op \in 29 .. 36 \cup {40, 50, 51} => d = ExecuteMOVxx(k, i)
  BY OpcodeNumbers, <1>1 DEF Dispatch
<1>. QED
  BY <1>1, <1>2, <1>3, <1>4, <1>5, <1>6, <1>7

\* The function of the opcode tells the tracker of the move of R0.
LEMMA DispatchFollowed ==
  ASSUME NEW c, Typed(c), c.Tracker.On, NEW i, WellFormed(i), Opcode(i) \notin NoFunction,
         ~ Untracked(i), NEW masks \in BOOLEAN, NEW fails \in BOOLEAN
  PROVE  Followed(c, Dispatch(c, i, masks, fails))
<1>1. PICK k : k = [c EXCEPT !.Status = "SUCCESS"]
  OBVIOUS
<1>2. /\ Typed(k) /\ k.Status = "SUCCESS" /\ k.Tracker.On
      /\ k.Gpr = c.Gpr /\ k.Tracker = c.Tracker
  BY <1>1, StatusReset
<1>3. PICK op : op = Opcode(i)
  OBVIOUS
<1>4. PICK d : d = Dispatch(c, i, masks, fails)
  OBVIOUS
<1>5. /\ op \notin {3, 4}
      /\ op \in {42, 44, 54} => OPERAND1_REGNUM(i) # 0
  BY <1>3, OpcodeNumbers DEF Untracked
<1>6. op \in 0 .. 57 \ {39, 52}
  BY <1>1, <1>3, <1>4, DispatchCases
<1>7. op \in {0, 1, 2} => Followed(k, d)
  <2>1. /\ op = 0 => d = ExecuteBREAK(k, i, fails)
        /\ op = 1 => d = ExecuteJMP(k, i)
        /\ op = 2 => d = ExecuteJMP8(k, i)
    BY <1>1, <1>3, <1>4, DispatchCases
  <2>2. op \in {0, 1, 2} => Still(k, d)
    BY <1>2, <2>1, JumpStill
  <2>. QED
    BY <1>2, <2>2, StillFollowed
<1>8. op \in 5 .. 9 \cup 45 .. 49 => Followed(k, d)
  <2>1. /\ op \in 5 .. 9 => d = ExecuteCMP(k, i)
        /\ op \in 45 .. 49 => d = ExecuteCMPI(k, i)
    BY <1>1, <1>3, <1>4, DispatchCases
  <2>2. op \in 5 .. 9 \cup 45 .. 49 => Still(k, d)
    BY <1>2, <2>1, CompareStill
  <2>. QED
    BY <1>2, <2>2, StillFollowed
<1>9. op \in 10 .. 28 => Followed(k, d)
  <2>1. op \in 10 .. 28 => d = ExecuteDataManip(k, i, masks)
    BY <1>1, <1>3, <1>4, DispatchCases
  <2>. QED
    BY <1>2, <1>3, <2>1, DataManipFollows
<1>10. op \in 29 .. 36 \cup {40, 50, 51} => Followed(k, d)
  <2>1. op \in 29 .. 36 \cup {40, 50, 51} => d = ExecuteMOVxx(k, i)
    BY <1>1, <1>3, <1>4, DispatchCases
  <2>. QED
    BY <1>2, <1>3, <2>1, MOVxxFollows
<1>11. op \in {37, 38} => Followed(k, d)
  <2>1. /\ op = 37 => d = MoveSigned(k, i, 2)
        /\ op = 38 => d = MoveSigned(k, i, 4)
    BY <1>1, <1>3, <1>4, DispatchCases
  <2>. QED
    BY <1>2, <1>3, <2>1, MoveSignedFollows
<1>12. op \in {41, 42} => Followed(k, d)
  <2>1. /\ op = 41 => d = ExecuteLOADSP(k, i)
        /\ op = 42 => d = ExecuteSTORESP(k, i)
    BY <1>1, <1>3, <1>4, DispatchCases
  <2>2. op \in {41, 42} => Still(k, d)
    BY <1>2, <1>5, <2>1, DedicatedStill
  <2>. QED
    BY <1>2, <2>2, StillFollowed
<1>13. op \in {43, 44, 53, 54} => Followed(k, d)
  <2>1. /\ op = 43 => d = ExecutePUSH(k, i)
        /\ op = 44 => d = ExecutePOP(k, i)
        /\ op = 53 => d = ExecutePUSHn(k, i)
        /\ op = 54 => d = ExecutePOPn(k, i)
    BY <1>1, <1>3, <1>4, DispatchCases
  <2>2. op \in {43, 44, 53, 54} => Follows(k, d)
    BY <1>2, <1>5, <2>1, StackFollows
  <2>. QED
    BY <2>2 DEF Followed
<1>14. op \in 55 .. 57 => Followed(k, d)
  <2>1. /\ op = 55 => d = ExecuteMOVI(k, i)
        /\ op = 56 => d = ExecuteMOVIn(k, i)
        /\ op = 57 => d = ExecuteMOVREL(k, i)
    BY <1>1, <1>3, <1>4, DispatchCases
  <2>. QED
    BY <1>2, <1>3, <2>1, MoveImmediatesFollow
<1>15. Followed(k, d)
  BY <1>5, <1>6, <1>7, <1>8, <1>9, <1>10, <1>11, <1>12, <1>13, <1>14
<1>. QED
  BY <1>2, <1>4, <1>15 DEF Followed, Follows

\* The loop lets nobody go on whom the instruction has stopped.
LEMMA DoneStays ==
  ASSUME TInv, NEW masks \in BOOLEAN, NEW fails \in BOOLEAN, Execute(masks, fails),
         Dispatch(vm, Current, masks, fails).Done
  PROVE  vm'.Done
<1>1. PICK c : c = Dispatch(vm, Current, masks, fails)
  OBVIOUS
<1>2. Typed(c) /\ c.Done
  BY <1>1, ExecuteTyped
<1>3. vm' = CheckStack(StepFlag(c))
  BY <1>1 DEF Execute
<1>4. ASSUME NEW d, Typed(d), d.Done, NEW type, NEW flag PROVE Raise(d, type, flag).Done
  BY <1>4 DEF Typed, IsContext, Fields, Raise
<1>5. PICK e : e = StepFlag(c)
  OBVIOUS
<1>6. Typed(e) /\ e.Done
  BY <1>2, <1>4, <1>5, TypedFields DEF StepFlag
<1>. QED
  BY <1>3, <1>4, <1>5, <1>6 DEF CheckStack

\* R0 is moved behind the tracker's back by no instruction but those listed in
\* Untracked: every assignment of R0 in EbcExecute.c tells UpdateStackTracker or
\* UpdateStackTrackerFromDelta by how much, or the context stops.
THEOREM TrackerFollows == Spec => TrackerFollowsR0
<1>. DEFINE Follow == ( /\ vm.Tracker.On
                        /\ vm.Tracker.OrgHeight = 0 /\ vm'.Tracker.OrgHeight = 0
                        /\ vm.Tracker.Height >= 0 /\ vm'.Tracker.Height >= 0
                        /\ vm.Tracker.Height = 0 => InPool(Natural(vm'.Gpr[0]))
                        /\ ~ vm'.Done
                        /\ ~ Untracked(Current) ) =>
                      Natural(vm'.Tracker.Height - vm.Tracker.Height)
                        = Natural(vm.Gpr[0] - vm'.Gpr[0])
<1>1. ASSUME TInv, [Next]_vars PROVE [Follow]_vars
  <2>1. ASSUME NEW masks \in BOOLEAN, NEW fails \in BOOLEAN, Execute(masks, fails) PROVE Follow
    <3>1. SUFFICES ASSUME vm.Tracker.On, ~ Untracked(Current), ~ vm'.Done
                   PROVE  Follows(vm, vm')
      BY DEF Follows, Counts
    <3>2. PICK c : c = Dispatch(vm, Current, masks, fails)
      OBVIOUS
    <3>3. Typed(vm) /\ WellFormed(Current) /\ Opcode(Current) \notin NoFunction
      BY <1>1, <2>1, CurrentWellFormed DEF TInv, Execute, Fetch
    <3>4. Followed(vm, c)
      BY <3>1, <3>2, <3>3, DispatchFollowed
    <3>5. ~ c.Done
      BY <1>1, <2>1, <3>1, <3>2, DoneStays
    <3>6. vm'.Gpr = c.Gpr /\ vm'.Tracker = c.Tracker
      BY <1>1, <2>1, <3>2, ExecuteKeeps
    <3>. QED
      BY <3>4, <3>5, <3>6 DEF Followed, Follows
  <2>2. InvalidOpcode => Follow
    <3>1. SUFFICES ASSUME InvalidOpcode PROVE vm'.Done
      OBVIOUS
    <3>2. PICK d : d = Raise(vm, "INVALID_OPCODE", "FATAL")
      OBVIOUS
    <3>3. IsContext(d) /\ d.Done
      BY <1>1, <3>2, RaiseContext DEF TInv, Typed
    <3>. QED
      BY <3>1, <3>2, <3>3 DEF InvalidOpcode, IsContext, Fields
  <2>3. ProcessorTrap => Follow
    BY <1>1 DEF ProcessorTrap, TInv, Typed, IsContext, Fields
  <2>. HIDE DEF Follow
  <2>. QED
    BY <1>1, <2>1, <2>2, <2>3 DEF Next
<1>2. Spec => [][Follow]_vars
  BY <1>1, AlwaysTInv, PTL DEF Spec
<1>. QED
  BY <1>2 DEF TrackerFollowsR0

-----------------------------------------------------------------------------
(***************************************************************************)
(* The listing decodes the data of an index, the interpreter the whole of  *)
(* it.                                                                     *)
(***************************************************************************)

\* Natural bits are the same of an index and of its data, if they are all in the data.
LEMMA MaskOfData ==
  ASSUME NEW x \in Int, 0 <= x, x <= 65535, (x \div 4096) % 8 # 7
  PROVE  (x % 4096) % NaturalMask(x) = x % NaturalMask(x)
<1>1. PICK k \in 0 .. 6 : k = (x \div 4096) % 8
  OBVIOUS
<1>. DEFINE Power(j) == 2^(2 * j)
            Same(m) == (x % 4096) % m = x % m
<1>2. PICK p : p = Power(k) /\ p \in {1, 4, 16, 64, 256, 1024, 4096}
  <2>1. /\ Power(0) = 1 /\ Power(1) = 4 /\ Power(2) = 16 /\ Power(3) = 64
        /\ Power(4) = 256 /\ Power(5) = 1024 /\ Power(6) = 4096
    OBVIOUS
  <2>. HIDE DEF Power
  <2>. QED
    BY <2>1
<1>3. Same(1) /\ Same(4) /\ Same(16) /\ Same(64) /\ Same(256) /\ Same(1024) /\ Same(4096)
  <2>1. Same(1)
    OBVIOUS
  <2>2. Same(4)
    OBVIOUS
  <2>3. Same(16)
    OBVIOUS
  <2>4. Same(64)
    OBVIOUS
  <2>5. Same(256)
    OBVIOUS
  <2>6. Same(1024)
    OBVIOUS
  <2>7. Same(4096)
    OBVIOUS
  <2>. QED
    BY <2>1, <2>2, <2>3, <2>4, <2>5, <2>6, <2>7
<1>4. Same(p)
  <2>. HIDE DEF Same
  <2>. QED
    BY <1>2, <1>3
<1>5. p = NaturalMask(x)
  BY <1>1, <1>2 DEF NaturalMask
<1>. QED
  BY <1>4, <1>5

\* EdbGetNaturalIndex16 shows the natural and constant units VmReadIndex16 computes
\* with, for every index whose natural bits do not reach into the field that holds
\* their number.
THEOREM IndexesShown == Spec => []IndexesAgree
<1>1. ASSUME TInv, NEW r \in 0 .. 7, NEW index, index = vm.Gpr[r] % 2^16, ~ Overlong(index)
      PROVE  LET shown == EdbGetNaturalIndex16(index)
                 used  == VmReadIndex16(index)
                 Value(x) == IF shown.Sign THEN -x ELSE x
             IN /\ used.NaturalUnits = Value(shown.NaturalUnits)
                /\ used.ConstUnits = Value(shown.ConstantUnits)
  <2>1. PICK g \in Int : g = vm.Gpr[r]
    BY <1>1, FieldTypes DEF TInv
  <2>2. 2^12 = 4096 /\ 2^16 = 65536 /\ 2^15 = 32768
    OBVIOUS
  <2>3. index \in Int /\ 0 <= index /\ index <= 65535
    <3>1. index = g % 65536
      BY <1>1, <2>1, <2>2
    <3>. QED
      BY <3>1
  <2>4. (index \div 4096) % 8 # 7
    BY <1>1, <2>2 DEF Overlong
  <2>5. PICK p : p = NaturalMask(index)
    OBVIOUS
  <2>6. (index % 4096) % p = index % p
    BY <2>3, <2>4, <2>5, MaskOfData
  <2>7. PICK natural \in Int, constant \in Int : natural = index % p /\ constant = (index % 4096) \div p
    BY <2>3, <2>4, <2>5, UnitsBounded DEF SmallUnits
  <2>8. PICK sign \in {-1, 1} : sign = IF Bit(index, 15) THEN -1 ELSE 1
    OBVIOUS
  <2>9. /\ VmReadIndex16(index).NaturalUnits = sign * natural
        /\ VmReadIndex16(index).ConstUnits = sign * constant
    BY <2>2, <2>5, <2>7, <2>8 DEF VmReadIndex16, Index, NaturalMask
  <2>10. EdbGetNaturalIndex16(index) = [Sign |-> Bit(index, 15), NaturalUnits |-> natural,
                                        ConstantUnits |-> constant]
    BY <2>2, <2>5, <2>6, <2>7 DEF EdbGetNaturalIndex16, NaturalMask
  <2>11. sign * natural = (IF Bit(index, 15) THEN -natural ELSE natural)
    BY <2>8
  <2>12. sign * constant = (IF Bit(index, 15) THEN -constant ELSE constant)
    BY <2>8
  <2>. QED
    BY <2>9, <2>10, <2>11, <2>12
<1>2. TInv => IndexesAgree
  BY <1>1 DEF IndexesAgree
<1>. QED
  BY <1>2, AlwaysTInv, PTL

-----------------------------------------------------------------------------
(***************************************************************************)
(* Comparisons.                                                            *)
(***************************************************************************)

\* Instruction op of registers r1 and r2 with bits 6 and 7 of the opcode byte.
IsForm(i, op, wide, hi, r1, r2, data) ==
  i = [opcode |-> op + 64 * wide + 128 * hi, operands |-> r1 + 16 * r2, data |-> data]

\* What the functions read of that instruction.
Decoded(i, op, wide, hi, r1, r2, data) ==
  /\ Opcode(i) = op /\ (Wide(i) <=> wide = 1) /\ (Immediate(i) <=> hi = 1)
  /\ OPERAND1_REGNUM(i) = r1 /\ OPERAND2_REGNUM(i) = r2
  /\ ~ OPERAND1_INDIRECT(i) /\ ~ OPERAND2_INDIRECT(i)
  /\ r2 = 0 => ~ Bit(i.operands, 4)
  /\ i.data = data

\* An instruction of the form is read back as the form says.
LEMMA FormBits ==
  ASSUME NEW op \in 0 .. 63, NEW wide \in {0, 1}, NEW hi \in {0, 1},
         NEW r1 \in 0 .. 7, NEW r2 \in 0 .. 7, NEW data,
         NEW i, IsForm(i, op, wide, hi, r1, r2, data)
  PROVE  Decoded(i, op, wide, hi, r1, r2, data)
<1>1. 2^3 = 8 /\ 2^4 = 16 /\ 2^6 = 64 /\ 2^7 = 128
  OBVIOUS
<1>3. PICK o \in Int : o = op + 64 * wide + 128 * hi
  OBVIOUS
<1>4. i.opcode = o
  BY <1>3 DEF IsForm
<1>5. o % 64 = op /\ (o \div 64) % 2 = wide /\ (o \div 128) % 2 = hi
  BY <1>3
<1>6. PICK p \in Int : p = r1 + 16 * r2
  OBVIOUS
<1>7. i.operands = p /\ i.data = data
  BY <1>6 DEF IsForm
<1>8. /\ p % 8 = r1 /\ (p \div 16) % 8 = r2
      /\ (p \div 8) % 2 = 0 /\ (p \div 128) % 2 = 0
      /\ r2 = 0 => (p \div 16) % 2 = 0
  BY <1>6
<1>9. Opcode(i) = op
  BY <1>4, <1>5 DEF Opcode
<1>10. Wide(i) <=> wide = 1
  BY <1>1, <1>4, <1>5 DEF Wide, Bit
<1>11. Immediate(i) <=> hi = 1
  BY <1>1, <1>4, <1>5 DEF Immediate, Bit
<1>14. OPERAND1_REGNUM(i) = r1 /\ OPERAND2_REGNUM(i) = r2
  BY <1>7, <1>8 DEF OPERAND1_REGNUM, OPERAND2_REGNUM
<1>15. ~ OPERAND1_INDIRECT(i) /\ ~ OPERAND2_INDIRECT(i)
  BY <1>1, <1>7, <1>8 DEF OPERAND1_INDIRECT, OPERAND2_INDIRECT, Bit
<1>16. r2 = 0 => ~ Bit(i.operands, 4)
  BY <1>1, <1>7, <1>8 DEF Bit
<1>. QED
  BY <1>7, <1>9, <1>10, <1>11, <1>14, <1>15, <1>16 DEF Decoded

\* CMP leaves comparison n of registers r1 and r2, width bytes of each.
CMPLeaves(c, i, n, width, r1, r2) ==
  ExecuteCMP(c, i).CC = Compares(n, SInt(c.Gpr[r1], width), SInt(c.Gpr[r2], width),
                                 UInt(c.Gpr[r1], width), UInt(c.Gpr[r2], width))

\* The condition CMP leaves when it compares two registers.
LEMMA CMPRegisters ==
  ASSUME NEW c, Typed(c), NEW op \in 5 .. 9, NEW wide \in {0, 1},
         NEW r1 \in 0 .. 7, NEW r2 \in 0 .. 7, NEW data,
         NEW width, width = (IF wide = 1 THEN 8 ELSE 4),
         NEW i, IsForm(i, op, wide, 0, r1, r2, data)
  PROVE  CMPLeaves(c, i, op - 5, width, r1, r2)
<1>1. IsForm(i, op, wide, 0, r1, r2, data)
  OBVIOUS
<1>2. /\ Opcode(i) = op /\ (Wide(i) <=> wide = 1) /\ ~ Immediate(i)
      /\ OPERAND1_REGNUM(i) = r1 /\ OPERAND2_REGNUM(i) = r2 /\ ~ OPERAND2_INDIRECT(i)
  <2>1. PICK no \in {0, 1} : no = 0
    OBVIOUS
  <2>2. PICK o \in 0 .. 63 : o = op
    OBVIOUS
  <2>3. IsForm(i, o, wide, no, r1, r2, data)
    BY <1>1, <2>1, <2>2
  <2>4. Decoded(i, o, wide, no, r1, r2, data)
    BY <2>3, FormBits
  <2>. QED
    BY <2>1, <2>2, <2>4 DEF Decoded
<1>3. PICK x \in Words, y \in Words : x = c.Gpr[r1] /\ y = c.Gpr[r2]
  BY DEF Typed
<1>4. Datum16(i) = 0
  BY <1>2 DEF Datum16
<1>5. UInt(c.Gpr[OPERAND2_REGNUM(i)] + Datum16(i), 8) = y
  <2>1. y + 0 = y
    BY WordsType
  <2>. QED
    BY <1>2, <1>3, <1>4, <2>1, WordsType
<1>6. PICK b : b = Compares(op - 5, SInt(x, width), SInt(y, width), UInt(x, width), UInt(y, width))
  OBVIOUS
<1>7. OP.CMPEQ = 5
  BY OpcodeNumbers
<1>8. ExecuteCMP(c, i) = Advance([c EXCEPT !.CC = b], 2)
  BY <1>2, <1>3, <1>5, <1>6, <1>7, ZenonT(60) DEF ExecuteCMP
<1>9. Advance([c EXCEPT !.CC = b], 2).CC = b
  BY DEF Advance, Typed, IsContext, Fields
<1>. QED
  BY <1>3, <1>6, <1>8, <1>9 DEF CMPLeaves

\* The condition CMPI leaves when it compares a register with a number of 32 bits.
LEMMA CMPIRegister ==
  ASSUME NEW c, Typed(c), NEW n \in 0 .. 4, NEW wide \in {0, 1},
         NEW r1 \in 0 .. 7, NEW x \in Int,
         NEW width, width = (IF wide = 1 THEN 8 ELSE 4),
         NEW i, IsForm(i, 45 + n, wide, 1, r1, 0, <<x>>)
  PROVE  ExecuteCMPI(c, i).CC
           = Compares(n, SInt(c.Gpr[r1], width), SInt(x, 4), UInt(c.Gpr[r1], width), UInt(SInt(x, 4), 4))
<1>1. IsForm(i, 45 + n, wide, 1, r1, 0, <<x>>)
  OBVIOUS
<1>2. /\ Opcode(i) = 45 + n /\ (Wide(i) <=> wide = 1) /\ Immediate(i)
      /\ OPERAND1_REGNUM(i) = r1 /\ ~ OPERAND1_INDIRECT(i)
      /\ ~ Bit(i.operands, 4) /\ i.data = <<x>>
  <2>1. PICK yes \in {0, 1} : yes = 1
    OBVIOUS
  <2>2. PICK o \in 0 .. 63 : o = 45 + n
    OBVIOUS
  <2>3. PICK none \in 0 .. 7 : none = 0
    OBVIOUS
  <2>4. IsForm(i, o, wide, yes, r1, none, <<x>>)
    BY <1>1, <2>1, <2>2, <2>3
  <2>5. Decoded(i, o, wide, yes, r1, none, <<x>>)
    BY <2>4, FormBits
  <2>. QED
    BY <2>1, <2>2, <2>3, <2>5 DEF Decoded
<1>3. PICK y : y = SInt(x, 4)
  OBVIOUS
<1>4. i.data[1] = x
  BY <1>2
<1>5. PICK g : g = c.Gpr[r1]
  OBVIOUS
<1>6. PICK b : b = Compares(n, SInt(g, width), y, UInt(g, width), UInt(y, 4))
  OBVIOUS
<1>7. Opcode(i) - OP.CMPIEQ = n
  BY <1>2, OpcodeNumbers
<1>8. \E size : ExecuteCMPI(c, i) = Advance([c EXCEPT !.CC = b], size)
  BY <1>2, <1>3, <1>4, <1>5, <1>6, <1>7, ZenonT(60) DEF ExecuteCMPI
<1>9. \A size : Advance([c EXCEPT !.CC = b], size).CC = b
  BY DEF Advance, Typed, IsContext, Fields
<1>. QED
  BY <1>3, <1>5, <1>6, <1>8, <1>9

\* The order of two numbers, as Compares decides it.
LEMMA ComparesOrder ==
  ASSUME NEW x \in Int, NEW y \in Int, NEW u \in Int, NEW v \in Int, x = y <=> u = v
  PROVE  /\ Compares(1, x, y, u, v) <=> Compares(2, y, x, v, u)
         /\ Compares(3, x, y, u, v) <=> Compares(4, y, x, v, u)
         /\ Compares(1, x, y, u, v) \/ Compares(1, y, x, v, u)
         /\ Compares(3, x, y, u, v) \/ Compares(3, y, x, v, u)
         /\ Compares(1, x, y, u, v) /\ Compares(1, y, x, v, u) <=> Compares(0, x, y, u, v)
         /\ Compares(3, x, y, u, v) /\ Compares(3, y, x, v, u) <=> Compares(0, x, y, u, v)
<1>1. \A a, b, p, q : /\ Compares(0, a, b, p, q) <=> a = b
                      /\ Compares(1, a, b, p, q) <=> a <= b
                      /\ Compares(2, a, b, p, q) <=> a >= b
                      /\ Compares(3, a, b, p, q) <=> p <= q
                      /\ Compares(4, a, b, p, q) <=> p >= q
  BY DEF Compares
<1>. QED
  BY <1>1

\* The two parts of ComparisonLaw, for one comparison and one width of it, and when
\* register y holds the immediate number.
OrderAt(le, bit, x, y) ==
  LET CMP(op, r1, r2) ==
        ExecuteCMP(vm, [opcode |-> op + bit, operands |-> r1 + 16 * r2, data |-> <<>>]).CC
  IN /\ CMP(le, x, y) <=> CMP(le + 1, y, x)
     /\ CMP(le, x, y) \/ CMP(le, y, x)
     /\ CMP(le, x, y) /\ CMP(le, y, x) <=> CMP(OP.CMPEQ, x, y)
ImmediateAt(n, bit, x, y) ==
  ExecuteCMPI(vm, [opcode |-> OP.CMPIEQ + n + bit + 128, operands |-> x,
                   data |-> <<SInt(vm.Gpr[y], 4)>>]).CC
    <=> ExecuteCMP(vm, [opcode |-> OP.CMPEQ + n + bit, operands |-> x + 16 * y,
                        data |-> <<>>]).CC
HeldAt(n, wide, y) ==
  \/ ~ wide
  \/ n \in 0 .. 2 /\ SInt(vm.Gpr[y], 8) = SInt(vm.Gpr[y], 4)
  \/ n \in 3 .. 4 /\ UInt(vm.Gpr[y], 8) = UInt(vm.Gpr[y], 4)

\* ExecuteCMP compares all words by one total order, signed and unsigned, and all
\* five orders of ExecuteCMPI compare a register with a number as ExecuteCMP does
\* with a register that holds it: at 32 bits any register with these low bits, at 64
\* bits the number with its sign for EQ, LTE and GTE and with zeros for ULTE and UGTE.
THEOREM ComparisonsOrder == Spec => []ComparisonLaw
<1>1. ASSUME TInv, NEW wide \in BOOLEAN, NEW x \in {1}, NEW y \in {2, 3},
             NEW bit, bit = (IF wide THEN 64 ELSE 0),
             NEW le \in {OP.CMPLTE, OP.CMPULTE}
      PROVE  OrderAt(le, bit, x, y)
  <2>1. Typed(vm)
    BY <1>1 DEF TInv
  <2>2. PICK w \in {0, 1}, width \in {4, 8} :
          bit = 64 * w /\ width = (IF w = 1 THEN 8 ELSE 4)
    <3>1. 64 * 0 = 0 /\ 64 * 1 = 64
      OBVIOUS
    <3>. QED
      BY <1>1, <3>1
  <2>3. x \in 0 .. 7 /\ y \in 0 .. 7
    OBVIOUS
  <2>. DEFINE CMP(op, r1, r2) ==
                ExecuteCMP(vm, [opcode |-> op + bit, operands |-> r1 + 16 * r2, data |-> <<>>]).CC
  <2>4. \A op \in 5 .. 9, r1, r2 \in 0 .. 7 :
          CMP(op, r1, r2) = Compares(op - 5, SInt(vm.Gpr[r1], width), SInt(vm.Gpr[r2], width),
                                     UInt(vm.Gpr[r1], width), UInt(vm.Gpr[r2], width))
    <3>1. SUFFICES ASSUME NEW op \in 5 .. 9, NEW r1 \in 0 .. 7, NEW r2 \in 0 .. 7
                   PROVE  CMP(op, r1, r2)
                            = Compares(op - 5, SInt(vm.Gpr[r1], width), SInt(vm.Gpr[r2], width),
                                       UInt(vm.Gpr[r1], width), UInt(vm.Gpr[r2], width))
      OBVIOUS
    <3>2. PICK i : IsForm(i, op, w, 0, r1, r2, <<>>)
      BY DEF IsForm
    <3>3. i = [opcode |-> op + bit, operands |-> r1 + 16 * r2, data |-> <<>>]
      <4>1. op + 64 * w + 128 * 0 = op + bit
        BY <2>2
      <4>. QED
        BY <3>2, <4>1 DEF IsForm
    <3>4. ExecuteCMP(vm, i).CC
            = Compares(op - 5, SInt(vm.Gpr[r1], width), SInt(vm.Gpr[r2], width),
                       UInt(vm.Gpr[r1], width), UInt(vm.Gpr[r2], width))
      <4>1. op \in 5 .. 9 /\ r1 \in 0 .. 7 /\ r2 \in 0 .. 7 /\ w \in {0, 1}
        OBVIOUS
      <4>2. width = IF w = 1 THEN 8 ELSE 4
        BY <2>2
      <4>3. CMPLeaves(vm, i, op - 5, width, r1, r2)
        BY <2>1, <3>2, <4>1, <4>2, CMPRegisters
      <4>. QED
        BY <4>3 DEF CMPLeaves
    <3>. QED
      BY <3>3, <3>4
  <2>5. PICK g \in Int, h \in Int : g = vm.Gpr[x] /\ h = vm.Gpr[y]
    BY <2>1, <2>3, FieldTypes
  <2>6. PICK s \in Int, t \in Int, u \in Int, v \in Int :
          /\ s = SInt(g, width) /\ t = SInt(h, width) /\ u = UInt(g, width) /\ v = UInt(h, width)
    BY <2>2, IntTypes
  <2>7. s = t <=> u = v
    <3>1. width \in Nat \ {0}
      BY <2>2
    <3>2. UInt(s, width) = u /\ UInt(t, width) = v
      BY <2>6, <3>1, SIntType
    <3>. QED
      BY <2>6, <3>2, SIntSame
  <2>. HIDE DEF CMP
  <2>8. /\ CMP(5, x, y) = Compares(0, s, t, u, v)
        /\ CMP(6, x, y) = Compares(1, s, t, u, v) /\ CMP(6, y, x) = Compares(1, t, s, v, u)
        /\ CMP(7, y, x) = Compares(2, t, s, v, u)
        /\ CMP(8, x, y) = Compares(3, s, t, u, v) /\ CMP(8, y, x) = Compares(3, t, s, v, u)
        /\ CMP(9, y, x) = Compares(4, t, s, v, u)
    <3>1. \A op \in 5 .. 9, n \in 0 .. 4 : op - 5 = n =>
            /\ CMP(op, x, y) = Compares(n, s, t, u, v)
            /\ CMP(op, y, x) = Compares(n, t, s, v, u)
      <4>1. SUFFICES ASSUME NEW op \in 5 .. 9, NEW n \in 0 .. 4, op - 5 = n
                     PROVE  /\ CMP(op, x, y) = Compares(n, s, t, u, v)
                            /\ CMP(op, y, x) = Compares(n, t, s, v, u)
        OBVIOUS
      <4>2. /\ CMP(op, x, y) = Compares(n, SInt(vm.Gpr[x], width), SInt(vm.Gpr[y], width),
                                        UInt(vm.Gpr[x], width), UInt(vm.Gpr[y], width))
            /\ CMP(op, y, x) = Compares(n, SInt(vm.Gpr[y], width), SInt(vm.Gpr[x], width),
                                        UInt(vm.Gpr[y], width), UInt(vm.Gpr[x], width))
        BY <2>3, <2>4, <4>1, Zenon
      <4>. QED
        BY <2>5, <2>6, <4>2, Zenon
    <3>2. /\ 5 \in 5 .. 9 /\ 6 \in 5 .. 9 /\ 7 \in 5 .. 9 /\ 8 \in 5 .. 9 /\ 9 \in 5 .. 9
          /\ 0 \in 0 .. 4 /\ 1 \in 0 .. 4 /\ 2 \in 0 .. 4 /\ 3 \in 0 .. 4 /\ 4 \in 0 .. 4
          /\ 5 - 5 = 0 /\ 6 - 5 = 1 /\ 7 - 5 = 2 /\ 8 - 5 = 3 /\ 9 - 5 = 4
      OBVIOUS
    <3>. QED
      BY ONLY <3>1, <3>2, Zenon
  <2>9. le = 6 \/ le = 8
    BY DEF OP
  <2>10. OP.CMPEQ = 5
    BY OpcodeNumbers
  <2>11. /\ CMP(le, x, y) <=> CMP(le + 1, y, x)
         /\ CMP(le, x, y) \/ CMP(le, y, x)
         /\ CMP(le, x, y) /\ CMP(le, y, x) <=> CMP(OP.CMPEQ, x, y)
    <3>1. /\ CMP(6, x, y) <=> CMP(7, y, x)
          /\ CMP(6, x, y) \/ CMP(6, y, x)
          /\ CMP(6, x, y) /\ CMP(6, y, x) <=> CMP(5, x, y)
          /\ CMP(8, x, y) <=> CMP(9, y, x)
          /\ CMP(8, x, y) \/ CMP(8, y, x)
          /\ CMP(8, x, y) /\ CMP(8, y, x) <=> CMP(5, x, y)
      BY <2>7, <2>8, ComparesOrder
    <3>2. 6 + 1 = 7 /\ 8 + 1 = 9
      OBVIOUS
    <3>. QED
      BY <2>9, <2>10, <3>1, <3>2, Zenon
  <2>. QED
    BY <2>11 DEF CMP, OrderAt
<1>2. ASSUME TInv, NEW wide \in BOOLEAN, NEW x \in {1}, NEW y \in {2, 3},
             NEW bit, bit = (IF wide THEN 64 ELSE 0),
             NEW n \in 0 .. 4, HeldAt(n, wide, y)
      PROVE  ImmediateAt(n, bit, x, y)
  <2>1. Typed(vm)
    BY <1>2 DEF TInv
  <2>2. PICK w \in {0, 1}, width \in {4, 8} :
          bit = 64 * w /\ width = (IF w = 1 THEN 8 ELSE 4)
    <3>1. 64 * 0 = 0 /\ 64 * 1 = 64
      OBVIOUS
    <3>. QED
      BY <1>2, <3>1
  <2>3. x \in 0 .. 7 /\ y \in 0 .. 7
    OBVIOUS
  <2>4. PICK g \in Int, h \in Int : g = vm.Gpr[x] /\ h = vm.Gpr[y]
    BY <2>1, <2>3, FieldTypes
  <2>5. PICK z \in Int : z = SInt(h, 4)
    BY IntTypes
  <2>6. /\ SInt(z, 4) = z /\ UInt(z, 4) = UInt(h, 4)
        /\ n \in 0 .. 2 => SInt(h, width) = z
        /\ n \in 3 .. 4 => UInt(h, width) = UInt(z, 4)
    <3>1. 4 \in Nat \ {0}
      OBVIOUS
    <3>2. UInt(z, 4) = UInt(h, 4)
      BY <2>5, <3>1, SIntType
    <3>3. SInt(z, 4) = z
      BY <2>5, <3>2, SIntSame
    <3>4. CASE ~ wide
      <4>1. width = 4
        <5>1. 64 * 0 = 0 /\ 64 * 1 = 64
          OBVIOUS
        <5>. QED
          BY <1>2, <2>2, <3>4, <5>1
      <4>. QED
        BY <2>5, <3>2, <3>3, <4>1
    <3>5. CASE wide
      <4>1. width = 8
        <5>1. 64 * 0 = 0 /\ 64 * 1 = 64
          OBVIOUS
        <5>. QED
          BY <1>2, <2>2, <3>5, <5>1
      <4>2. /\ n \in 0 .. 2 => SInt(h, 8) = SInt(h, 4)
            /\ n \in 3 .. 4 => UInt(h, 8) = UInt(h, 4)
        BY <1>2, <2>4, <3>5 DEF HeldAt
      <4>. QED
        BY <2>5, <3>2, <3>3, <4>1, <4>2
    <3>. QED
      BY <3>2, <3>3, <3>4, <3>5
  <2>7. PICK i : i = [opcode |-> OP.CMPIEQ + n + bit + 128, operands |-> x, data |-> <<z>>]
    OBVIOUS
  <2>8. PICK j : j = [opcode |-> OP.CMPEQ + n + bit, operands |-> x + 16 * y, data |-> <<>>]
    OBVIOUS
  <2>9. ExecuteCMPI(vm, i).CC = Compares(n, SInt(g, width), z, UInt(g, width), UInt(z, 4))
    <3>1. OP.CMPIEQ + n + bit + 128 = 45 + n + 64 * w + 128 * 1 /\ x + 16 * 0 = x
      BY <2>2, OpcodeNumbers
    <3>2. IsForm(i, 45 + n, w, 1, x, 0, <<z>>)
      BY <2>7, <3>1 DEF IsForm
    <3>3. n \in 0 .. 4 /\ w \in {0, 1} /\ x \in 0 .. 7 /\ z \in Int
      BY <2>3
    <3>4. width = IF w = 1 THEN 8 ELSE 4
      BY <2>2
    <3>5. ExecuteCMPI(vm, i).CC
            = Compares(n, SInt(vm.Gpr[x], width), SInt(z, 4), UInt(vm.Gpr[x], width), UInt(SInt(z, 4), 4))
      BY ONLY <2>1, <3>2, <3>3, <3>4, CMPIRegister
    <3>. QED
      BY <2>4, <2>6, <3>5
  <2>10. ExecuteCMP(vm, j).CC = Compares(n, SInt(g, width), SInt(h, width), UInt(g, width), UInt(h, width))
    <3>1. OP.CMPEQ + n + bit = 5 + n + 64 * w + 128 * 0
      BY <2>2, OpcodeNumbers
    <3>2. PICK op \in 5 .. 9 : op = 5 + n /\ op - 5 = n
      OBVIOUS
    <3>3. IsForm(j, op, w, 0, x, y, <<>>)
      BY <2>8, <3>1, <3>2 DEF IsForm
    <3>4. op \in 5 .. 9 /\ w \in {0, 1} /\ x \in 0 .. 7 /\ y \in 0 .. 7
      BY <2>3
    <3>5. width = IF w = 1 THEN 8 ELSE 4
      BY <2>2
    <3>6. CMPLeaves(vm, j, op - 5, width, x, y)
      BY <2>1, <3>3, <3>4, <3>5, CMPRegisters
    <3>. QED
      BY <2>4, <3>2, <3>6 DEF CMPLeaves
  <2>11. /\ n \in 0 .. 2 => \A s, t, u, v1, v2 : Compares(n, s, t, u, v1) <=> Compares(n, s, t, u, v2)
         /\ n \in 3 .. 4 => \A s, t1, t2, u, v : Compares(n, s, t1, u, v) <=> Compares(n, s, t2, u, v)
    BY DEF Compares
  <2>12. n \in 0 .. 2 \/ n \in 3 .. 4
    OBVIOUS
  <2>13. ExecuteCMPI(vm, i).CC <=> ExecuteCMP(vm, j).CC
    BY <2>6, <2>9, <2>10, <2>11, <2>12
  <2>. QED
    BY <2>4, <2>5, <2>7, <2>8, <2>13 DEF ImmediateAt
<1>3. TInv => ComparisonLaw
  <2>. SUFFICES ASSUME TInv, NEW wide \in BOOLEAN, NEW x \in {1}, NEW y \in {2, 3}
                PROVE  LET bit == IF wide THEN 64 ELSE 0
                           CMP(op, r1, r2) ==
                             ExecuteCMP(vm, [opcode |-> op + bit, operands |-> r1 + 16 * r2,
                                             data |-> <<>>]).CC
                           CMPI(op, r1, r2) ==
                             ExecuteCMPI(vm, [opcode |-> op + bit + 128, operands |-> r1,
                                              data |-> <<SInt(vm.Gpr[r2], 4)>>]).CC
                           Held(n) == \/ ~ wide
                                      \/ n \in 0 .. 2 /\ SInt(vm.Gpr[y], 8) = SInt(vm.Gpr[y], 4)
                                      \/ n \in 3 .. 4 /\ UInt(vm.Gpr[y], 8) = UInt(vm.Gpr[y], 4)
                       IN /\ \A le \in {OP.CMPLTE, OP.CMPULTE} :
                               /\ CMP(le, x, y) <=> CMP(le + 1, y, x)
                               /\ CMP(le, x, y) \/ CMP(le, y, x)
                               /\ CMP(le, x, y) /\ CMP(le, y, x) <=> CMP(OP.CMPEQ, x, y)
                          /\ \A n \in 0 .. 4 :
                               Held(n) => (CMPI(OP.CMPIEQ + n, x, y) <=> CMP(OP.CMPEQ + n, x, y))
    BY Zenon DEF ComparisonLaw
  <2>1. \A le \in {OP.CMPLTE, OP.CMPULTE} : OrderAt(le, IF wide THEN 64 ELSE 0, x, y)
    <3>1. PICK bit : bit = IF wide THEN 64 ELSE 0
      OBVIOUS
    <3>2. \A le \in {OP.CMPLTE, OP.CMPULTE} : OrderAt(le, bit, x, y)
      BY <1>1, <3>1
    <3>. QED
      BY <3>1, <3>2, Zenon
  <2>2. \A n \in 0 .. 4 :
          HeldAt(n, wide, y) => ImmediateAt(n, IF wide THEN 64 ELSE 0, x, y)
    <3>1. PICK bit : bit = IF wide THEN 64 ELSE 0
      OBVIOUS
    <3>2. \A n \in 0 .. 4 : HeldAt(n, wide, y) => ImmediateAt(n, bit, x, y)
      BY <1>2, <3>1
    <3>. QED
      BY <3>1, <3>2, Zenon
  <2>. QED
    BY <2>1, <2>2, Zenon DEF OrderAt, ImmediateAt, HeldAt
<1>. QED
  BY <1>3, AlwaysTInv, PTL

-----------------------------------------------------------------------------
(***************************************************************************)
(* Division.                                                               *)
(***************************************************************************)

\* A narrow word is a word.
LEMMA CutIsWord ==
  ASSUME NEW z \in Int, NEW width \in {4, 8}
  PROVE  UInt(z, width) \in Words /\ UInt(UInt(UInt(z, 8), width), 8) = UInt(z, width)
<1>1. 4 \in Nat /\ 8 \in Nat /\ width \in Nat /\ width <= 8
  OBVIOUS
<1>2. UInt(UInt(z, 8), width) = UInt(z, width)
  BY <1>1, UIntNested
<1>3. PICK u \in Int : u = UInt(z, width)
  BY IntTypes
<1>4. u \in Words
  <2>1. Cells(4) <= Cells(8) /\ Cells(4) \in Nat /\ Cells(8) \in Nat
    <3>1. Cells(4 + 4) = Cells(4) * Cells(4) /\ Cells(4) \in Nat \ {0}
      BY <1>1, CellsSum
    <3>2. PICK m \in Nat \ {0} : m = Cells(4)
      BY <3>1
    <3>3. m <= m * m
      OBVIOUS
    <3>. QED
      BY <3>1, <3>2, <3>3
  <2>2. u \in 0 .. Cells(width) - 1
    BY <1>1, <1>3, UIntType
  <2>3. width = 4 \/ width = 8
    OBVIOUS
  <2>. QED
    BY <2>1, <2>2, <2>3 DEF Words
<1>5. UInt(u, 8) = u
  BY <1>4, WordsType
<1>. QED
  BY <1>2, <1>3, <1>4, <1>5

\* What data instruction op makes of words x and y.
Manip(op, x, y, width) ==
  UInt(DataManip(op, Extend(op, x, width), Extend(op, y, width), width, TRUE), width)

\* What data instruction op of registers r1 and r2 makes of c.
ManipLeaves(c, d, op, r1, r2, width) ==
  /\ IsContext(d)
  /\ d.Gpr \in [0 .. 7 -> Words]
  /\ d.Gpr = [c.Gpr EXCEPT ![r1] = Manip(op, c.Gpr[r1], c.Gpr[r2], width)]

\* A data instruction of registers leaves its result in the first one, cut to its
\* width, and the others as they were.
LEMMA ManipRegisters ==
  ASSUME NEW c, IsContext(c), c.Gpr \in [0 .. 7 -> Words],
         NEW op \in 10 .. 28, NEW wide \in {0, 1}, NEW r1 \in 1 .. 7, NEW r2 \in 0 .. 7,
         NEW width, width = (IF wide = 1 THEN 8 ELSE 4),
         NEW i, IsForm(i, op, wide, 0, r1, r2, <<>>)
  PROVE  ManipLeaves(c, ExecuteDataManip(c, i, TRUE), op, r1, r2, width)
<1>1. /\ Opcode(i) = op /\ (Wide(i) <=> wide = 1) /\ ~ Immediate(i)
      /\ OPERAND1_REGNUM(i) = r1 /\ OPERAND2_REGNUM(i) = r2
      /\ ~ OPERAND1_INDIRECT(i) /\ ~ OPERAND2_INDIRECT(i)
  <2>1. PICK no \in {0, 1} : no = 0
    OBVIOUS
  <2>2. PICK o \in 0 .. 63 : o = op
    OBVIOUS
  <2>3. PICK q1 \in 0 .. 7 : q1 = r1
    OBVIOUS
  <2>4. IsForm(i, o, wide, no, q1, r2, <<>>)
    BY <2>1, <2>2, <2>3
  <2>5. Decoded(i, o, wide, no, q1, r2, <<>>)
    BY <2>4, FormBits
  <2>. QED
    BY <2>1, <2>2, <2>3, <2>5 DEF Decoded
<1>2. width \in {4, 8} /\ width = IF Wide(i) THEN 8 ELSE 4
  BY <1>1
<1>3. PICK g1 \in Words, g2 \in Words : g1 = c.Gpr[r1] /\ g2 = c.Gpr[r2]
  OBVIOUS
<1>4. Datum16(i) = 0 /\ UInt(g2 + Datum16(i), 8) = g2
  <2>1. Datum16(i) = 0
    BY <1>1 DEF Datum16
  <2>2. g2 + 0 = g2
    BY WordsType
  <2>. QED
    BY <2>1, <2>2, WordsType
<1>5. PICK x, y : x = Extend(op, g1, width) /\ y = Extend(op, g2, width)
  OBVIOUS
<1>6. ManipOperands(c, i) = <<x, y>>
  BY <1>1, <1>2, <1>3, <1>4, <1>5, Zenon DEF ManipOperands
<1>7. x \in Words /\ y \in Words /\ (y # 0 => UInt(y, width) # 0)
  BY <1>2, <1>3, <1>5, ExtendType, WordsType
<1>8. PICK z \in Int : z = DataManip(op, x, y, width, TRUE)
  BY <1>2, <1>7, DataManipType
<1>9. PICK u \in Words : u = UInt(z, width) /\ UInt(UInt(UInt(z, 8), width), 8) = u
  BY <1>2, <1>8, CutIsWord
<1>10. PICK raised : raised = (IF op \in Divides /\ y = 0 THEN Raise(c, "DIVIDE_ERROR", "FATAL") ELSE c)
  OBVIOUS
<1>11. IsContext(raised) /\ raised.Gpr = c.Gpr
  BY <1>10, RaiseContext DEF SameData
<1>12. PICK v : v = UInt(UInt(z, 8), width)
  OBVIOUS
<1>13. ManipOperands(c, i)[1] = x /\ ManipOperands(c, i)[2] = y
  BY <1>6
<1>14. ExecuteDataManip(c, i, TRUE) = Advance(SetReg(raised, r1, v), 2)
  <2>1. r1 # 0
    OBVIOUS
  <2>. QED
    BY <1>1, <1>2, <1>8, <1>10, <1>12, <1>13, <2>1, ZenonT(60) DEF ExecuteDataManip
<1>15. PICK d : d = SetReg(raised, r1, v)
  OBVIOUS
<1>16. IsContext(d) /\ d.Gpr = [c.Gpr EXCEPT ![r1] = u]
  <2>1. IsContext(d)
    BY <1>11, <1>15, SetRegContext
  <2>2. UInt(v, 8) = u
    BY <1>9, <1>12
  <2>. QED
    BY <1>11, <1>15, <2>1, <2>2 DEF SetReg, IsContext, Fields
<1>17. IsContext(Advance(d, 2)) /\ Advance(d, 2).Gpr = d.Gpr
  BY <1>16, AdvanceContext DEF SameData
<1>18. [c.Gpr EXCEPT ![r1] = u] \in [0 .. 7 -> Words]
  OBVIOUS
<1>. QED
  BY <1>3, <1>5, <1>8, <1>9, <1>14, <1>15, <1>16, <1>17, <1>18 DEF ManipLeaves, Manip

\* Extending an operand leaves the bytes the instruction computes with.
LEMMA ExtendSame ==
  ASSUME NEW op, NEW z \in Int, NEW width \in {4, 8}
  PROVE  /\ UInt(Extend(op, z, width), width) = UInt(z, width)
         /\ SInt(Extend(op, z, width), width) = SInt(z, width)
<1>1. 4 \in Nat /\ 8 \in Nat /\ 4 <= 8 /\ 4 \in Nat \ {0} /\ 8 \in Nat \ {0}
  OBVIOUS
<1>2. PICK s \in Int : s = SInt(z, 4)
  BY IntTypes
<1>3. UInt(UInt(s, 8), 4) = UInt(z, 4)
  <2>1. UInt(UInt(s, 8), 4) = UInt(s, 4)
    BY <1>1, UIntNested
  <2>2. UInt(s, 4) = UInt(z, 4)
    BY <1>1, <1>2, SIntType
  <2>. QED
    BY <2>1, <2>2
<1>4. UInt(UInt(z, 8), 8) = UInt(z, 8) /\ UInt(UInt(z, 4), 4) = UInt(z, 4)
  BY <1>1, UIntType
<1>5. width = 4 \/ width = 8
  OBVIOUS
<1>6. UInt(Extend(op, z, width), width) = UInt(z, width)
  BY <1>2, <1>3, <1>4, <1>5, Zenon DEF Extend
<1>. QED
  BY <1>6, SIntSame

\* A number in the range of n bytes is its own value with a sign.
LEMMA SIntFits ==
  ASSUME NEW n \in Nat \ {0}, NEW v \in Int, NEW h \in Nat \ {0},
         Cells(n) = 2 * h, Cells(n) \div 2 = h, -h <= v, v < h
  PROVE  SInt(v, n) = v
<1>1. PICK m \in Nat \ {0} : m = Cells(n) /\ m = 2 * h
  BY CellsSum
<1>2. CASE v >= 0
  <2>1. v \in 0 .. Cells(n) - 1
    BY <1>1, <1>2
  <2>2. UInt(v, n) = v
    BY <2>1, UIntSmall
  <2>. QED
    BY <2>2 DEF SInt
<1>3. CASE v < 0
  <2>1. PICK y \in Int : y = v + m
    OBVIOUS
  <2>2. y \in 0 .. Cells(n) - 1 /\ y >= h
    BY <1>1, <1>3, <2>1
  <2>3. UInt(y, n) = y
    BY <2>2, UIntSmall
  <2>4. UInt(v, n) = UInt(y, n)
    <3>1. PICK k \in Int : k = 1 /\ Exceeds(y, v, m, k)
      <4>1. Exceeds(y, v, m, 1)
        BY <2>1 DEF Exceeds
      <4>. QED
        BY <4>1
    <3>2. Rem(y, m) = Rem(v, m)
      BY ONLY <3>1, m \in Nat \ {0}, y \in Int, v \in Int, k \in Int, RemExceeds
    <3>. QED
      BY <1>1, <3>2 DEF UInt, Rem
  <2>5. SInt(v, n) = y - m
    BY <1>1, <2>2, <2>3, <2>4 DEF SInt
  <2>. QED
    BY <2>1, <2>5
<1>. QED
  BY <1>2, <1>3

\* Instructions of numbers with a sign compute with their operands as 64-bit
\* numbers.
LEMMA ExtendSigned ==
  ASSUME NEW op \in Signed, NEW z \in Int, NEW width \in {4, 8}
  PROVE  SInt(Extend(op, z, width), 8) = SInt(z, width)
<1>1. 4 \in Nat /\ 8 \in Nat /\ 4 \in Nat \ {0} /\ 8 \in Nat \ {0}
  OBVIOUS
<1>2. CASE width = 8
  BY <1>2, ExtendSame
<1>3. CASE width = 4
  <2>1. PICK h \in Nat \ {0} : Cells(4) = 2 * h /\ Cells(4) \div 2 = h
    BY <1>1, CellsHalf
  <2>2. PICK g \in Nat \ {0} : Cells(8) = 2 * g /\ Cells(8) \div 2 = g
    BY <1>1, CellsHalf
  <2>3. h <= g
    <3>1. Cells(4 + 4) = Cells(4) * Cells(4)
      BY <1>1, CellsSum
    <3>2. PICK m \in Nat \ {0}, w \in Nat \ {0} : m = Cells(4) /\ w = Cells(8)
      <4>1. Cells(4) \in Nat \ {0} /\ Cells(8) \in Nat \ {0}
        BY <1>1, CellsType
      <4>. QED
        BY <4>1
    <3>3. w = m * m
      BY <3>1, <3>2
    <3>4. m <= m * m
      OBVIOUS
    <3>. QED
      BY <2>1, <2>2, <3>2, <3>3, <3>4
  <2>4. PICK s \in Int : s = SInt(z, 4)
    BY IntTypes
  <2>5. -h <= s /\ s < h
    BY <1>1, <2>1, <2>4, SIntType
  <2>6. SInt(s, 8) = s
    <3>1. -g <= s /\ s < g
      BY <2>3, <2>5
    <3>. QED
      BY ONLY <1>1, <2>2, <3>1, s \in Int, g \in Nat \ {0}, SIntFits
  <2>7. Extend(op, z, width) = UInt(s, 8)
    BY <1>3, <2>4 DEF Extend
  <2>8. SInt(UInt(s, 8), 8) = SInt(s, 8)
    <3>1. UInt(UInt(s, 8), 8) = UInt(s, 8)
      BY <1>1, UIntType
    <3>. QED
      BY <3>1, SIntSame
  <2>. QED
    BY <1>3, <2>4, <2>6, <2>7, <2>8
<1>. QED
  BY <1>2, <1>3

\* Words x, y, Q and R of width bytes agree with numbers of one division.
Quotients(a, b, q, r, x, y, Q, R, width) ==
  /\ a = q * b + r
  /\ UInt(a, width) = UInt(x, width) /\ UInt(b, width) = UInt(y, width)
  /\ UInt(Q, width) = UInt(q, width) /\ UInt(R, width) = UInt(r, width)

\* Words Q and P agree with factor and product, and s * t is that of b.
Multiplied(s, t, p, Q, b, P, width) ==
  /\ UInt(s, width) = UInt(Q, width) /\ UInt(t, width) = UInt(b, width)
  /\ p = s * t
  /\ UInt(P, width) = UInt(p, width)

\* q * b + r, computed in words of n bytes from words that agree with them.
LEMMA Recombined ==
  ASSUME NEW n \in Nat, NEW a \in Int, NEW b \in Int, NEW q \in Int, NEW r \in Int,
         NEW s \in Int, NEW t \in Int, NEW p \in Int,
         NEW x, NEW y, NEW Q \in Int, NEW R \in Int, NEW P \in Int, NEW S \in Int,
         Quotients(a, b, q, r, x, y, Q, R, n), Multiplied(s, t, p, Q, b, P, n), S = P + R
  PROVE  UInt(S, n) = UInt(a, n)
<1>1. PICK e \in Int : e = q * b
  OBVIOUS
<1>2. /\ UInt(s, n) = UInt(q, n) /\ UInt(t, n) = UInt(b, n) /\ p = s * t
      /\ UInt(P, n) = UInt(p, n) /\ UInt(R, n) = UInt(r, n) /\ a = q * b + r
  BY DEF Quotients, Multiplied
<1>3. UInt(p, n) = UInt(e, n)
  <2>1. UInt(s * t, n) = UInt(q * b, n)
    BY <1>2, UIntArithmetic
  <2>. QED
    BY <1>1, <1>2, <2>1
<1>4. UInt(P + R, n) = UInt(e + r, n)
  BY <1>2, <1>3, UIntArithmetic
<1>. QED
  BY <1>1, <1>2, <1>4

\* ExecuteDIV and ExecuteMOD give quotient and remainder of one division.
LEMMA SignedDivision ==
  ASSUME NEW x \in Words, NEW y \in Words, NEW width \in {4, 8}, UInt(y, width) # 0,
         NEW Q, Q = Manip(OP.DIV, x, y, width), NEW R, R = Manip(OP.MOD, x, y, width)
  PROVE  \E a, b, q, r \in Int : Quotients(a, b, q, r, x, y, Q, R, width)
<1>1. x \in Int /\ y \in Int /\ width \in Nat \ {0} /\ width \in Nat /\ width \in {1, 2, 4, 8}
  BY WordsType
<1>2. PICK a \in Int, b \in Int : a = SInt(x, width) /\ b = SInt(y, width)
  BY <1>1, IntTypes
<1>3. b # 0
  BY <1>1, <1>2, DivisorSigned
<1>4. PICK q \in Int, r \in Int : q = Quotient(a, b) /\ r = Remainder(a, b)
  <2>1. b \in Int \ {0}
    BY <1>3
  <2>2. Quotient(a, b) \in Int /\ Remainder(a, b) \in Int
    BY <2>1, QuotientType
  <2>. QED
    BY <2>2
<1>5. a = q * b + r
  <2>1. PICK e \in Int : e = q * b
    OBVIOUS
  <2>2. r = a - e
    BY <1>4, <2>1 DEF Remainder
  <2>. QED
    BY <2>1, <2>2
<1>6. \A op \in Signed : Extend(op, y, width) # 0
  <2>1. \A op : UInt(Extend(op, y, width), width) = UInt(y, width)
    BY <1>1, ExtendSame
  <2>2. UInt(0, width) = 0
    <3>1. 0 \in 0 .. Cells(width) - 1
      BY <1>1, CellsType
    <3>. QED
      BY <1>1, <3>1, UIntSmall
  <2>. QED
    BY <2>1, <2>2
<1>7. OP.DIV \in Signed /\ OP.MOD \in Signed
  BY DEF Signed
<1>8. Q = UInt(q, width)
  <2>1. PICK u, v : u = Extend(OP.DIV, x, width) /\ v = Extend(OP.DIV, y, width)
    OBVIOUS
  <2>2. SInt(u, width) = a /\ SInt(v, width) = b /\ v # 0
    BY <1>1, <1>2, <1>6, <1>7, <2>1, ExtendSame
  <2>3. DataManip(OP.DIV, u, v, width, TRUE) = ExecuteDIV(u, v, width)
    BY <2>2 DEF DataManip, OP
  <2>4. ExecuteDIV(u, v, width) = q
    BY <1>4, <2>2 DEF ExecuteDIV
  <2>. QED
    BY <2>1, <2>3, <2>4 DEF Manip
<1>9. R = UInt(r, width)
  <2>1. PICK u, v : u = Extend(OP.MOD, x, width) /\ v = Extend(OP.MOD, y, width)
    OBVIOUS
  <2>2. SInt(u, 8) = a /\ SInt(v, 8) = b /\ v # 0
    BY <1>1, <1>2, <1>6, <1>7, <2>1, ExtendSigned
  <2>3. DataManip(OP.MOD, u, v, width, TRUE) = ExecuteMOD(u, v)
    BY <2>2 DEF DataManip, OP
  <2>4. ExecuteMOD(u, v) = r
    BY <1>4, <2>2 DEF ExecuteMOD
  <2>. QED
    BY <2>1, <2>3, <2>4 DEF Manip
<1>10. UInt(Q, width) = UInt(q, width) /\ UInt(R, width) = UInt(r, width)
  BY <1>1, <1>8, <1>9, UIntType
<1>11. UInt(a, width) = UInt(x, width) /\ UInt(b, width) = UInt(y, width)
  BY <1>1, <1>2, SIntType
<1>. QED
  BY <1>5, <1>10, <1>11 DEF Quotients

\* So do ExecuteDIVU and ExecuteMODU.
LEMMA UnsignedDivision ==
  ASSUME NEW x \in Words, NEW y \in Words, NEW width \in {4, 8}, UInt(y, width) # 0,
         NEW Q, Q = Manip(OP.DIVU, x, y, width), NEW R, R = Manip(OP.MODU, x, y, width)
  PROVE  \E a, b, q, r \in Int : Quotients(a, b, q, r, x, y, Q, R, width)
<1>1. x \in Int /\ y \in Int /\ width \in Nat \ {0} /\ width \in Nat /\ width \in {1, 2, 4, 8}
  BY WordsType
<1>2. PICK a \in Nat, b \in Nat \ {0} : a = UInt(x, width) /\ b = UInt(y, width)
  <2>1. UInt(x, width) \in Nat /\ UInt(y, width) \in Nat \ {0}
    BY <1>1, IntTypes
  <2>. QED
    BY <2>1
<1>3. \A op \in {OP.DIVU, OP.MODU} : Extend(op, x, width) = a /\ Extend(op, y, width) = b
  <2>1. \A op \in {OP.DIVU, OP.MODU} : op \notin Signed
    BY DEF Signed, OP
  <2>2. width = 4 \/ width = 8
    OBVIOUS
  <2>. QED
    BY <1>2, <2>1, <2>2 DEF Extend
<1>4. UInt(a, width) = a /\ UInt(b, width) = b
  BY <1>1, <1>2, UIntType
<1>5. PICK q \in Int, r \in Int : q = a \div b /\ r = a % b
  OBVIOUS
<1>6. a = q * b + r
  BY <1>5
<1>7. Q = UInt(q, width)
  <2>1. Extend(OP.DIVU, x, width) = a /\ Extend(OP.DIVU, y, width) = b
    BY <1>3
  <2>2. DataManip(OP.DIVU, a, b, width, TRUE) = ExecuteDIVU(a, b, width)
    BY <1>2 DEF DataManip, OP
  <2>3. ExecuteDIVU(a, b, width) = q
    BY <1>4, <1>5 DEF ExecuteDIVU
  <2>. QED
    BY <2>1, <2>2, <2>3 DEF Manip
<1>8. R = UInt(r, width)
  <2>1. Extend(OP.MODU, x, width) = a /\ Extend(OP.MODU, y, width) = b
    BY <1>3
  <2>2. DataManip(OP.MODU, a, b, width, TRUE) = ExecuteMODU(a, b)
    BY <1>2 DEF DataManip, OP
  <2>3. ExecuteMODU(a, b) = r
    BY <1>5 DEF ExecuteMODU
  <2>. QED
    BY <2>1, <2>2, <2>3 DEF Manip
<1>9. UInt(Q, width) = UInt(q, width) /\ UInt(R, width) = UInt(r, width)
  BY <1>1, <1>7, <1>8, UIntType
<1>10. UInt(a, width) = UInt(x, width) /\ UInt(b, width) = UInt(y, width)
  BY <1>2, <1>4
<1>11. a \in Int /\ b \in Int
  OBVIOUS
<1>. QED
  BY <1>6, <1>9, <1>10, <1>11 DEF Quotients

\* MUL and MULU give the low bytes of the product.
LEMMA ProductLeaves ==
  ASSUME NEW op \in {OP.MUL, OP.MULU}, NEW x \in Words, NEW y \in Words, NEW width \in {4, 8},
         NEW b \in Int, UInt(b, width) = UInt(y, width), NEW P, P = Manip(op, x, y, width)
  PROVE  \E s, t, p \in Int : Multiplied(s, t, p, x, b, P, width)
<1>1. x \in Int /\ y \in Int /\ width \in Nat \ {0} /\ width \in Nat /\ width \in {1, 2, 4, 8}
  BY WordsType
<1>2. PICK s \in Int, t \in Int : s = SInt(x, width) /\ t = SInt(y, width)
  BY <1>1, IntTypes
<1>3. PICK p \in Int : p = s * t
  OBVIOUS
<1>4. UInt(s, width) = UInt(x, width) /\ UInt(t, width) = UInt(b, width)
  BY <1>1, <1>2, SIntType
<1>5. PICK u, v : u = Extend(op, x, width) /\ v = Extend(op, y, width)
  OBVIOUS
<1>6. SInt(u, width) = s /\ SInt(v, width) = t
  BY <1>1, <1>2, <1>5, ExtendSame
<1>7. DataManip(op, u, v, width, TRUE) \in {SInt(p, width), UInt(p, width)}
  <2>1. CASE op = OP.MUL
    <3>1. DataManip(op, u, v, width, TRUE) = SInt(SInt(u, width) * SInt(v, width), width)
      BY <2>1 DEF DataManip, OP
    <3>. QED
      BY <1>3, <1>6, <3>1
  <2>2. CASE op = OP.MULU
    <3>1. DataManip(op, u, v, width, TRUE) = UInt(SInt(u, width) * SInt(v, width), width)
      BY <2>2 DEF DataManip, OP
    <3>. QED
      BY <1>3, <1>6, <3>1
  <2>. QED
    BY <2>1, <2>2
<1>8. UInt(SInt(p, width), width) = UInt(p, width) /\ UInt(UInt(p, width), width) = UInt(p, width)
  BY <1>1, SIntType, UIntType
<1>9. Manip(op, x, y, width) = UInt(p, width)
  BY <1>5, <1>7, <1>8 DEF Manip
<1>. QED
  BY <1>3, <1>4, <1>8, <1>9 DEF Multiplied

\* ADD gives the low bytes of the sum.
LEMMA SumLeaves ==
  ASSUME NEW x \in Words, NEW y \in Words, NEW width \in {4, 8}
  PROVE  Manip(OP.ADD, x, y, width) = UInt(x + y, width)
<1>1. x \in Int /\ y \in Int /\ width \in Nat
  BY WordsType
<1>2. PICK u \in Int, v \in Int : u = Extend(OP.ADD, x, width) /\ v = Extend(OP.ADD, y, width)
  BY <1>1, ExtendType, WordsType
<1>3. UInt(u, width) = UInt(x, width) /\ UInt(v, width) = UInt(y, width)
  BY <1>1, <1>2, ExtendSame
<1>4. DataManip(OP.ADD, u, v, width, TRUE) = u + v
  BY DEF DataManip, OP
<1>5. UInt(u + v, width) = UInt(x + y, width)
  BY <1>1, <1>3, UIntArithmetic
<1>. QED
  BY <1>2, <1>4, <1>5 DEF Manip

\* The instruction of Does has the form of one of two registers.
LEMMA DoesLeaves ==
  ASSUME NEW c, IsContext(c), c.Gpr \in [0 .. 7 -> Words],
         NEW op \in 10 .. 28, NEW wide \in BOOLEAN, NEW r1 \in 1 .. 7, NEW r2 \in 0 .. 7,
         NEW width, width = (IF wide THEN 8 ELSE 4)
  PROVE  ManipLeaves(c, Does(c, op, wide, r1, r2), op, r1, r2, width)
<1>1. PICK w \in {0, 1} : (IF wide THEN 64 ELSE 0) = 64 * w /\ width = (IF w = 1 THEN 8 ELSE 4)
  <2>1. 64 * 0 = 0 /\ 64 * 1 = 64
    OBVIOUS
  <2>. QED
    BY <2>1
<1>2. PICK i : i = [opcode |-> op + (IF wide THEN 64 ELSE 0), operands |-> r1 + 16 * r2, data |-> <<>>]
  OBVIOUS
<1>3. IsForm(i, op, w, 0, r1, r2, <<>>)
  <2>1. op + 64 * w + 128 * 0 = op + 64 * w
    OBVIOUS
  <2>. QED
    BY <1>1, <1>2, <2>1 DEF IsForm
<1>4. ManipLeaves(c, ExecuteDataManip(c, i, TRUE), op, r1, r2, width)
  BY <1>1, <1>3, ManipRegisters
<1>. QED
  BY <1>2, <1>4, Zenon DEF Does

\* What the four instructions of DivisionLaw leave in register 5.
Combined(wide, x, y, div, mod, mul) ==
  LET c0 == [vm EXCEPT !.Gpr[5] = vm.Gpr[x], !.Gpr[6] = vm.Gpr[x]]
      c1 == Does(Does(c0, div, wide, 5, y), mod, wide, 6, y)
      c2 == Does(Does(c1, mul, wide, 5, y), OP.ADD, wide, 5, 6)
  IN c2.Gpr[5]

\* It is what they make of the words one after the other.
CombinesAll(wide, x, y, div, mod, mul, width) ==
  \E Q, R, P \in Words :
    /\ Q = Manip(div, vm.Gpr[x], vm.Gpr[y], width)
    /\ R = Manip(mod, vm.Gpr[x], vm.Gpr[y], width)
    /\ P = Manip(mul, Q, vm.Gpr[y], width)
    /\ Combined(wide, x, y, div, mod, mul) = Manip(OP.ADD, P, R, width)

\* DIV, MOD, MUL and ADD through registers 5 and 6, as DivisionLaw runs them, are
\* their operations on the two words.
LEMMA DivisionSteps ==
  ASSUME Typed(vm), NEW wide \in BOOLEAN, NEW x \in {1}, NEW y \in {2, 3},
         NEW div \in 10 .. 28, NEW mod \in 10 .. 28, NEW mul \in 10 .. 28,
         NEW width, width = (IF wide THEN 8 ELSE 4)
  PROVE  CombinesAll(wide, x, y, div, mod, mul, width)
<1>1. PICK g \in Words, h \in Words : g = vm.Gpr[x] /\ h = vm.Gpr[y]
  BY DEF Typed
<1>2. PICK c : c = [vm EXCEPT !.Gpr[5] = vm.Gpr[x], !.Gpr[6] = vm.Gpr[x]]
  OBVIOUS
<1>3. /\ IsContext(c) /\ c.Gpr \in [0 .. 7 -> Words]
      /\ c.Gpr[5] = g /\ c.Gpr[6] = g /\ c.Gpr[y] = h
  <2>1. c.Gpr = [vm.Gpr EXCEPT ![5] = g, ![6] = g]
    BY <1>1, <1>2 DEF Typed, IsContext, Fields
  <2>2. IsContext(c)
    BY <1>2 DEF Typed, IsContext, Fields
  <2>. QED
    BY <1>1, <2>1, <2>2 DEF Typed
<1>4. 5 \in 1 .. 7 /\ 6 \in 1 .. 7 /\ 6 \in 0 .. 7 /\ y \in 0 .. 7 /\ y # 5 /\ y # 6
  OBVIOUS
<1>5. PICK ADD \in 10 .. 28 : ADD = OP.ADD
  BY DEF OP
<1>6. PICK d1 : d1 = Does(c, div, wide, 5, y)
  OBVIOUS
<1>7. ManipLeaves(c, d1, div, 5, y, width)
  BY <1>3, <1>4, <1>6, DoesLeaves
<1>8. /\ IsContext(d1) /\ d1.Gpr \in [0 .. 7 -> Words]
      /\ d1.Gpr[5] = Manip(div, g, h, width) /\ d1.Gpr[6] = g /\ d1.Gpr[y] = h
  BY <1>3, <1>4, <1>7 DEF ManipLeaves
<1>9. PICK d2 : d2 = Does(d1, mod, wide, 6, y)
  OBVIOUS
<1>10. ManipLeaves(d1, d2, mod, 6, y, width)
  BY <1>4, <1>8, <1>9, DoesLeaves
<1>11. PICK Q \in Words, R \in Words : Q = Manip(div, g, h, width) /\ R = Manip(mod, g, h, width)
  <2>1. d1.Gpr[5] \in Words
    BY <1>4, <1>8
  <2>2. d2.Gpr[6] = Manip(mod, g, h, width) /\ d2.Gpr[6] \in Words
    BY <1>4, <1>8, <1>10 DEF ManipLeaves
  <2>. QED
    BY <1>8, <2>1, <2>2
<1>12. /\ IsContext(d2) /\ d2.Gpr \in [0 .. 7 -> Words]
       /\ d2.Gpr[5] = Q /\ d2.Gpr[6] = R /\ d2.Gpr[y] = h
  BY <1>4, <1>8, <1>10, <1>11 DEF ManipLeaves
<1>13. PICK d3 : d3 = Does(d2, mul, wide, 5, y)
  OBVIOUS
<1>14. ManipLeaves(d2, d3, mul, 5, y, width)
  BY <1>4, <1>12, <1>13, DoesLeaves
<1>15. PICK P \in Words : P = Manip(mul, Q, h, width)
  <2>1. d3.Gpr[5] = Manip(mul, Q, h, width) /\ d3.Gpr[5] \in Words
    BY <1>4, <1>12, <1>14 DEF ManipLeaves
  <2>. QED
    BY <2>1
<1>16. IsContext(d3) /\ d3.Gpr \in [0 .. 7 -> Words] /\ d3.Gpr[5] = P /\ d3.Gpr[6] = R
  BY <1>4, <1>12, <1>14, <1>15 DEF ManipLeaves
<1>17. PICK d4 : d4 = Does(d3, ADD, wide, 5, 6)
  OBVIOUS
<1>18. ManipLeaves(d3, d4, ADD, 5, 6, width)
  BY <1>4, <1>16, <1>17, DoesLeaves
<1>19. d4.Gpr[5] = Manip(ADD, P, R, width)
  BY <1>4, <1>16, <1>18 DEF ManipLeaves
<1>20. Combined(wide, x, y, div, mod, mul) = d4.Gpr[5]
  BY <1>2, <1>5, <1>6, <1>9, <1>13, <1>17, Zenon DEF Combined
<1>. QED
  BY <1>1, <1>5, <1>11, <1>15, <1>19, <1>20 DEF CombinesAll

\* Quotient, remainder and product are put together by ADD, whatever is divided.
LEMMA DivisionWhole ==
  ASSUME NEW x \in Words, NEW y \in Words, NEW width \in {4, 8}, UInt(y, width) # 0,
         NEW div, NEW mod, NEW mul,
         \/ div = OP.DIV /\ mod = OP.MOD /\ mul = OP.MUL
         \/ div = OP.DIVU /\ mod = OP.MODU /\ mul = OP.MULU,
         NEW Q \in Words, Q = Manip(div, x, y, width), NEW R \in Words, R = Manip(mod, x, y, width),
         NEW P \in Words, P = Manip(mul, Q, y, width)
  PROVE  Manip(OP.ADD, P, R, width) = UInt(x, width)
<1>1. PICK a \in Int, b \in Int, q \in Int, r \in Int : Quotients(a, b, q, r, x, y, Q, R, width)
  <2>1. \E a, b, q, r \in Int : Quotients(a, b, q, r, x, y, Q, R, width)
    BY SignedDivision, UnsignedDivision, ZenonT(60)
  <2>. QED
    BY <2>1
<1>2. PICK s \in Int, t \in Int, p \in Int : Multiplied(s, t, p, Q, b, P, width)
  <2>1. UInt(b, width) = UInt(y, width) /\ mul \in {OP.MUL, OP.MULU}
    BY <1>1 DEF Quotients
  <2>2. \E s, t, p \in Int : Multiplied(s, t, p, Q, b, P, width)
    BY <2>1, ProductLeaves
  <2>. QED
    BY <2>2
<1>3. P \in Int /\ R \in Int /\ Q \in Int /\ width \in Nat
  BY WordsType
<1>4. PICK S \in Int : S = P + R
  BY <1>3
<1>5. UInt(S, width) = UInt(a, width)
  BY <1>1, <1>2, <1>3, <1>4, Recombined
<1>6. UInt(a, width) = UInt(x, width)
  BY <1>1 DEF Quotients
<1>. QED
  BY <1>4, <1>5, <1>6, SumLeaves

\* For every two words, quotient, remainder, product and sum of the interpreter fit
\* together, signed and unsigned and at both widths, as numbers of that width: the
\* extension of the operands and the 64 bits MOD computes with do not show.
THEOREM DivisionFits == Spec => []DivisionLaw
<1>1. ASSUME TInv, NEW wide \in BOOLEAN, NEW x \in {1}, NEW y \in {2, 3},
             NEW ops \in {<<OP.DIV, OP.MOD, OP.MUL>>, <<OP.DIVU, OP.MODU, OP.MULU>>},
             NEW width, width = (IF wide THEN 8 ELSE 4), UInt(vm.Gpr[y], width) # 0
      PROVE  Combined(wide, x, y, ops[1], ops[2], ops[3]) = UInt(vm.Gpr[x], width)
  <2>1. Typed(vm) /\ width \in {4, 8}
    BY <1>1 DEF TInv
  <2>2. PICK div \in 10 .. 28, mod \in 10 .. 28, mul \in 10 .. 28 :
          /\ div = ops[1] /\ mod = ops[2] /\ mul = ops[3]
          /\ \/ div = OP.DIV /\ mod = OP.MOD /\ mul = OP.MUL
             \/ div = OP.DIVU /\ mod = OP.MODU /\ mul = OP.MULU
    <3>1. ops[1] \in 10 .. 28 /\ ops[2] \in 10 .. 28 /\ ops[3] \in 10 .. 28
      BY DEF OP
    <3>2. \/ ops[1] = OP.DIV /\ ops[2] = OP.MOD /\ ops[3] = OP.MUL
          \/ ops[1] = OP.DIVU /\ ops[2] = OP.MODU /\ ops[3] = OP.MULU
      OBVIOUS
    <3>. QED
      BY <3>1, <3>2
  <2>3. PICK g \in Words, h \in Words : g = vm.Gpr[x] /\ h = vm.Gpr[y]
    BY <2>1 DEF Typed
  <2>4. PICK Q \in Words, R \in Words, P \in Words :
          /\ Q = Manip(div, g, h, width) /\ R = Manip(mod, g, h, width)
          /\ P = Manip(mul, Q, h, width)
          /\ Combined(wide, x, y, div, mod, mul) = Manip(OP.ADD, P, R, width)
    <3>1. CombinesAll(wide, x, y, div, mod, mul, width)
      BY <1>1, <2>1, DivisionSteps
    <3>. QED
      BY <2>3, <3>1 DEF CombinesAll
  <2>5. UInt(h, width) # 0
    BY <1>1, <2>3
  <2>6. Manip(OP.ADD, P, R, width) = UInt(g, width)
    BY <2>1, <2>2, <2>4, <2>5, DivisionWhole
  <2>. QED
    BY <2>2, <2>3, <2>4, <2>6
<1>2. ASSUME TInv, NEW wide \in BOOLEAN, NEW x \in {1}, NEW y \in {2, 3},
             NEW ops \in {<<OP.DIV, OP.MOD, OP.MUL>>, <<OP.DIVU, OP.MODU, OP.MULU>>},
             UInt(vm.Gpr[y], IF wide THEN 8 ELSE 4) # 0
      PROVE  Combined(wide, x, y, ops[1], ops[2], ops[3]) = UInt(vm.Gpr[x], IF wide THEN 8 ELSE 4)
  <2>1. PICK width : width = IF wide THEN 8 ELSE 4
    OBVIOUS
  <2>2. Combined(wide, x, y, ops[1], ops[2], ops[3]) = UInt(vm.Gpr[x], width)
    BY <1>1, <1>2, <2>1
  <2>. QED
    BY <2>1, <2>2, Zenon
<1>3. TInv => DivisionLaw
  <2>. SUFFICES ASSUME TInv, NEW wide \in BOOLEAN, NEW x \in {1}, NEW y \in {2, 3},
                       NEW ops \in {<<OP.DIV, OP.MOD, OP.MUL>>, <<OP.DIVU, OP.MODU, OP.MULU>>}
                PROVE  LET width == IF wide THEN 8 ELSE 4
                           c0 == [vm EXCEPT !.Gpr[5] = vm.Gpr[x], !.Gpr[6] = vm.Gpr[x]]
                           c1 == Does(Does(c0, ops[1], wide, 5, y), ops[2], wide, 6, y)
                           c2 == Does(Does(c1, ops[3], wide, 5, y), OP.ADD, wide, 5, 6)
                           traps == /\ SInt(vm.Gpr[y], width) = -1
                                    /\ SInt(vm.Gpr[x], width) = -(Cells(width) \div 2)
                       IN UInt(vm.Gpr[y], width) # 0 /\ ~ traps
                            => c2.Gpr[5] = UInt(vm.Gpr[x], width)
    BY Zenon DEF DivisionLaw
  <2>1. UInt(vm.Gpr[y], IF wide THEN 8 ELSE 4) # 0
          => Combined(wide, x, y, ops[1], ops[2], ops[3]) = UInt(vm.Gpr[x], IF wide THEN 8 ELSE 4)
    BY <1>2
  <2>. QED
    BY <2>1, Zenon DEF Combined
<1>. QED
  BY <1>3, AlwaysTInv, PTL

-----------------------------------------------------------------------------
(***************************************************************************)
(* The text of an instruction.                                             *)
(***************************************************************************)

\* T has the offsets at which the pieces of a text begin, and its length.
Offsets(s, T) ==
  /\ T \in [0 .. Len(s) -> Nat]
  /\ T[0] = 0
  /\ \A k \in 1 .. Len(s) : T[k] = T[k - 1] + s[k]

\* A text of no more than t characters whose pieces begin at b or before.
Room(s, t, b) ==
  /\ s \in Seq(Nat)
  /\ \E T : /\ Offsets(s, T)
            /\ T[Len(s)] <= t
            /\ \A k \in 0 .. Len(s) - 1 : T[k] <= b

\* A text with room in a field fits into it.
LEMMA RoomFits ==
  ASSUME NEW s, NEW t, NEW b \in Nat, Room(s, t, b), NEW max \in Nat, b < max
  PROVE  Fits(s, max)
<1>1. PICK T : Offsets(s, T) /\ \A k \in 0 .. Len(s) - 1 : T[k] <= b
  BY DEF Room
<1>2. s \in Seq(Nat)
  BY DEF Room
<1>3. ASSUME NEW n \in DOMAIN s
      PROVE  LET Offset[k \in 0 .. n - 1] == IF k = 0 THEN 0 ELSE Offset[k - 1] + s[k]
             IN Offset[n - 1] < max
  <2>. DEFINE IsOffset(f) == f = [k \in 0 .. n - 1 |-> IF k = 0 THEN 0 ELSE f[k - 1] + s[k]]
              g == CHOOSE f : IsOffset(f)
              h == [k \in 0 .. n - 1 |-> T[k]]
              S == {k \in Nat : k <= n - 1 => g[k] = T[k]}
  <2>1. n \in Nat \ {0} /\ n <= Len(s) /\ Len(s) \in Nat
    BY <1>2, <1>3
  <2>2. IsOffset(h)
    <3>1. ASSUME NEW k \in 0 .. n - 1, k # 0 PROVE h[k] = h[k - 1] + s[k]
      <4>1. k \in 1 .. Len(s) /\ k - 1 \in 0 .. n - 1
        BY <2>1, <3>1
      <4>2. h[k] = T[k] /\ h[k - 1] = T[k - 1]
        BY <4>1
      <4>. QED
        BY <1>1, <4>1, <4>2 DEF Offsets
    <3>2. 0 \in 0 .. n - 1 /\ h[0] = 0
      BY <1>1, <2>1 DEF Offsets
    <3>3. \A k \in 0 .. n - 1 : h[k] = IF k = 0 THEN 0 ELSE h[k - 1] + s[k]
      BY <3>1, <3>2
    <3>4. h = [k \in 0 .. n - 1 |-> h[k]]
      OBVIOUS
    <3>. HIDE DEF h
    <3>. QED
      BY <3>3, <3>4
  <2>3. IsOffset(g)
    <3>. HIDE DEF IsOffset, h
    <3>. QED
      BY <2>2
  <2>4. 0 \in S
    <3>1. 0 \in 0 .. n - 1
      BY <2>1
    <3>. HIDE DEF g
    <3>2. g[0] = 0
      BY <2>3, <3>1
    <3>. QED
      BY <1>1, <3>2 DEF Offsets
  <2>5. ASSUME NEW k \in Nat, k \in S PROVE k + 1 \in S
    <3>. HIDE DEF g
    <3>1. SUFFICES ASSUME k + 1 <= n - 1 PROVE g[k + 1] = T[k + 1]
      OBVIOUS
    <3>2. k + 1 \in 0 .. n - 1 /\ k + 1 # 0 /\ (k + 1) - 1 = k /\ k + 1 \in 1 .. Len(s)
      BY <2>1, <3>1
    <3>3. g[k] = T[k]
      BY <2>1, <2>5, <3>1
    <3>4. g[k + 1] = g[k] + s[k + 1]
      BY <2>3, <3>2
    <3>. QED
      BY <1>1, <3>2, <3>3, <3>4 DEF Offsets
  <2>6. n - 1 \in S
    <3>1. \A k \in Nat : k \in S
      <4>. HIDE DEF S
      <4>. QED
        BY <2>4, <2>5, NatBySet
    <3>. HIDE DEF S
    <3>. QED
      BY <2>1, <3>1
  <2>7. g[n - 1] = T[n - 1] /\ n - 1 \in 0 .. Len(s) - 1
    <3>. HIDE DEF g
    <3>. QED
      BY <2>1, <2>6
  <2>8. g[n - 1] < max
    <3>1. T[n - 1] \in Nat /\ T[n - 1] <= b
      BY <1>1, <2>1, <2>7 DEF Offsets
    <3>. HIDE DEF g
    <3>. QED
      BY <2>7, <3>1
  <2>. QED
    BY <2>8
<1>. QED
  BY <1>3, Zenon DEF Fits

\* One piece.
LEMMA RoomPiece ==
  ASSUME NEW x \in Nat, NEW t \in Nat, x <= t
  PROVE  Room(<<x>>, t, 0)
<1>. DEFINE T == [k \in 0 .. 1 |-> IF k = 0 THEN 0 ELSE x]
<1>1. <<x>> \in Seq(Nat) /\ Len(<<x>>) = 1 /\ <<x>>[1] = x
  OBVIOUS
<1>2. Offsets(<<x>>, T)
  BY <1>1 DEF Offsets
<1>3. T[Len(<<x>>)] <= t /\ \A k \in 0 .. Len(<<x>>) - 1 : T[k] <= 0
  BY <1>1
<1>. HIDE DEF T
<1>. QED
  BY <1>1, <1>2, <1>3 DEF Room

\* None.
LEMMA RoomEmpty ==
  ASSUME NEW t \in Nat, NEW b \in Nat
  PROVE  Room(<<>>, t, b)
<1>. DEFINE T == [k \in 0 .. 0 |-> 0]
<1>1. <<>> \in Seq(Nat) /\ Len(<<>>) = 0
  OBVIOUS
<1>2. Offsets(<<>>, T)
  BY <1>1 DEF Offsets
<1>3. T[Len(<<>>)] <= t /\ \A k \in 0 .. Len(<<>>) - 1 : T[k] <= b
  BY <1>1
<1>. HIDE DEF T
<1>. QED
  BY <1>1, <1>2, <1>3 DEF Room

\* One text after the other.
LEMMA RoomAfter ==
  ASSUME NEW s, NEW u, NEW t \in Nat, NEW b \in Nat, NEW v \in Nat, NEW d \in Nat,
         NEW w \in Nat, NEW e \in Nat,
         Room(s, t, b), Room(u, v, d), t + v <= w, b <= e, t + d <= e
  PROVE  Room(s \o u, w, e)
<1>1. PICK S : Offsets(s, S) /\ S[Len(s)] <= t /\ \A k \in 0 .. Len(s) - 1 : S[k] <= b
  BY DEF Room
<1>2. PICK U : Offsets(u, U) /\ U[Len(u)] <= v /\ \A k \in 0 .. Len(u) - 1 : U[k] <= d
  BY DEF Room
<1>3. s \in Seq(Nat) /\ u \in Seq(Nat)
  BY DEF Room
<1>4. PICK m \in Nat, n \in Nat : m = Len(s) /\ n = Len(u)
  BY <1>3
<1>5. PICK r : r = s \o u
  OBVIOUS
<1>6. /\ r \in Seq(Nat) /\ Len(r) = m + n
      /\ \A k \in 1 .. m : r[k] = s[k]
      /\ \A k \in m + 1 .. m + n : r[k] = u[k - m]
  BY <1>3, <1>4, <1>5
<1>. DEFINE T == [k \in 0 .. m + n |-> IF k <= m THEN S[k] ELSE S[m] + U[k - m]]
<1>7. /\ \A k \in 0 .. m : S[k] \in Nat
      /\ \A k \in 0 .. n : U[k] \in Nat
      /\ S[0] = 0 /\ U[0] = 0
      /\ \A k \in 1 .. m : S[k] = S[k - 1] + s[k]
      /\ \A k \in 1 .. n : U[k] = U[k - 1] + u[k]
      /\ S[m] <= t /\ U[n] <= v
      /\ \A k \in 0 .. m - 1 : S[k] <= b
      /\ \A k \in 0 .. n - 1 : U[k] <= d
  BY <1>1, <1>2, <1>4 DEF Offsets
<1>8. /\ \A k \in 0 .. m : T[k] = S[k]
      /\ \A k \in 0 .. n : T[m + k] = S[m] + U[k]
  <2>1. ASSUME NEW k \in 0 .. m PROVE T[k] = S[k]
    OBVIOUS
  <2>2. ASSUME NEW k \in 0 .. n PROVE T[m + k] = S[m] + U[k]
    <3>1. m + k \in 0 .. m + n /\ (m + k) - m = k
      OBVIOUS
    <3>2. CASE k = 0
      BY <1>7, <3>1, <3>2
    <3>3. CASE k # 0
      BY <3>1, <3>3
    <3>. QED
      BY <3>2, <3>3
  <2>. QED
    BY <2>1, <2>2
<1>9. T \in [0 .. m + n -> Nat]
  <2>1. ASSUME NEW k \in 0 .. m + n PROVE T[k] \in Nat
    <3>1. CASE k <= m
      BY <1>7, <3>1
    <3>2. CASE ~ k <= m
      <4>1. k - m \in 0 .. n /\ m \in 0 .. m
        BY <3>2
      <4>2. U[k - m] \in Nat /\ S[m] \in Nat
        BY <1>7, <4>1
      <4>. QED
        BY <3>2, <4>2
    <3>. QED
      BY <3>1, <3>2
  <2>2. T = [k \in 0 .. m + n |-> T[k]]
    OBVIOUS
  <2>. HIDE DEF T
  <2>. QED
    BY <2>1, <2>2
<1>. HIDE DEF T
<1>10. ASSUME NEW k \in 1 .. m + n PROVE T[k] = T[k - 1] + r[k]
  <2>1. CASE k <= m
    <3>1. k \in 1 .. m /\ k \in 0 .. m /\ k - 1 \in 0 .. m
      BY <2>1
    <3>. QED
      BY <1>6, <1>7, <1>8, <3>1
  <2>2. CASE ~ k <= m
    <3>1. PICK j \in 1 .. n : j = k - m
      BY <2>2
    <3>2. /\ j \in 0 .. n /\ j - 1 \in 0 .. n
          /\ k = m + j /\ k - 1 = m + (j - 1) /\ k \in m + 1 .. m + n /\ m \in 0 .. m
      BY <2>2, <3>1
    <3>3. T[k] = S[m] + U[j] /\ T[k - 1] = S[m] + U[j - 1]
      BY <1>8, <3>2
    <3>4. U[j] = U[j - 1] + r[k] /\ U[j - 1] \in Nat /\ S[m] \in Nat
      BY <1>6, <1>7, <3>1, <3>2
    <3>5. r[k] \in Nat
      BY <1>6, <3>2
    <3>. QED
      BY <3>3, <3>4, <3>5
  <2>. QED
    BY <2>1, <2>2
<1>11. T[0] = 0 /\ T[m + n] <= w
  <2>1. 0 \in 0 .. m /\ m \in 0 .. m /\ n \in 0 .. n
    OBVIOUS
  <2>2. T[0] = 0 /\ T[m + n] = S[m] + U[n]
    BY <1>7, <1>8, <2>1
  <2>. QED
    BY <1>7, <2>1, <2>2
<1>12. ASSUME NEW k \in 0 .. (m + n) - 1 PROVE T[k] <= e
  <2>1. CASE k < m
    <3>1. k \in 0 .. m - 1 /\ k \in 0 .. m
      BY <2>1
    <3>2. T[k] = S[k] /\ S[k] <= b /\ S[k] \in Nat
      BY <1>7, <1>8, <3>1
    <3>. QED
      BY <3>2
  <2>2. CASE ~ k < m
    <3>1. PICK j \in 0 .. n - 1 : k = m + j
      <4>1. k - m \in 0 .. n - 1 /\ k = m + (k - m)
        BY <2>2
      <4>. QED
        BY <4>1
    <3>2. j \in 0 .. n /\ m \in 0 .. m
      OBVIOUS
    <3>3. T[k] = S[m] + U[j] /\ U[j] <= d /\ U[j] \in Nat /\ S[m] \in Nat /\ S[m] <= t
      BY <1>7, <1>8, <3>1, <3>2
    <3>. QED
      BY <3>3
  <2>. QED
    BY <2>1, <2>2
<1>13. Offsets(r, T)
  BY <1>6, <1>9, <1>10, <1>11 DEF Offsets
<1>. QED
  BY <1>5, <1>6, <1>11, <1>12, <1>13 DEF Room

\* More room is enough as well.
LEMMA RoomMore ==
  ASSUME NEW s, NEW t \in Nat, NEW b \in Nat, NEW w \in Nat, NEW e \in Nat,
         Room(s, t, b), t <= w, b <= e
  PROVE  Room(s, w, e)
<1>1. PICK T : Offsets(s, T) /\ T[Len(s)] <= t /\ \A k \in 0 .. Len(s) - 1 : T[k] <= b
  BY DEF Room
<1>2. s \in Seq(Nat)
  BY DEF Room
<1>3. PICK m \in Nat : m = Len(s)
  BY <1>2
<1>4. \A k \in 0 .. m : T[k] \in Nat
  BY <1>1, <1>3 DEF Offsets
<1>5. m \in 0 .. m /\ \A k \in 0 .. m - 1 : k \in 0 .. m
  OBVIOUS
<1>6. T[m] <= w /\ \A k \in 0 .. m - 1 : T[k] <= e
  BY <1>1, <1>3, <1>4, <1>5
<1>. QED
  BY <1>1, <1>2, <1>3, <1>6 DEF Room

\* A text that may be left out.
LEMMA RoomIf ==
  ASSUME NEW s, NEW t \in Nat, NEW b \in Nat, NEW c, c => Room(s, t, b)
  PROVE  Room(If(c, s), t, b)
<1>1. CASE c
  BY <1>1 DEF If
<1>2. CASE ~ c
  <2>1. If(c, s) = <<>>
    BY <1>2 DEF If
  <2>. QED
    BY <2>1, RoomEmpty
<1>. QED
  BY <1>1, <1>2

\* Two pieces.
LEMMA RoomPair ==
  ASSUME NEW x \in Nat, NEW y \in Nat, NEW t \in Nat, NEW b \in Nat, x + y <= t, x <= b
  PROVE  Room(<<x, y>>, t, b)
<1>. DEFINE T == [k \in 0 .. 2 |-> IF k = 0 THEN 0 ELSE IF k = 1 THEN x ELSE x + y]
<1>1. PICK s : s = <<x, y>>
  OBVIOUS
<1>2. s \in Seq(Nat) /\ Len(s) = 2 /\ s[1] = x /\ s[2] = y
  BY <1>1
<1>3. T \in [0 .. 2 -> Nat] /\ T[0] = 0 /\ T[1] = x /\ T[2] = x + y
  OBVIOUS
<1>. HIDE DEF T
<1>4. ASSUME NEW k \in 1 .. 2 PROVE T[k] = T[k - 1] + s[k]
  <2>1. CASE k = 1
    BY <1>2, <1>3, <2>1
  <2>2. CASE k = 2
    BY <1>2, <1>3, <2>2
  <2>. QED
    BY <2>1, <2>2
<1>5. Offsets(s, T)
  BY <1>2, <1>3, <1>4 DEF Offsets
<1>6. T[Len(s)] <= t /\ \A k \in 0 .. Len(s) - 1 : T[k] <= b
  BY <1>2, <1>3
<1>. QED
  BY <1>1, <1>2, <1>5, <1>6 DEF Room

\* Three pieces.
LEMMA RoomTriple ==
  ASSUME NEW x \in Nat, NEW y \in Nat, NEW z \in Nat, NEW t \in Nat, NEW b \in Nat,
         x + y + z <= t, x + y <= b
  PROVE  Room(<<x, y, z>>, t, b)
<1>. DEFINE T == [k \in 0 .. 3 |-> IF k = 0 THEN 0 ELSE IF k = 1 THEN x
                                  ELSE IF k = 2 THEN x + y ELSE x + y + z]
<1>1. PICK s : s = <<x, y, z>>
  OBVIOUS
<1>2. s \in Seq(Nat) /\ Len(s) = 3 /\ s[1] = x /\ s[2] = y /\ s[3] = z
  BY <1>1
<1>3. T \in [0 .. 3 -> Nat] /\ T[0] = 0 /\ T[1] = x /\ T[2] = x + y /\ T[3] = x + y + z
  OBVIOUS
<1>. HIDE DEF T
<1>4. ASSUME NEW k \in 1 .. 3 PROVE T[k] = T[k - 1] + s[k]
  <2>1. CASE k = 1
    BY <1>2, <1>3, <2>1
  <2>2. CASE k = 2
    BY <1>2, <1>3, <2>2
  <2>3. CASE k = 3
    BY <1>2, <1>3, <2>3
  <2>. QED
    BY <2>1, <2>2, <2>3
<1>5. Offsets(s, T)
  BY <1>2, <1>3, <1>4 DEF Offsets
<1>6. T[Len(s)] <= t /\ \A k \in 0 .. Len(s) - 1 : T[k] <= b
  BY <1>2, <1>3
<1>. QED
  BY <1>1, <1>2, <1>5, <1>6 DEF Room

\* The digits of a number of n bits, before the function cuts them to 14.
LEMMA WidthBound ==
  ASSUME NEW n \in Nat
  PROVE  EdbGetBitWidth(n) \in Nat /\ 100000 * (EdbGetBitWidth(n) - 1) <= 30103 * n
<1>1. PICK q \in Nat : q = (n * 30103) \div 100000 /\ 100000 * q <= 30103 * n
  OBVIOUS
<1>2. EdbGetBitWidth(n) = IF q + 1 < 14 THEN q + 1 ELSE 14
  BY <1>1 DEF EdbGetBitWidth
<1>. QED
  BY <1>1, <1>2

\* The numbers of an index, in one piece.
LEMMA IndexDataBound ==
  ASSUME NEW n \in Nat, NEW m \in Nat
  PROVE  \E x \in Nat : EdbPrintIndexData(n, m) = <<x>> /\ 100000 * (x - 7) <= 30103 * (n + m)
<1>1. PICK a \in Nat : a = EdbGetBitWidth(n) /\ 100000 * (a - 1) <= 30103 * n
  BY WidthBound
<1>2. PICK b \in Nat : b = EdbGetBitWidth(m) /\ 100000 * (b - 1) <= 30103 * m
  BY WidthBound
<1>3. PICK x \in Nat : x = 5 + a + b
  OBVIOUS
<1>4. EdbPrintIndexData(n, m) = <<x>>
  BY <1>1, <1>2, <1>3 DEF EdbPrintIndexData
<1>5. 100000 * (x - 7) <= 30103 * (n + m)
  BY <1>1, <1>2, <1>3
<1>. QED
  BY <1>4, <1>5

\* The longest of the texts of an index of some bytes.
LEMMA RawIndexBound ==
  ASSUME NEW bytes \in {2, 4, 8}
  PROVE  \E x \in Nat : /\ EdbPrintRawIndexData(bytes) = <<x>>
                        /\ 100000 * (x - 7) <= 30103 * (8 * bytes - 4)
<1>. DEFINE Split(n) == LET natural == n * bytes
                            bits    == 8 * bytes - 4
                        IN IF natural > bits THEN EdbPrintIndexData(bits, 0)
                           ELSE EdbPrintIndexData(natural, bits - natural)
            W == {Split(n) : n \in 0 .. 7}
            Longest(w) == \A n \in 0 .. 7 : Split(n)[1] <= w[1]
<1>1. PICK bits \in Nat : bits = 8 * bytes - 4 /\ bits <= 60
  OBVIOUS
<1>2. ASSUME NEW n \in 0 .. 7
      PROVE  \E x \in Nat : Split(n) = <<x>> /\ 100000 * (x - 7) <= 30103 * bits
  <2>1. PICK natural \in Nat : natural = n * bytes
    OBVIOUS
  <2>2. Split(n) = IF natural > bits THEN EdbPrintIndexData(bits, 0)
                   ELSE EdbPrintIndexData(natural, bits - natural)
    BY <1>1, <2>1, Zenon
  <2>. HIDE DEF Split
  <2>3. CASE natural > bits
    <3>1. PICK zero \in Nat : zero = 0
      OBVIOUS
    <3>2. Split(n) = EdbPrintIndexData(bits, zero) /\ bits + zero = bits
      BY <2>2, <2>3, <3>1
    <3>. QED
      BY <3>2, IndexDataBound
  <2>4. CASE ~ natural > bits
    <3>1. PICK rest \in Nat : rest = bits - natural
      BY <2>4
    <3>2. Split(n) = EdbPrintIndexData(natural, rest) /\ natural + rest = bits
      BY <2>2, <2>4, <3>1
    <3>. QED
      BY <3>2, IndexDataBound
  <2>. QED
    BY <2>3, <2>4
<1>3. PICK f \in [0 .. 7 -> Nat] :
        \A n \in 0 .. 7 : Split(n) = <<f[n]>> /\ 100000 * (f[n] - 7) <= 30103 * bits
  <2>. HIDE DEF Split
  <2>. DEFINE h == [n \in 0 .. 7 |-> CHOOSE x \in Nat : Split(n) = <<x>> /\ 100000 * (x - 7) <= 30103 * bits]
  <2>1. ASSUME NEW n \in 0 .. 7
        PROVE  /\ h[n] \in Nat
               /\ Split(n) = <<h[n]>> /\ 100000 * (h[n] - 7) <= 30103 * bits
    BY <1>2
  <2>2. h = [n \in 0 .. 7 |-> h[n]]
    OBVIOUS
  <2>. HIDE DEF h
  <2>3. h \in [0 .. 7 -> Nat]
    BY <2>1, <2>2
  <2>. QED
    BY <2>1, <2>3
<1>. HIDE DEF Split
<1>4. \A n \in 0 .. 7 : f[n] <= 30
  BY <1>1, <1>3
<1>5. PICK best \in 0 .. 7 : \A n \in 0 .. 7 : f[n] <= f[best]
  <2>. DEFINE S == {30 - f[n] : n \in 0 .. 7}
  <2>1. S \in SUBSET Nat /\ 30 - f[0] \in S
    BY <1>3, <1>4
  <2>2. PICK x \in S : \A y \in S : x <= y
    <3>. HIDE DEF S
    <3>. QED
      BY <2>1, LeastExists
  <2>3. PICK n \in 0 .. 7 : x = 30 - f[n]
    BY <2>2
  <2>4. ASSUME NEW m \in 0 .. 7 PROVE f[m] <= f[n]
    <3>1. 30 - f[m] \in S
      OBVIOUS
    <3>2. 30 - f[n] <= 30 - f[m]
      BY <2>2, <2>3, <3>1
    <3>3. f[m] \in Nat /\ f[n] \in Nat
      BY <1>3
    <3>. QED
      BY <3>2, <3>3
  <2>. QED
    BY <2>4
<1>6. Split(best) \in W /\ Longest(Split(best))
  BY <1>3, <1>5
<1>7. EdbPrintRawIndexData(bytes) = CHOOSE w \in W : Longest(w)
  BY Zenon DEF EdbPrintRawIndexData, Split
<1>8. EdbPrintRawIndexData(bytes) \in W
  <2>. HIDE DEF W, Longest
  <2>. QED
    BY <1>6, <1>7
<1>9. PICK n \in 0 .. 7 : EdbPrintRawIndexData(bytes) = Split(n)
  BY <1>8
<1>. QED
  BY <1>1, <1>3, <1>9

\* Characters that an index of some bytes takes.
LEMMA RawIndexText ==
  /\ Room(EdbPrintRawIndexData(2), 10, 0)
  /\ Room(EdbPrintRawIndexData(4), 15, 0)
  /\ Room(EdbPrintRawIndexData(8), 25, 0)
<1>1. PICK two \in {2, 4, 8}, four \in {2, 4, 8}, eight \in {2, 4, 8} :
        two = 2 /\ four = 4 /\ eight = 8
  OBVIOUS
<1>2. ASSUME NEW bytes \in {2, 4, 8}, NEW t \in Nat, 30103 * (8 * bytes - 4) < 100000 * (t - 6)
      PROVE  Room(EdbPrintRawIndexData(bytes), t, 0)
  <2>1. PICK x \in Nat : /\ EdbPrintRawIndexData(bytes) = <<x>>
                         /\ 100000 * (x - 7) <= 30103 * (8 * bytes - 4)
    BY RawIndexBound
  <2>2. x <= t
    BY <1>2, <2>1
  <2>. QED
    BY <2>1, <2>2, RoomPiece
<1>3. Room(EdbPrintRawIndexData(two), 10, 0)
  BY <1>1, <1>2
<1>4. Room(EdbPrintRawIndexData(four), 15, 0)
  BY <1>1, <1>2
<1>5. Room(EdbPrintRawIndexData(eight), 25, 0)
  BY <1>1, <1>2
<1>. QED
  BY <1>1, <1>3, <1>4, <1>5

\* The fields of a line, with the largest of what may be printed into them.
Line(text) == Room(text.Name, 20, 9) /\ Room(text.Content, 60, 29)

\* A line with room for its pieces fits.
LEMMA LineFits ==
  ASSUME NEW text, Line(text)
  PROVE  /\ Fits(text.Name, EDB_INSTRUCTION_NAME_MAX_LENGTH)
         /\ Fits(text.Content, EDB_INSTRUCTION_CONTENT_MAX_LENGTH)
<1>1. Fits(text.Name, 10)
  <2>1. PICK nine \in Nat : nine = 9
    OBVIOUS
  <2>. QED
    BY <2>1, RoomFits DEF Line
<1>2. Fits(text.Content, 30)
  <2>1. PICK last \in Nat : last = 29
    OBVIOUS
  <2>. QED
    BY <2>1, RoomFits DEF Line
<1>. QED
  BY <1>1, <1>2 DEF EDB_INSTRUCTION_NAME_MAX_LENGTH, EDB_INSTRUCTION_CONTENT_MAX_LENGTH

\* What Text makes of a name and a content with room is such a line.
LEMMA TextLine ==
  ASSUME NEW size, NEW name, NEW content, Room(name, 20, 9), Room(content, 60, 29)
  PROVE  Line(Text(size, name, content))
  BY DEF Line, Text

\* So is the line of a bad instruction.
LEMMA BadLine == Line(Bad)
  BY RoomEmpty, TextLine DEF Bad

\* The registers, the comma, and the numbers of one or two operands.
LEMMA PieceTexts ==
  ASSUME NEW i
  PROVE  /\ Room(EdbPrintRegister1(i), 3, 1)
         /\ Room(EdbPrintRegister2(i), 3, 1)
         /\ Room(EdbPrintDedicatedRegister1(i), 7, 0)
         /\ Room(EdbPrintDedicatedRegister2(i), 7, 0)
         /\ Room(EdbPrintComma, 2, 0)
<1>1. Room(<<2>>, 2, 0) /\ Room(<<2>>, 3, 1) /\ Room(<<1, 2>>, 3, 1)
  <2>1. PICK one \in Nat, two \in Nat, three \in Nat, zero \in Nat :
          one = 1 /\ two = 2 /\ three = 3 /\ zero = 0
    OBVIOUS
  <2>2. Room(<<two>>, two, 0)
    BY <2>1, RoomPiece
  <2>3. Room(<<two>>, three, one)
    BY ONLY <2>1, <2>2, two \in Nat, three \in Nat, zero \in Nat, one \in Nat, RoomMore
  <2>4. Room(<<one, two>>, three, one)
    BY <2>1, RoomPair
  <2>. QED
    BY <2>1, <2>2, <2>3, <2>4
<1>2. Room(<<7>>, 7, 0) /\ Room(<<4>>, 7, 0)
  <2>1. PICK seven \in Nat, four \in Nat : seven = 7 /\ four = 4
    OBVIOUS
  <2>2. Room(<<seven>>, seven, 0) /\ Room(<<four>>, seven, 0)
    BY <2>1, RoomPiece
  <2>. QED
    BY <2>1, <2>2
<1>3. Room(<<>>, 7, 0)
  BY RoomEmpty
<1>4. \A r : Room(Dedicated(r), 7, 0)
  BY <1>2, <1>3 DEF Dedicated
<1>. QED
  BY <1>1, <1>4 DEF EdbPrintRegister1, EdbPrintRegister2, EdbPrintDedicatedRegister1,
                    EdbPrintDedicatedRegister2, EdbPrintComma

\* Numbers.
LEMMA NumberTexts ==
  /\ \A bytes \in {1, 2, 4, 8} : /\ Room(EdbPrintImmDatan(bytes), 20, 0)
                                 /\ Room(EdbPrintDatan(bytes), 20, 0)
                                 /\ Room(<<2 + 2 * bytes>>, 20, 0)
  /\ Room(EdbPrintImmDatan(2), 10, 0)
  /\ Room(EdbPrintImmData32, 20, 0)
  /\ Room(EdbPrintData8, 20, 0)
  /\ Room(EdbPrintData64, 20, 0)
  /\ Room(EdbPrintData64n, 20, 0)
<1>1. ASSUME NEW bytes \in {1, 2, 4, 8}
      PROVE  EdbGetBitWidth(8 * bytes) \in Nat /\ EdbGetBitWidth(8 * bytes) <= 14
  <2>1. PICK n \in Nat : n = 8 * bytes
    OBVIOUS
  <2>2. EdbGetBitWidth(n) \in Nat
    BY WidthBound
  <2>3. EdbGetBitWidth(n) <= 14
    BY <2>2 DEF EdbGetBitWidth
  <2>. QED
    BY <2>1, <2>2, <2>3
<1>2. ASSUME NEW bytes \in {1, 2, 4, 8}
      PROVE  /\ Room(EdbPrintImmDatan(bytes), 20, 0)
             /\ Room(EdbPrintDatan(bytes), 20, 0)
             /\ Room(<<2 + 2 * bytes>>, 20, 0)
  <2>1. PICK x \in Nat : x = EdbGetBitWidth(8 * bytes) /\ x <= 14
    BY <1>1
  <2>2. PICK y \in Nat, z \in Nat, t \in Nat : y = 2 + x /\ z = 2 + 2 * bytes /\ t = 20
    OBVIOUS
  <2>3. x <= t /\ y <= t /\ z <= t
    BY <2>1, <2>2
  <2>4. Room(<<x>>, t, 0) /\ Room(<<y>>, t, 0) /\ Room(<<z>>, t, 0)
    BY <2>3, RoomPiece
  <2>. QED
    BY <2>1, <2>2, <2>4 DEF EdbPrintImmDatan, EdbPrintDatan
<1>3. Room(EdbPrintImmDatan(2), 10, 0)
  <2>1. PICK n \in Nat : n = 8 * 2
    OBVIOUS
  <2>2. PICK x \in Nat : x = EdbGetBitWidth(n) /\ 100000 * (x - 1) <= 30103 * n
    BY WidthBound
  <2>3. PICK y \in Nat, t \in Nat : y = 2 + x /\ t = 10
    OBVIOUS
  <2>4. y <= t
    BY <2>1, <2>2, <2>3
  <2>5. Room(<<y>>, t, 0)
    BY <2>4, RoomPiece
  <2>. QED
    BY <2>1, <2>2, <2>3, <2>5 DEF EdbPrintImmDatan
<1>4. /\ Room(EdbPrintImmData32, 20, 0)
      /\ Room(EdbPrintData8, 20, 0)
      /\ Room(EdbPrintData64, 20, 0)
  <2>1. PICK x \in Nat, y \in Nat, z \in Nat, t \in Nat : x = 12 /\ y = 4 /\ z = 18 /\ t = 20
    OBVIOUS
  <2>2. Room(<<x>>, t, 0) /\ Room(<<y>>, t, 0) /\ Room(<<z>>, t, 0)
    BY <2>1, RoomPiece
  <2>. QED
    BY <2>1, <2>2 DEF EdbPrintImmData32, EdbPrintData8, EdbPrintData64
<1>5. Room(EdbPrintData64n, 20, 0)
  <2>1. PICK n \in Nat : n = 64
    OBVIOUS
  <2>2. EdbGetBitWidth(n) \in Nat
    BY WidthBound
  <2>3. PICK x \in Nat, t \in Nat : x = EdbGetBitWidth(64) /\ x <= 14 /\ t = 20
    BY <2>1, <2>2 DEF EdbGetBitWidth
  <2>4. Room(<<x>>, t, 0)
    BY <2>3, RoomPiece
  <2>. QED
    BY <2>3, <2>4 DEF EdbPrintData64n
<1>. QED
  BY <1>2, <1>3, <1>4, <1>5

\* An index or a number of two bytes after an operand.
LEMMA DatumText ==
  ASSUME NEW has, NEW indirect
  PROVE  Room(Datum16Text(has, indirect), 10, 0)
<1>1. PICK text : text = IF indirect THEN EdbPrintRawIndexData(2) ELSE EdbPrintImmDatan(2)
  OBVIOUS
<1>2. Room(text, 10, 0)
  BY <1>1, RawIndexText, NumberTexts
<1>3. Datum16Text(has, indirect) = If(has, text)
  BY <1>1, Zenon DEF Datum16Text
<1>. QED
  BY <1>2, <1>3, RoomIf

\* The last of the texts in the field of the content.
LEMMA ContentAfter ==
  ASSUME NEW s, NEW u, NEW t \in Nat, NEW b \in Nat, NEW v \in Nat, NEW d \in Nat,
         Room(s, t, b), Room(u, v, d), t + v <= 60, b <= 29, t + d <= 29
  PROVE  Room(s \o u, 60, 29)
<1>1. PICK w \in Nat, e \in Nat : w = 60 /\ e = 29
  OBVIOUS
<1>2. Room(s \o u, w, e)
  BY <1>1, RoomAfter
<1>. QED
  BY <1>1, <1>2

\* A first operand with its index, the comma, and a second operand.
LEMMA OperandTexts ==
  ASSUME NEW i, NEW x, Room(x, 15, 0)
  PROVE  /\ Room(EdbPrintRegister1(i) \o x, 18, 3)
         /\ Room(EdbPrintRegister1(i) \o x \o EdbPrintComma, 20, 18)
         /\ Room(EdbPrintRegister1(i) \o x \o EdbPrintComma \o EdbPrintRegister2(i), 23, 21)
         /\ Room(EdbPrintRegister1(i) \o EdbPrintComma \o EdbPrintRegister2(i), 23, 21)
<1>. DEFINE first == EdbPrintRegister1(i) \o x
            comma == first \o EdbPrintComma
<1>1. PICK n0 \in Nat, n1 \in Nat, n2 \in Nat, n3 \in Nat, n15 \in Nat, n18 \in Nat,
           n20 \in Nat, n21 \in Nat, n23 \in Nat :
        /\ n0 = 0 /\ n1 = 1 /\ n2 = 2 /\ n3 = 3 /\ n15 = 15 /\ n18 = 18
        /\ n20 = 20 /\ n21 = 21 /\ n23 = 23
  OBVIOUS
<1>2. /\ Room(EdbPrintRegister1(i), n3, n1) /\ Room(EdbPrintRegister2(i), n3, n1)
      /\ Room(EdbPrintComma, n2, n0) /\ Room(x, n15, n0)
  BY <1>1, PieceTexts
<1>3. Room(first, n18, n3)
  BY ONLY <1>1, <1>2, RoomAfter, n0 \in Nat, n1 \in Nat, n3 \in Nat, n15 \in Nat, n18 \in Nat
<1>. HIDE DEF first
<1>4. Room(comma, n20, n18)
  BY ONLY <1>1, <1>2, <1>3, RoomAfter, n0 \in Nat, n2 \in Nat, n3 \in Nat, n18 \in Nat, n20 \in Nat
<1>. HIDE DEF comma
<1>5. Room(comma \o EdbPrintRegister2(i), n23, n21)
  BY ONLY <1>1, <1>2, <1>4, RoomAfter, n1 \in Nat, n3 \in Nat, n18 \in Nat, n20 \in Nat,
          n21 \in Nat, n23 \in Nat
<1>6. Room(EdbPrintRegister1(i) \o EdbPrintComma, n18, n3)
  BY ONLY <1>1, <1>2, RoomAfter, n0 \in Nat, n1 \in Nat, n2 \in Nat, n3 \in Nat, n18 \in Nat
<1>7. Room((EdbPrintRegister1(i) \o EdbPrintComma) \o EdbPrintRegister2(i), n23, n21)
  BY ONLY <1>1, <1>2, <1>6, RoomAfter, n1 \in Nat, n3 \in Nat, n18 \in Nat, n21 \in Nat,
          n23 \in Nat
<1>. QED
  BY <1>1, <1>3, <1>4, <1>5, <1>7 DEF first, comma

\* What is printed last begins inside the field and may be a number of 64 bits.
LEMMA LastText ==
  ASSUME NEW s, NEW u, NEW t \in {3, 18, 20, 23}, NEW b \in {1, 3, 18, 21}, NEW v \in {2, 3, 7, 10, 15, 20, 25},
         NEW d \in {0, 1}, Room(s, t, b), Room(u, v, d)
  PROVE  Room(s \o u, 60, 29)
<1>1. /\ t \in Nat /\ b \in Nat /\ v \in Nat /\ d \in Nat
      /\ t + v <= 60 /\ b <= 29 /\ t + d <= 29
  OBVIOUS
<1>. QED
  BY ONLY <1>1, Room(s, t, b), Room(u, v, d), ContentAfter

\* One piece, or a text that goes on, in the field of the name.
LEMMA NameTexts ==
  /\ \A n \in 0 .. 9 : Room(<<n>>, 20, 9)
  /\ \A n \in 0 .. 9 : \A m \in 0 .. 9 : Room(<<n, m>>, 20, 9)
  /\ Room(<<>>, 20, 9)
<1>1. PICK t \in Nat, b \in Nat : t = 20 /\ b = 9
  OBVIOUS
<1>2. ASSUME NEW n \in 0 .. 9 PROVE Room(<<n>>, t, b)
  <2>1. PICK zero \in Nat : zero = 0
    OBVIOUS
  <2>2. n \in Nat /\ n <= t /\ zero <= b
    BY <1>1, <2>1
  <2>3. Room(<<n>>, t, zero)
    BY <2>1, <2>2, RoomPiece
  <2>. QED
    BY ONLY <2>2, <2>3, zero \in Nat, t \in Nat, b \in Nat, RoomMore
<1>3. ASSUME NEW n \in 0 .. 9, NEW m \in 0 .. 9 PROVE Room(<<n, m>>, t, b)
  <2>1. n \in Nat /\ m \in Nat /\ n + m <= t /\ n <= b
    BY <1>1
  <2>. QED
    BY ONLY <2>1, t \in Nat, b \in Nat, RoomPair
<1>4. Room(<<>>, t, b)
  BY RoomEmpty
<1>. QED
  BY <1>1, <1>2, <1>3, <1>4

\* A short text and one more piece.
LEMMA NameAfter ==
  ASSUME NEW s, NEW u, NEW t \in 0 .. 9, NEW b \in 0 .. 9, NEW v \in 0 .. 9,
         Room(s, t, b), Room(u, v, 0)
  PROVE  Room(s \o u, 20, 9)
<1>1. PICK w \in Nat, e \in Nat, d \in Nat : w = 20 /\ e = 9 /\ d = 0
  OBVIOUS
<1>2. t \in Nat /\ b \in Nat /\ v \in Nat /\ t + v <= w /\ b <= e /\ t + d <= e /\ Room(u, v, d)
  BY <1>1
<1>3. Room(s \o u, w, e)
  BY ONLY <1>2, Room(s, t, b), w \in Nat, e \in Nat, d \in Nat, RoomAfter
<1>. QED
  BY <1>1, <1>3

\* The pieces of a name that some bits of the instruction add.
LEMMA NameParts ==
  ASSUME NEW i
  PROVE  /\ Room(<<3>> \o Condition(i), 20, 9)
         /\ Room(<<4>> \o Condition(i), 20, 9)
         /\ Room(<<4>> \o If(Bit(i.operands, 5), <<2>>), 20, 9)
         /\ Room(<<5>> \o WidthName(i), 20, 9)
         /\ Room(<<6>> \o WidthName(i), 20, 9)
         /\ Room(<<4, 1>> \o WidthName(i), 20, 9)
         /\ \A order \in Int : /\ Room(<<3, OrderName(order)>>, 20, 9)
                               /\ Room(<<4, 1, OrderName(order)>>, 20, 9)
<1>1. /\ Room(<<1>>, 1, 0) /\ Room(<<2>>, 2, 0) /\ Room(<<3>>, 3, 0) /\ Room(<<4>>, 4, 0)
      /\ Room(<<5>>, 5, 0) /\ Room(<<6>>, 6, 0)
  <2>1. ASSUME NEW n \in 0 .. 9 PROVE Room(<<n>>, n, 0)
    BY RoomPiece
  <2>. QED
    BY <2>1
<1>2. Room(<<4, 1>>, 5, 4)
  <2>1. PICK four \in Nat, one \in Nat, five \in Nat : four = 4 /\ one = 1 /\ five = 5
    OBVIOUS
  <2>2. Room(<<four, one>>, five, four)
    BY <2>1, RoomPair
  <2>. QED
    BY <2>1, <2>2
<1>3. \A b : Room(If(b, <<1>>), 1, 0) /\ Room(If(b, <<2>>), 2, 0)
  <2>1. PICK zero \in Nat, one \in Nat, two \in Nat : zero = 0 /\ one = 1 /\ two = 2
    OBVIOUS
  <2>2. ASSUME NEW b PROVE Room(If(b, <<1>>), one, zero) /\ Room(If(b, <<2>>), two, zero)
    BY <1>1, <2>1, RoomIf
  <2>. QED
    BY <2>1, <2>2
<1>4. Room(Condition(i), 2, 0) /\ Room(WidthName(i), 1, 0) /\ Room(If(Bit(i.operands, 5), <<2>>), 2, 0)
  BY <1>3 DEF Condition, WidthName
<1>5. PICK n0 \in 0 .. 9, n1 \in 0 .. 9, n2 \in 0 .. 9, n3 \in 0 .. 9, n4 \in 0 .. 9, n5 \in 0 .. 9, n6 \in 0 .. 9 :
        n0 = 0 /\ n1 = 1 /\ n2 = 2 /\ n3 = 3 /\ n4 = 4 /\ n5 = 5 /\ n6 = 6
  OBVIOUS
<1>6. /\ Room(<<3>>, n3, n0) /\ Room(<<4>>, n4, n0) /\ Room(<<5>>, n5, n0) /\ Room(<<6>>, n6, n0)
      /\ Room(<<4, 1>>, n5, n4)
      /\ Room(Condition(i), n2, 0) /\ Room(WidthName(i), n1, 0)
      /\ Room(If(Bit(i.operands, 5), <<2>>), n2, 0)
  BY <1>1, <1>2, <1>4, <1>5
<1>7. \A order \in Int : Room(<<3, OrderName(order)>>, 20, 9) /\ Room(<<4, 1, OrderName(order)>>, 20, 9)
  <2>1. ASSUME NEW order \in Int, NEW n \in 0 .. 9, n = OrderName(order)
        PROVE  Room(<<3, n>>, 20, 9) /\ Room(<<4, 1, n>>, 20, 9)
    <3>1. Room(<<n3, n>>, 20, 9)
      BY NameTexts
    <3>2. Room(<<4, 1, n>>, 20, 9)
      <4>1. PICK four \in Nat, one \in Nat, t \in Nat, b \in Nat :
              four = 4 /\ one = 1 /\ t = 20 /\ b = 9
        OBVIOUS
      <4>2. n \in Nat /\ four + one + n <= t /\ four + one <= b
        BY <2>1, <4>1
      <4>3. Room(<<four, one, n>>, t, b)
        BY ONLY <4>2, four \in Nat, one \in Nat, t \in Nat, b \in Nat, RoomTriple
      <4>. QED
        BY <4>1, <4>3
    <3>. QED
      BY <1>5, <3>1, <3>2
  <2>2. \A order : OrderName(order) \in 0 .. 9
    BY DEF OrderName
  <2>. QED
    BY <2>1, <2>2
<1>. QED
  BY <1>6, <1>7, NameAfter

\* BREAK, the jumps, CALL and RET.
LEMMA ControlLines ==
  ASSUME NEW i
  PROVE  /\ Line(EdbDisasmBREAK(i)) /\ Line(EdbDisasmJMP(i)) /\ Line(EdbDisasmJMP8(i))
         /\ Line(EdbDisasmCALL(i)) /\ Line(EdbDisasmRET(i))
<1>. DEFINE R == EdbPrintRegister1(i)
<1>1. \A u : Room(u, 20, 0) => Room(u, 60, 29)
  <2>1. PICK t \in Nat, b \in Nat, w \in Nat, e \in Nat : t = 20 /\ b = 0 /\ w = 60 /\ e = 29
    OBVIOUS
  <2>2. t <= w /\ b <= e
    BY <2>1
  <2>3. \A u : Room(u, t, b) => Room(u, w, e)
    BY ONLY <2>2, t \in Nat, b \in Nat, w \in Nat, e \in Nat, RoomMore
  <2>. QED
    BY <2>1, <2>3
<1>2. /\ Room(EdbPrintDatan(1), 60, 29) /\ Room(EdbPrintData64, 60, 29)
      /\ Room(EdbPrintData8, 60, 29)
  BY <1>1, NumberTexts
<1>3. Room(<<>>, 60, 29) /\ Room(<<3>>, 20, 9) /\ Room(<<5>>, 20, 9)
  BY RoomEmpty, NameTexts
<1>4. Room(R, 3, 1)
  BY PieceTexts
<1>. HIDE DEF R
<1>5. Line(EdbDisasmBREAK(i)) /\ Line(EdbDisasmRET(i)) /\ Line(EdbDisasmJMP8(i))
  BY <1>2, <1>3, TextLine, BadLine, NameParts DEF EdbDisasmBREAK, EdbDisasmRET, EdbDisasmJMP8
<1>6. Line(EdbDisasmJMP(i))
  <2>1. PICK u : u = IF OPERAND1_INDIRECT(i) THEN EdbPrintRawIndexData(4) ELSE EdbPrintImmDatan(4)
    OBVIOUS
  <2>2. Room(R \o u, 60, 29)
    <3>1. Room(u, 15, 0) \/ Room(u, 20, 0)
      BY <2>1, RawIndexText, NumberTexts
    <3>. QED
      BY <1>4, <3>1, LastText
  <2>3. Room(IF Wide(i) THEN EdbPrintData64 ELSE R \o u, 60, 29)
    BY <1>2, <2>2
  <2>4. EdbDisasmJMP(i) = IF Wide(i) /\ ~ Immediate(i) THEN Bad
                          ELSE Text(JumpLength(i), <<3>> \o Condition(i),
                                    IF Wide(i) THEN EdbPrintData64 ELSE R \o u)
    BY <2>1, Zenon DEF EdbDisasmJMP, R
  <2>. QED
    BY <2>3, <2>4, TextLine, BadLine, NameParts
<1>7. Line(EdbDisasmCALL(i))
  <2>1. PICK u : u = IF OPERAND1_INDIRECT(i) THEN EdbPrintRawIndexData(4) ELSE EdbPrintImmData32
    OBVIOUS
  <2>2. Room(R \o If(Immediate(i), u), 60, 29)
    <3>1. Room(u, 15, 0) \/ Room(u, 20, 0)
      BY <2>1, RawIndexText, NumberTexts
    <3>2. Room(If(Immediate(i), u), 15, 0) \/ Room(If(Immediate(i), u), 20, 0)
      BY <3>1, RoomIf
    <3>. QED
      BY <1>4, <3>2, LastText
  <2>3. Room(IF Wide(i) THEN EdbPrintData64 ELSE R \o If(Immediate(i), u), 60, 29)
    BY <1>2, <2>2
  <2>4. EdbDisasmCALL(i) = IF Wide(i) /\ ~ Immediate(i) THEN Bad
                           ELSE Text(JumpLength(i), <<4>> \o If(Bit(i.operands, 5), <<2>>),
                                     IF Wide(i) THEN EdbPrintData64
                                     ELSE R \o If(Immediate(i), u))
    BY <2>1, Zenon DEF EdbDisasmCALL, R
  <2>. QED
    BY <2>3, <2>4, TextLine, BadLine, NameParts
<1>. QED
  BY <1>5, <1>6, <1>7

\* Two operands, of CMP and the arithmetic.
LEMMA DataLines ==
  ASSUME NEW i, Opcode(i) \in Int
  PROVE  /\ Line(EdbDisasmCMP(i)) /\ Line(EdbDisasmUnsignedDataManip(i))
         /\ Line(EdbDisasmSignedDataManip(i))
<1>1. ASSUME NEW name, Room(name, 20, 9) PROVE Line(TwoOperands(i, name))
  <2>1. Room(EdbPrintRegister1(i) \o EdbPrintComma \o EdbPrintRegister2(i), 23, 21)
    BY RoomEmpty, OperandTexts
  <2>2. Room(Datum16Text(Immediate(i), OPERAND2_INDIRECT(i)), 10, 0)
    BY DatumText
  <2>3. Room(EdbPrintRegister1(i) \o EdbPrintComma \o EdbPrintRegister2(i)
               \o Datum16Text(Immediate(i), OPERAND2_INDIRECT(i)), 60, 29)
    BY <2>1, <2>2, LastText
  <2>. QED
    BY <1>1, <2>3, TextLine DEF TwoOperands
<1>2. Room(<<3, OrderName(Opcode(i) - OP.CMPEQ)>>, 20, 9)
  <2>1. Opcode(i) - OP.CMPEQ \in Int
    BY OpcodeNumbers
  <2>. QED
    BY <2>1, NameParts
<1>3. PICK n \in 0 .. 9 :
        n = CASE Opcode(i) = OP.OR -> 2
              [] Opcode(i) \in {OP.MULU, OP.DIVU, OP.MODU} -> 4
              [] Opcode(i) >= OP.EXTNDB -> 6
              [] OTHER -> 3
  OBVIOUS
<1>4. PICK m \in 0 .. 9 : m = IF Opcode(i) = OP.ASHR THEN 4 ELSE 3
  OBVIOUS
<1>5. Room(<<n>>, 20, 9) /\ Room(<<m>>, 20, 9)
  BY NameTexts
<1>6. /\ EdbDisasmUnsignedDataManip(i) = TwoOperands(i, <<n>>)
      /\ EdbDisasmSignedDataManip(i) = TwoOperands(i, <<m>>)
  BY <1>3, <1>4, Zenon DEF EdbDisasmUnsignedDataManip, EdbDisasmSignedDataManip
<1>. QED
  BY <1>1, <1>2, <1>5, <1>6 DEF EdbDisasmCMP

\* One operand, of PUSH and POP, and the moves of the frame pointer.
LEMMA StackLines ==
  ASSUME NEW i
  PROVE  /\ Line(EdbDisasmPUSH(i)) /\ Line(EdbDisasmPOP(i))
         /\ Line(EdbDisasmPUSHn(i)) /\ Line(EdbDisasmPOPn(i))
         /\ Line(EdbDisasmLOADSP(i)) /\ Line(EdbDisasmSTORESP(i))
<1>1. ASSUME NEW name, Room(name, 20, 9) PROVE Line(OneOperand(i, name))
  <2>1. Room(EdbPrintRegister1(i), 3, 1) /\ Room(Datum16Text(Immediate(i), OPERAND1_INDIRECT(i)), 10, 0)
    BY PieceTexts, DatumText
  <2>2. Room(EdbPrintRegister1(i) \o Datum16Text(Immediate(i), OPERAND1_INDIRECT(i)), 60, 29)
    BY <2>1, LastText
  <2>. QED
    BY <1>1, <2>2, TextLine DEF OneOperand
<1>2. \A n \in 0 .. 9 : Room(<<n>>, 20, 9)
  BY NameTexts
<1>3. Line(EdbDisasmPUSH(i)) /\ Line(EdbDisasmPOP(i)) /\ Line(EdbDisasmPUSHn(i)) /\ Line(EdbDisasmPOPn(i))
  BY <1>1, <1>2 DEF EdbDisasmPUSH, EdbDisasmPOP, EdbDisasmPUSHn, EdbDisasmPOPn
<1>4. Room(EdbPrintRegister1(i) \o EdbPrintDedicatedRegister2(i), 60, 29)
  BY PieceTexts, LastText
<1>5. Room(EdbPrintDedicatedRegister1(i) \o EdbPrintRegister2(i), 60, 29)
  <2>1. Room(EdbPrintDedicatedRegister1(i), 7, 0) /\ Room(EdbPrintRegister2(i), 3, 1)
    BY PieceTexts
  <2>2. PICK t \in Nat, b \in Nat, v \in Nat, d \in Nat : t = 7 /\ b = 0 /\ v = 3 /\ d = 1
    OBVIOUS
  <2>3. t + v <= 60 /\ b <= 29 /\ t + d <= 29
    BY <2>2
  <2>4. Room(EdbPrintDedicatedRegister1(i), t, b) /\ Room(EdbPrintRegister2(i), v, d)
    BY <2>1, <2>2
  <2>. QED
    BY ONLY <2>3, <2>4, t \in Nat, b \in Nat, v \in Nat, d \in Nat, ContentAfter
<1>. QED
  BY <1>2, <1>3, <1>4, <1>5, TextLine DEF EdbDisasmLOADSP, EdbDisasmSTORESP

\* The moves with indexes of two and four bytes.
LEMMA MoveLines ==
  ASSUME NEW i
  PROVE  /\ MoveIndex(Opcode(i)) \in {2, 4} => Line(EdbDisasmMOVxx(i))
         /\ Line(EdbDisasmMOVsnw(i)) /\ Line(EdbDisasmMOVsnd(i))
<1>1. ASSUME NEW bytes \in {2, 4}
      PROVE  Room(EdbPrintRawIndexData(bytes), 15, 0) /\ Room(EdbPrintImmDatan(bytes), 20, 0)
  <2>1. PICK ten \in Nat, most \in Nat, zero \in Nat : ten = 10 /\ most = 15 /\ zero = 0
    OBVIOUS
  <2>2. ten <= most /\ zero <= zero /\ Room(EdbPrintRawIndexData(2), ten, zero)
    BY <2>1, RawIndexText
  <2>3. Room(EdbPrintRawIndexData(2), most, zero)
    BY ONLY <2>2, ten \in Nat, most \in Nat, zero \in Nat, RoomMore
  <2>. QED
    BY <2>1, <2>3, RawIndexText, NumberTexts
<1>2. ASSUME NEW bytes \in {2, 4}, NEW u, Room(u, 15, 0) \/ Room(u, 20, 0)
      PROVE  Room(EdbPrintRegister1(i) \o If(Bit(i.opcode, 7), EdbPrintRawIndexData(bytes))
                    \o EdbPrintComma \o EdbPrintRegister2(i) \o u, 60, 29)
  <2>1. Room(If(Bit(i.opcode, 7), EdbPrintRawIndexData(bytes)), 15, 0)
    BY <1>1, RoomIf
  <2>2. Room(EdbPrintRegister1(i) \o If(Bit(i.opcode, 7), EdbPrintRawIndexData(bytes))
               \o EdbPrintComma \o EdbPrintRegister2(i), 23, 21)
    BY <2>1, OperandTexts
  <2>. QED
    BY <1>2, <2>2, LastText
<1>3. Room(<<3, 2>>, 20, 9) /\ Room(<<6>>, 20, 9)
  BY NameTexts
<1>4. ASSUME MoveIndex(Opcode(i)) \in {2, 4} PROVE Line(EdbDisasmMOVxx(i))
  <2>1. PICK bytes \in {2, 4} : bytes = MoveIndex(Opcode(i))
    BY <1>4
  <2>2. Room(If(Bit(i.opcode, 6), EdbPrintRawIndexData(bytes)), 15, 0)
    BY <1>1, RoomIf
  <2>3. Room(EdbPrintRegister1(i) \o If(Bit(i.opcode, 7), EdbPrintRawIndexData(bytes))
               \o EdbPrintComma \o EdbPrintRegister2(i)
               \o If(Bit(i.opcode, 6), EdbPrintRawIndexData(bytes)), 60, 29)
    BY <1>2, <2>2
  <2>4. EdbDisasmMOVxx(i) =
          Text(2 + Indexes(i, bytes), <<3, 2>>,
               EdbPrintRegister1(i) \o If(Bit(i.opcode, 7), EdbPrintRawIndexData(bytes))
                 \o EdbPrintComma \o EdbPrintRegister2(i)
                 \o If(Bit(i.opcode, 6), EdbPrintRawIndexData(bytes)))
    BY <2>1, Zenon DEF EdbDisasmMOVxx
  <2>. QED
    BY <1>3, <2>3, <2>4, TextLine
<1>5. ASSUME NEW bytes \in {2, 4} PROVE Line(SignedMove(i, bytes))
  <2>1. PICK u : u = IF OPERAND2_INDIRECT(i) THEN EdbPrintRawIndexData(bytes) ELSE EdbPrintImmDatan(bytes)
    OBVIOUS
  <2>2. Room(u, 15, 0) \/ Room(u, 20, 0)
    BY <1>1, <2>1
  <2>3. Room(If(Bit(i.opcode, 6), u), 15, 0) \/ Room(If(Bit(i.opcode, 6), u), 20, 0)
    BY <2>2, RoomIf
  <2>4. Room(EdbPrintRegister1(i) \o If(Bit(i.opcode, 7), EdbPrintRawIndexData(bytes))
               \o EdbPrintComma \o EdbPrintRegister2(i) \o If(Bit(i.opcode, 6), u), 60, 29)
    BY <1>2, <2>3
  <2>5. SignedMove(i, bytes) =
          Text(2 + Indexes(i, bytes), <<6>>,
               EdbPrintRegister1(i) \o If(Bit(i.opcode, 7), EdbPrintRawIndexData(bytes))
                 \o EdbPrintComma \o EdbPrintRegister2(i) \o If(Bit(i.opcode, 6), u))
    BY <2>1, Zenon DEF SignedMove
  <2>. QED
    BY <1>3, <2>4, <2>5, TextLine
<1>. QED
  BY <1>4, <1>5 DEF EdbDisasmMOVsnw, EdbDisasmMOVsnd

\* The instructions with an immediate number.
LEMMA ImmediateLines ==
  ASSUME NEW i, i.opcode \in 0 .. 255
  PROVE  /\ Line(EdbDisasmCMPI(i))
         /\ Line(EdbDisasmMOVI(i)) /\ Line(EdbDisasmMOVIn(i)) /\ Line(EdbDisasmMOVREL(i))
<1>1. Room(EdbPrintRawIndexData(2), 15, 0)
  <2>1. PICK ten \in Nat, most \in Nat, zero \in Nat : ten = 10 /\ most = 15 /\ zero = 0
    OBVIOUS
  <2>2. ten <= most /\ zero <= zero /\ Room(EdbPrintRawIndexData(2), ten, zero)
    BY <2>1, RawIndexText
  <2>3. Room(EdbPrintRawIndexData(2), most, zero)
    BY ONLY <2>2, ten \in Nat, most \in Nat, zero \in Nat, RoomMore
  <2>. QED
    BY <2>1, <2>3
<1>2. ASSUME NEW b, NEW u, Room(u, 10, 0) \/ Room(u, 15, 0) \/ Room(u, 20, 0) \/ Room(u, 25, 0)
      PROVE  Room(EdbPrintRegister1(i) \o If(b, EdbPrintRawIndexData(2)) \o EdbPrintComma \o u, 60, 29)
  <2>1. Room(If(b, EdbPrintRawIndexData(2)), 15, 0)
    BY <1>1, RoomIf
  <2>2. Room(EdbPrintRegister1(i) \o If(b, EdbPrintRawIndexData(2)) \o EdbPrintComma, 20, 18)
    BY <2>1, OperandTexts
  <2>. QED
    BY <1>2, <2>2, LastText
<1>3. ImmediateWidth(i) \in {0, 2, 4, 8}
  <2>1. PICK q \in 0 .. 3 : q = i.opcode \div 64
    OBVIOUS
  <2>2. <<0, 2, 4, 8>>[1 + q] \in {0, 2, 4, 8}
    OBVIOUS
  <2>. QED
    BY <2>1, <2>2 DEF ImmediateWidth
<1>4. Line(EdbDisasmCMPI(i))
  <2>1. PICK bytes \in {2, 4} : bytes = IF Immediate(i) THEN 4 ELSE 2
    OBVIOUS
  <2>2. Room(EdbPrintRegister1(i) \o If(Bit(i.operands, 4), EdbPrintRawIndexData(2))
               \o EdbPrintComma \o EdbPrintDatan(bytes), 60, 29)
    <3>1. Room(EdbPrintDatan(bytes), 20, 0)
      BY NumberTexts
    <3>. QED
      BY <1>2, <3>1
  <2>3. Room(<<4, 1, OrderName(Opcode(i) - OP.CMPIEQ)>>, 20, 9)
    <3>1. Opcode(i) - OP.CMPIEQ \in Int
      BY OpcodeNumbers DEF Opcode
    <3>. QED
      BY <3>1, NameParts
  <2>4. EdbDisasmCMPI(i) =
          IF i.operands >= 32 THEN Bad
          ELSE Text(2 + bytes + (IF Bit(i.operands, 4) THEN 2 ELSE 0),
                    <<4, 1, OrderName(Opcode(i) - OP.CMPIEQ)>>,
                    EdbPrintRegister1(i) \o If(Bit(i.operands, 4), EdbPrintRawIndexData(2))
                      \o EdbPrintComma \o EdbPrintDatan(bytes))
    BY <2>1, Zenon DEF EdbDisasmCMPI
  <2>. QED
    BY <2>2, <2>3, <2>4, TextLine, BadLine
<1>5. ASSUME NEW name, Room(name, 20, 9), NEW datum,
             ImmediateWidth(i) # 0 =>
               \/ Room(datum, 10, 0) \/ Room(datum, 15, 0) \/ Room(datum, 20, 0) \/ Room(datum, 25, 0)
      PROVE  Line(MoveImmediateText(i, name, datum))
  <2>1. PICK u : u = If(ImmediateWidth(i) # 0, datum)
    OBVIOUS
  <2>2. Room(u, 10, 0) \/ Room(u, 15, 0) \/ Room(u, 20, 0) \/ Room(u, 25, 0)
    <3>1. CASE ImmediateWidth(i) # 0
      BY <1>5, <2>1, <3>1 DEF If
    <3>2. CASE ~ ImmediateWidth(i) # 0
      BY <2>1, <3>2, RoomEmpty DEF If
    <3>. QED
      BY <3>1, <3>2
  <2>3. Room(EdbPrintRegister1(i) \o If(Bit(i.operands, 6), EdbPrintRawIndexData(2))
               \o EdbPrintComma \o u, 60, 29)
    BY <1>2, <2>2
  <2>4. MoveImmediateText(i, name, datum) =
          Text(2 + ImmediateWidth(i) + (IF Bit(i.operands, 6) THEN 2 ELSE 0), name,
               EdbPrintRegister1(i) \o If(Bit(i.operands, 6), EdbPrintRawIndexData(2))
                 \o EdbPrintComma \o u)
    BY <2>1, Zenon DEF MoveImmediateText
  <2>. QED
    BY <1>5, <2>3, <2>4, TextLine
<1>6. PICK width \in {0, 2, 4, 8} : width = ImmediateWidth(i)
  BY <1>3
<1>7. Line(EdbDisasmMOVI(i))
  <2>1. PICK datum : datum = IF ImmediateWidth(i) = 8 THEN EdbPrintData64n
                             ELSE EdbPrintDatan(ImmediateWidth(i))
    OBVIOUS
  <2>2. ImmediateWidth(i) # 0 => Room(datum, 20, 0)
    BY <1>6, <2>1, NumberTexts
  <2>3. EdbDisasmMOVI(i) = MoveImmediateText(i, <<4, 1>> \o WidthName(i), datum)
    BY <2>1, Zenon DEF EdbDisasmMOVI
  <2>. QED
    BY <1>5, <2>2, <2>3, NameParts
<1>8. Line(EdbDisasmMOVIn(i))
  <2>1. PICK datum : datum = If(ImmediateWidth(i) # 0, EdbPrintRawIndexData(ImmediateWidth(i)))
    OBVIOUS
  <2>2. ImmediateWidth(i) # 0 => Room(datum, 10, 0) \/ Room(datum, 15, 0) \/ Room(datum, 25, 0)
    BY <1>6, <2>1, RawIndexText DEF If
  <2>3. EdbDisasmMOVIn(i) = MoveImmediateText(i, <<5>> \o WidthName(i), datum)
    BY <2>1, Zenon DEF EdbDisasmMOVIn
  <2>. QED
    BY <1>5, <2>2, <2>3, NameParts
<1>9. Line(EdbDisasmMOVREL(i))
  <2>1. PICK datum : datum = <<2 + 2 * ImmediateWidth(i)>>
    OBVIOUS
  <2>2. ImmediateWidth(i) # 0 => Room(datum, 20, 0)
    BY <1>6, <2>1, NumberTexts
  <2>3. EdbDisasmMOVREL(i) = IF ImmediateWidth(i) = 0 THEN Bad
                             ELSE MoveImmediateText(i, <<6>> \o WidthName(i), datum)
    BY <2>1, Zenon DEF EdbDisasmMOVREL
  <2>. QED
    BY <1>5, <2>2, <2>3, NameParts, BadLine
<1>. QED
  BY <1>4, <1>7, <1>8, <1>9

\* Every instruction of the table but MOVqq.
LEMMA EveryLine ==
  ASSUME NEW i, i.opcode \in 0 .. 255, Opcode(i) # OP.MOVQQ
  PROVE  TextFits(i)
<1>1. Opcode(i) \in 0 .. 63
  BY DEF Opcode
<1>2. Opcode(i) \in 29 .. 36 \cup {50, 51} => MoveIndex(Opcode(i)) \in {2, 4}
  <2>1. OP.MOVQW \in 29 .. 36
    BY DEF OP
  <2>. QED
    BY <2>1, OpcodeNumbers DEF MoveIndex
<1>3. \/ Disasm(i) \in { Bad, EdbDisasmBREAK(i), EdbDisasmJMP(i), EdbDisasmJMP8(i),
                         EdbDisasmCALL(i), EdbDisasmRET(i), EdbDisasmCMP(i),
                         EdbDisasmSignedDataManip(i), EdbDisasmUnsignedDataManip(i),
                         EdbDisasmMOVsnw(i), EdbDisasmMOVsnd(i), EdbDisasmLOADSP(i),
                         EdbDisasmSTORESP(i), EdbDisasmPUSH(i), EdbDisasmPOP(i),
                         EdbDisasmCMPI(i), EdbDisasmPUSHn(i), EdbDisasmPOPn(i),
                         EdbDisasmMOVI(i), EdbDisasmMOVIn(i), EdbDisasmMOVREL(i) }
      \/ Opcode(i) \in 29 .. 36 \cup {50, 51} /\ Disasm(i) = EdbDisasmMOVxx(i)
  BY <1>1, OpcodeNumbers DEF Disasm, mEdbDisasmInstructionTable
<1>4. Opcode(i) \in Int
  BY <1>1
<1>5. Line(Disasm(i))
  BY <1>2, <1>3, <1>4, BadLine, ControlLines, DataLines, StackLines, MoveLines, ImmediateLines
<1>. QED
  BY <1>5, LineFits DEF TextFits

\* Every line the debugger lists keeps to its fields, whatever numbers it shows,
\* but those of MOVqq.
THEOREM TextKept == Spec => []TextInField
<1>1. Inv => TextInField
  <2>1. ASSUME Inv, ~ Ended, Opcode(Current) # OP.MOVQQ PROVE TextFits(Current)
    <3>1. Current.opcode \in 0 .. 255
      BY <2>1, CurrentInstruction DEF Inv
    <3>. QED
      BY <2>1, <3>1, EveryLine
  <2>. QED
    BY <2>1 DEF TextInField
<1>. QED
  BY <1>1, AlwaysInv, PTL
=============================================================================

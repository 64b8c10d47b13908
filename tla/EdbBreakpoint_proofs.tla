------------------------ MODULE EdbBreakpoint_proofs ------------------------
(***************************************************************************)
(* Proofs about the debugger's breakpoints, for every program, every       *)
(* capacity of the list, every nesting of VM contexts and both values of   *)
(* Forgets.  The inductive invariant adds to the checked properties what   *)
(* every slot, the current one included, saved: the program's own word.    *)
(***************************************************************************)
EXTENDS EdbBreakpoint, TLAPS

\* A slot that holds an address holds the word the program has there, and the
\* slots of the list all hold one.
SavedWords ==
  /\ \A i \in Slot : bp[i].BreakpointAddress # 0 =>
       bp[i].OldInstruction = Program[bp[i].BreakpointAddress]
  /\ \A i \in Slot : i < count => bp[i].BreakpointAddress # 0

IInv ==
  /\ TypeOK
  /\ SavedWords
  /\ MemoryIsProgramOrBreak
  /\ BreakpointsDistinct

\* Replacing the running context keeps the stack well formed.
LEMMA SetTopType ==
  ASSUME TypeOK, NEW v \in VmContext, SetTop(v)
  PROVE  /\ vms' \in Seq(VmContext)
         /\ Len(vms') = Len(vms)
         /\ vms'[Len(vms)] = v
         /\ \A i \in 1..Len(vms) : i # Len(vms) => vms'[i] = vms[i]
BY DEF TypeOK, SetTop

\* The running context is a context.
LEMMA TopType == ASSUME TypeOK PROVE Top \in VmContext
BY DEF TypeOK, Top

\* Addresses and their neighbours on the ring.
LEMMA Neighbours ==
  ASSUME NEW a \in Addr
  PROVE  Following(a) \in Addr /\ Preceding(a) \in Addr
BY AddrAssumption DEF Addr, Following, Preceding

\* What EdbClearAllBreakpoint writes back is a word of the program.
LEMMA RestoredIsProgram ==
  ASSUME IInv, NEW a \in Addr
  PROVE  /\ EnabledAt(a) # {} => Restored[a] = Program[a]
         /\ EnabledAt(a) = {} => Restored[a] = mem[a]
         /\ Restored[a] \in Word
         /\ Restored[a] \in {Program[a], BREAK3}
<1>1. CASE EnabledAt(a) = {}
  BY <1>1 DEF Restored, IInv, TypeOK, MemoryIsProgramOrBreak
<1>2. CASE EnabledAt(a) # {}
  <2>. DEFINE last == CHOOSE i \in EnabledAt(a) :
                        \A j \in EnabledAt(a) : j <= i
  <2>1. PICK i \in EnabledAt(a) : TRUE
    BY <1>2
  <2>2. \A j \in EnabledAt(a) : j = i
    BY <2>1 DEF IInv, BreakpointsDistinct, EnabledAt, Enabled
  <2>3. i \in Int
    BY <2>1, BoundAssumption DEF EnabledAt, Slot
  <2>4. \A j \in EnabledAt(a) : j <= i
    BY <2>2, <2>3
  <2>5. last \in EnabledAt(a)
    BY <2>1, <2>4
  <2>6. /\ last \in Slot
        /\ bp[last].BreakpointAddress = a
    BY <2>5 DEF EnabledAt
  <2>7. bp[last].OldInstruction = Program[a]
    BY <2>6, AddrAssumption DEF IInv, SavedWords, Addr
  <2>8. Restored[a] = bp[last].OldInstruction
    BY <1>2 DEF Restored
  <2>. QED
    BY <1>2, <2>7, <2>8, ProgramAssumption
<1>. QED
  BY <1>1, <1>2

\* EdbCheckBreakpoint finds an entry of the list or none, and leaves the ip
\* on the ring.
LEMMA CheckBreakpointType ==
  ASSUME IInv, NEW ip \in Addr
  PROVE  /\ EdbCheckBreakpoint(ip).Ip \in Addr
         /\ EdbCheckBreakpoint(ip).current \in Breakpoint
         /\ EdbCheckBreakpoint(ip).current.BreakpointAddress # 0 =>
              EdbCheckBreakpoint(ip).current.OldInstruction
                = Program[EdbCheckBreakpoint(ip).current.BreakpointAddress]
<1>. DEFINE First(a) == CHOOSE i \in EnabledAt(a) :
                          \A j \in EnabledAt(a) : i <= j
<1>1. ASSUME NEW a \in Addr, EnabledAt(a) # {}
      PROVE  First(a) \in Slot
  <2>1. PICK i \in EnabledAt(a) : TRUE
    BY <1>1
  <2>2. \A j \in EnabledAt(a) : j = i
    BY <2>1 DEF IInv, BreakpointsDistinct, EnabledAt, Enabled
  <2>3. \A j \in EnabledAt(a) : i <= j
    BY <2>1, <2>2, BoundAssumption DEF EnabledAt, Slot
  <2>4. First(a) \in EnabledAt(a)
    BY <2>1, <2>3
  <2>. QED
    BY <2>4 DEF EnabledAt
<1>2. NoBreakpoint \in Breakpoint /\ NoBreakpoint.BreakpointAddress = 0
  BY DEF NoBreakpoint, Breakpoint, Word
<1>3. Preceding(ip) \in Addr
  BY Neighbours
<1>4. CASE EnabledAt(Preceding(ip)) # {}
  <2>1. EdbCheckBreakpoint(ip) = [current |-> bp[First(Preceding(ip))],
                                  Ip |-> Preceding(ip)]
    BY <1>4 DEF EdbCheckBreakpoint
  <2>. QED
    BY <2>1, <1>1, <1>3, <1>4 DEF IInv, TypeOK, SavedWords
<1>5. CASE EnabledAt(Preceding(ip)) = {} /\ EnabledAt(ip) # {}
  <2>1. EdbCheckBreakpoint(ip) = [current |-> bp[First(ip)], Ip |-> ip]
    BY <1>5 DEF EdbCheckBreakpoint
  <2>2. First(ip) \in Slot
    BY <1>1, <1>5
  <2>. QED
    BY <2>1, <2>2 DEF IInv, TypeOK, SavedWords
<1>6. CASE EnabledAt(Preceding(ip)) = {} /\ EnabledAt(ip) = {}
  <2>1. EdbCheckBreakpoint(ip) = [current |-> NoBreakpoint, Ip |-> ip]
    BY <1>6 DEF EdbCheckBreakpoint
  <2>. QED
    BY <2>1, <1>2
<1>. QED
  BY <1>4, <1>5, <1>6

-----------------------------------------------------------------------------
(* Every step preserves the invariant: one lemma for what the handler does *)
(* on entry and one for what it does on the way out, then one step per     *)
(* action.                                                                 *)

LEMMA EmptyList ==
  ASSUME IInv, count' = 0, bp' = [i \in Slot |-> NoBreakpoint]
  PROVE  /\ bp' \in [Slot -> Breakpoint] /\ count' \in 0..BpMax
         /\ SavedWords'
         /\ BreakpointsDistinct'
<1>1. NoBreakpoint \in Breakpoint /\ NoBreakpoint.BreakpointAddress = 0
  BY DEF NoBreakpoint, Breakpoint, Word
<1>2. \A i \in Slot : bp'[i] = NoBreakpoint
  OBVIOUS
<1>3. \A i \in Slot : ~(i < count')
  BY BoundAssumption DEF Slot
<1>. QED
  BY <1>1, <1>2, <1>3, BoundAssumption DEF SavedWords, BreakpointsDistinct

LEMMA EnterPreserves ==
  ASSUME IInv, NEW at \in Handling, NEW ip \in Addr,
         InitDebuggerPrivateData(at, ip)
  PROVE  IInv'
<1>. DEFINE check == IF at = "inStep" THEN [current |-> bp[BpMax], Ip |-> ip]
                                      ELSE EdbCheckBreakpoint(ip)
<1>1. /\ check.Ip \in Addr
      /\ check.current \in Breakpoint
      /\ check.current.BreakpointAddress # 0 =>
           check.current.OldInstruction
             = Program[check.current.BreakpointAddress]
  <2>1. BpMax \in Slot
    BY BoundAssumption DEF Slot
  <2>. QED
    BY <2>1, CheckBreakpointType DEF IInv, TypeOK, SavedWords
<1>2. mInitialized' = TRUE
  BY DEF InitDebuggerPrivateData
<1>3. CASE ~(mInitialized /\ ~Forgets)
  <2>. DEFINE v == [Ip |-> ip, Step |-> FALSE, At |-> at]
  <2>1. /\ count' = 0
        /\ bp' = [i \in Slot |-> NoBreakpoint]
        /\ mem' = mem
        /\ SetTop(v)
    BY <1>3 DEF InitDebuggerPrivateData
  <2>2. v \in VmContext
    BY DEF VmContext
  <2>3. /\ vms' \in Seq(VmContext)
        /\ Len(vms') = Len(vms)
    BY <2>1, <2>2, SetTopType DEF IInv
  <2>4. TypeOK'
    BY <1>2, <2>1, <2>3, EmptyList DEF IInv, TypeOK
  <2>. QED
    BY <2>1, <2>4, EmptyList DEF IInv, MemoryIsProgramOrBreak
<1>4. CASE mInitialized /\ ~Forgets
  <2>. DEFINE v == [Ip |-> check.Ip, Step |-> FALSE, At |-> at]
  <2>1. /\ bp' = [bp EXCEPT ![BpMax] = check.current]
        /\ mem' = Restored
        /\ count' = count
        /\ SetTop(v)
    BY <1>4 DEF InitDebuggerPrivateData
  <2>2. v \in VmContext
    BY <1>1 DEF VmContext
  <2>3. /\ vms' \in Seq(VmContext)
        /\ Len(vms') = Len(vms)
    BY <2>1, <2>2, SetTopType DEF IInv
  <2>4. mem' \in [Addr -> Word] /\ MemoryIsProgramOrBreak'
    <3>1. mem' = [a \in Addr |-> Restored[a]]
      BY <2>1 DEF Restored
    <3>. QED
      BY <3>1, RestoredIsProgram DEF MemoryIsProgramOrBreak
  <2>5. \A i \in Slot : bp'[i] = IF i = BpMax THEN check.current ELSE bp[i]
    BY <2>1 DEF IInv, TypeOK
  <2>6. bp' \in [Slot -> Breakpoint]
    BY <1>1, <2>1 DEF IInv, TypeOK
  <2>7. \A i \in Slot : i < count' => i # BpMax /\ i < count
    BY <2>1, BoundAssumption DEF IInv, TypeOK, Slot
  <2>8. TypeOK'
    BY <1>2, <2>1, <2>3, <2>4, <2>6 DEF IInv, TypeOK
  <2>9. SavedWords'
    BY <1>1, <2>5, <2>7 DEF IInv, SavedWords
  <2>10. BreakpointsDistinct'
    BY <2>5, <2>7 DEF IInv, BreakpointsDistinct
  <2>. QED
    BY <2>4, <2>8, <2>9, <2>10 DEF IInv
<1>. QED
  BY <1>3, <1>4

LEMMA ResumeType ==
  ASSUME IInv, NEW step \in BOOLEAN, Resume(step)
  PROVE  vms' \in Seq(VmContext) /\ Len(vms') = Len(vms)
<1>1. Top \in VmContext
  BY TopType DEF IInv
<1>2. PICK v \in VmContext : SetTop(v)
  <2>. DEFINE After(ip) == [Ip |-> ip, Step |-> step,
                            At |-> IF step THEN "ended" ELSE "running"]
  <2>1. \A ip \in Addr : After(ip) \in VmContext
    BY DEF VmContext
  <2>2. CASE Top.At = "inBreak"
    <3>1. SetTop(After(Following(Top.Ip)))
      BY <2>2 DEF Resume
    <3>2. Following(Top.Ip) \in Addr
      BY <1>1, Neighbours DEF VmContext
    <3>. QED
      BY <3>1, <3>2, <2>1
  <2>3. CASE Top.At = "inMid"
    <3>1. \E ip \in Addr : SetTop(After(ip))
      BY <2>3 DEF Resume
    <3>. QED
      BY <3>1, <2>1
  <2>4. CASE Top.At # "inBreak" /\ Top.At # "inMid"
    <3>1. SetTop([Ip |-> Top.Ip, Step |-> step, At |-> "running"])
      BY <2>4 DEF Resume
    <3>2. [Ip |-> Top.Ip, Step |-> step, At |-> "running"] \in VmContext
      BY <1>1 DEF VmContext
    <3>. QED
      BY <3>1, <3>2
  <2>. QED
    BY <2>2, <2>3, <2>4
<1>. QED
  BY <1>2, SetTopType DEF IInv

LEMMA LeavePreserves ==
  ASSUME IInv, NEW initialized \in BOOLEAN, NEW step \in BOOLEAN,
         DeinitDebuggerPrivateData(initialized), Resume(step),
         mInitialized' \in BOOLEAN
  PROVE  IInv'
<1>1. vms' \in Seq(VmContext) /\ Len(vms') = Len(vms)
  BY ResumeType
<1>2. CASE initialized
  <2>1. /\ mem' = [a \in Addr |->
                     IF a = bp[BpMax].BreakpointAddress
                     THEN bp[BpMax].OldInstruction
                     ELSE IF EnabledAt(a) # {} THEN BREAK3 ELSE mem[a]]
        /\ UNCHANGED <<bp, count>>
    BY <1>2 DEF DeinitDebuggerPrivateData, EdbSetAllBreakpoint
  <2>2. \A a \in Addr : mem'[a] \in Word /\ mem'[a] \in {Program[a], BREAK3}
    <3>. SUFFICES ASSUME NEW a \in Addr
                  PROVE  mem'[a] \in Word /\ mem'[a] \in {Program[a], BREAK3}
      OBVIOUS
    <3>1. BpMax \in Slot
      BY BoundAssumption DEF Slot
    <3>2. a # 0
      BY AddrAssumption DEF Addr
    <3>3. a = bp[BpMax].BreakpointAddress =>
            bp[BpMax].OldInstruction = Program[a]
      BY <3>1, <3>2 DEF IInv, SavedWords
    <3>4. Program[a] \in Word
      BY ProgramAssumption
    <3>5. BREAK3 \in Word
      BY DEF Word, BREAK3
    <3>. QED
      BY <2>1, <3>3, <3>4, <3>5 DEF IInv, TypeOK, MemoryIsProgramOrBreak
  <2>3. mem' \in [Addr -> Word] /\ MemoryIsProgramOrBreak'
    BY <2>1, <2>2 DEF MemoryIsProgramOrBreak
  <2>. QED
    BY <1>1, <2>1, <2>3
    DEF IInv, TypeOK, SavedWords, BreakpointsDistinct
<1>3. CASE ~initialized
  <2>1. /\ mem' = Restored
        /\ count' = 0
        /\ bp' = [i \in Slot |-> NoBreakpoint]
    BY <1>3 DEF DeinitDebuggerPrivateData, EdbClearAllBreakpoint
  <2>2. mem' \in [Addr -> Word] /\ MemoryIsProgramOrBreak'
    <3>1. mem' = [a \in Addr |-> Restored[a]]
      BY <2>1 DEF Restored
    <3>. QED
      BY <3>1, RestoredIsProgram DEF MemoryIsProgramOrBreak
  <2>. QED
    BY <1>1, <2>1, <2>2, EmptyList DEF IInv, TypeOK
<1>. QED
  BY <1>2, <1>3

\* What the machine and the list commands leave alone.
LEMMA ListOrVmPreserves ==
  ASSUME IInv, NEW a \in Addr, NEW i \in Slot, NEW state \in BOOLEAN,
         NEW indices \in SUBSET Slot
  PROVE  /\ EbcInterpret(a) => IInv'
         /\ ExecuteFunction(a) => IInv'
         /\ ReturnFromVm => IInv'
         /\ DebuggerBreakpointAdd(a) => IInv'
         /\ DebuggerBreakpointDel(i) => IInv'
         /\ DebuggerBreakpointClearAll => IInv'
         /\ DebuggerBreakpointSetState(indices, state) => IInv'
<1>. USE DEF IInv
<1>1. ASSUME EbcInterpret(a) PROVE IInv'
  <2>1. [Ip |-> a, Step |-> FALSE, At |-> "running"] \in VmContext
    BY DEF VmContext
  <2>. QED
    BY <1>1, <2>1, BoundAssumption
    DEF EbcInterpret, TypeOK, SavedWords, MemoryIsProgramOrBreak,
        BreakpointsDistinct
<1>2. ASSUME ExecuteFunction(a) PROVE IInv'
  <2>. DEFINE v == [Ip |-> a, Step |-> Top.Step,
                    At |-> IF Top.Step THEN "ended" ELSE "running"]
  <2>1. SetTop(v) /\ UNCHANGED <<mem, bp, count, mInitialized>>
    BY <1>2 DEF ExecuteFunction
  <2>2. v \in VmContext
    BY TopType DEF VmContext
  <2>3. vms' \in Seq(VmContext) /\ Len(vms') = Len(vms)
    BY <2>1, <2>2, SetTopType
  <2>. QED
    BY <2>1, <2>3
    DEF TypeOK, SavedWords, MemoryIsProgramOrBreak, BreakpointsDistinct
<1>3. ASSUME ReturnFromVm PROVE IInv'
  <2>1. /\ vms' = SubSeq(vms, 1, Len(vms) - 1) /\ Len(vms) > 1
        /\ UNCHANGED <<mem, bp, count, mInitialized>>
    BY <1>3 DEF ReturnFromVm
  <2>2. vms' \in Seq(VmContext) /\ Len(vms') = Len(vms) - 1
    BY <2>1 DEF TypeOK
  <2>. QED
    BY <2>1, <2>2, BoundAssumption
    DEF TypeOK, SavedWords, MemoryIsProgramOrBreak, BreakpointsDistinct
<1>4. ASSUME DebuggerBreakpointAdd(a) PROVE IInv'
  <2>. DEFINE added == [BreakpointAddress |-> a, OldInstruction |-> mem[a],
                        State |-> TRUE]
  <2>1. /\ ~Duplicated(a) /\ mem[a] # BREAK3 /\ count < BpMax
        /\ bp' = [bp EXCEPT ![count] = added] /\ count' = count + 1
        /\ UNCHANGED <<mem, vms, mInitialized>>
    BY <1>4 DEF DebuggerBreakpointAdd
  <2>2. added \in Breakpoint /\ added.OldInstruction = Program[a] /\ a # 0
    BY <2>1, AddrAssumption
    DEF TypeOK, MemoryIsProgramOrBreak, Breakpoint, Addr
  <2>3. count \in Slot
    BY <2>1 DEF TypeOK, Slot
  <2>4. /\ \A j \in Slot : bp'[j] = IF j = count THEN added ELSE bp[j]
        /\ \A j \in Slot : j < count' => j < count \/ j = count
    BY <2>1, BoundAssumption DEF TypeOK, Slot
  <2>5. TypeOK'
    BY <2>1, <2>2, <2>3, BoundAssumption DEF TypeOK
  <2>6. SavedWords'
    BY <2>2, <2>4 DEF SavedWords
  <2>7. BreakpointsDistinct'
    BY <2>1, <2>4 DEF BreakpointsDistinct, Duplicated
  <2>. QED
    BY <2>1, <2>5, <2>6, <2>7 DEF MemoryIsProgramOrBreak
<1>5. ASSUME DebuggerBreakpointDel(i) PROVE IInv'
  <2>1. /\ i < count /\ i < BpMax /\ count' = count - 1
        /\ bp' = [k \in Slot |-> IF i <= k /\ k < count - 1 THEN bp[k + 1]
                                 ELSE IF k = count - 1 THEN NoBreakpoint
                                 ELSE bp[k]]
        /\ UNCHANGED <<mem, vms, mInitialized>>
    BY <1>5 DEF DebuggerBreakpointDel
  <2>2. NoBreakpoint \in Breakpoint /\ NoBreakpoint.BreakpointAddress = 0
    BY DEF NoBreakpoint, Breakpoint, Word
  <2>3. \A k \in Slot : k < count - 1 => k + 1 \in Slot /\ k + 1 < count
    BY BoundAssumption DEF TypeOK, Slot
  <2>4. bp' \in [Slot -> Breakpoint] /\ count' \in 0..BpMax
    BY <2>1, <2>2, <2>3, BoundAssumption DEF TypeOK, Slot
  <2>5. SavedWords'
    <3>. SUFFICES ASSUME NEW k \in Slot
                  PROVE  /\ bp'[k].BreakpointAddress # 0 =>
                              bp'[k].OldInstruction
                                = Program[bp'[k].BreakpointAddress]
                         /\ k < count' => bp'[k].BreakpointAddress # 0
      BY DEF SavedWords
    <3>1. CASE i <= k /\ k < count - 1
      BY <2>1, <2>3, <3>1 DEF SavedWords
    <3>2. CASE k = count - 1
      BY <2>1, <2>2, <3>2, BoundAssumption DEF TypeOK
    <3>3. CASE ~(i <= k /\ k < count - 1) /\ k # count - 1
      <4>1. bp'[k] = bp[k]
        BY <2>1, <3>3
      <4>2. k < count' => k < count
        BY <2>1, BoundAssumption DEF TypeOK, Slot
      <4>. QED
        BY <4>1, <4>2 DEF SavedWords
    <3>. QED
      BY <3>1, <3>2, <3>3
  <2>6. BreakpointsDistinct'
    <3>. DEFINE from(k) == IF i <= k THEN k + 1 ELSE k
    <3>1. \A k \in Slot : k < count' =>
            /\ from(k) \in Slot /\ from(k) < count
            /\ bp'[k] = bp[from(k)]
      BY <2>1, <2>3, BoundAssumption DEF TypeOK, Slot
    <3>2. \A j, k \in Slot : j # k => from(j) # from(k)
      BY BoundAssumption DEF Slot
    <3>. QED
      BY <3>1, <3>2 DEF BreakpointsDistinct
  <2>. QED
    BY <2>1, <2>4, <2>5, <2>6 DEF TypeOK, MemoryIsProgramOrBreak
<1>6. ASSUME DebuggerBreakpointClearAll PROVE IInv'
  BY <1>6, EmptyList
  DEF DebuggerBreakpointClearAll, TypeOK, MemoryIsProgramOrBreak
<1>7. ASSUME DebuggerBreakpointSetState(indices, state) PROVE IInv'
  <2>1. /\ bp' = [k \in Slot |->
                   IF k \in indices /\ k < count /\ k < BpMax
                   THEN [bp[k] EXCEPT !.State = state] ELSE bp[k]]
        /\ UNCHANGED <<mem, vms, count, mInitialized>>
    BY <1>7 DEF DebuggerBreakpointSetState
  <2>2. \A k \in Slot :
          /\ bp'[k] \in Breakpoint
          /\ bp'[k].BreakpointAddress = bp[k].BreakpointAddress
          /\ bp'[k].OldInstruction = bp[k].OldInstruction
    BY <2>1 DEF TypeOK, Breakpoint
  <2>3. bp' \in [Slot -> Breakpoint]
    BY <2>1, <2>2
  <2>. QED
    BY <2>1, <2>2, <2>3
    DEF TypeOK, SavedWords, BreakpointsDistinct, MemoryIsProgramOrBreak
<1>. QED
  BY <1>1, <1>2, <1>3, <1>4, <1>5, <1>6, <1>7

\* The initial state satisfies the invariant.
LEMMA InitEstablishes == Init => IInv
<1>. SUFFICES ASSUME Init PROVE IInv
  OBVIOUS
<1>1. NoBreakpoint \in Breakpoint /\ NoBreakpoint.BreakpointAddress = 0
  BY DEF NoBreakpoint, Breakpoint, Word
<1>2. PICK entry \in Addr :
        vms = <<[Ip |-> entry, Step |-> FALSE, At |-> "running"]>>
  BY DEF Init
<1>3. vms \in Seq(VmContext) /\ Len(vms) = 1
  BY <1>2 DEF VmContext
<1>4. TypeOK
  <2>1. mem \in [Addr -> Word] /\ mInitialized \in BOOLEAN
    BY ProgramAssumption DEF Init
  <2>2. bp \in [Slot -> Breakpoint]
    BY <1>1 DEF Init
  <2>3. count \in 0..BpMax /\ Len(vms) \in 1..MaxVm
    BY <1>3, BoundAssumption DEF Init
  <2>. QED
    BY <1>3, <2>1, <2>2, <2>3 DEF TypeOK
<1>5. SavedWords
  BY <1>1, BoundAssumption DEF Init, SavedWords, Slot
<1>6. MemoryIsProgramOrBreak
  BY DEF Init, MemoryIsProgramOrBreak
<1>7. BreakpointsDistinct
  BY BoundAssumption DEF Init, BreakpointsDistinct, Slot
<1>. QED
  BY <1>4, <1>5, <1>6, <1>7 DEF IInv

\* Every step preserves it.
LEMMA NextPreserves == IInv /\ [Next]_vars => IInv'
<1>. SUFFICES ASSUME IInv, [Next]_vars PROVE IInv'
  OBVIOUS
<1>1. Top \in VmContext
  BY TopType DEF IInv
<1>2. Top.Ip \in Addr
  BY <1>1 DEF VmContext
<1>3. 0 \in Slot /\ Slot \in SUBSET Slot /\ 1 \in Addr
  BY BoundAssumption, AddrAssumption DEF Slot, Addr
<1>4. CASE VmStep
  <2>1. CASE \E a \in Addr : EbcInterpret(a) \/ ExecuteFunction(a)
    BY <2>1, <1>3, ListOrVmPreserves
  <2>2. CASE HookExecuteStart
    BY <2>2, <1>2, EnterPreserves DEF HookExecuteStart, Handling
  <2>3. CASE HookInInstruction
    BY <2>3, <1>2, EnterPreserves DEF HookInInstruction, Handling
  <2>4. CASE ExecuteBREAK
    BY <2>4, <1>2, EnterPreserves DEF ExecuteBREAK, Handling
  <2>5. CASE SignalStep
    BY <2>5, <1>2, EnterPreserves DEF SignalStep, Handling
  <2>6. CASE ReturnFromVm
    BY <2>6, <1>3, ListOrVmPreserves
  <2>. QED
    BY <1>4, <2>1, <2>2, <2>3, <2>4, <2>5, <2>6 DEF VmStep
<1>5. CASE Command
  <2>1. CASE \E a \in Addr : DebuggerBreakpointAdd(a)
    BY <2>1, <1>3, ListOrVmPreserves
  <2>2. CASE \E i \in Slot : DebuggerBreakpointDel(i)
    BY <2>2, <1>3, ListOrVmPreserves
  <2>3. CASE DebuggerBreakpointClearAll
    BY <2>3, <1>3, ListOrVmPreserves
  <2>4. ASSUME NEW state \in BOOLEAN,
               \/ DebuggerBreakpointSetState(Slot, state)
               \/ \E i \in Slot : DebuggerBreakpointSetState({i}, state)
        PROVE  IInv'
    <3>1. \A i \in Slot : {i} \in SUBSET Slot
      OBVIOUS
    <3>. QED
      BY <2>4, <3>1, <1>3, ListOrVmPreserves
  <2>5. CASE DebuggerGo
    BY <2>5, LeavePreserves DEF DebuggerGo, IInv, TypeOK
  <2>6. CASE DebuggerStepInto
    BY <2>6, LeavePreserves DEF DebuggerStepInto, IInv, TypeOK
  <2>7. CASE DebuggerQuit
    BY <2>7, LeavePreserves DEF DebuggerQuit
  <2>. QED
    BY <1>5, <2>1, <2>2, <2>3, <2>4, <2>5, <2>6, <2>7 DEF Command
<1>6. CASE UNCHANGED vars
  BY <1>6 DEF vars, IInv, TypeOK, SavedWords, MemoryIsProgramOrBreak,
              BreakpointsDistinct, Duplicated
<1>. QED
  BY <1>4, <1>5, <1>6 DEF Next

LEMMA Inductive == Spec => []IInv
BY InitEstablishes, NextPreserves, PTL DEF Spec

-----------------------------------------------------------------------------
\* The list, the memory and the contexts keep their types in every
\* interleaving of sessions, commands and nested VM contexts.
THEOREM TypeCorrect == Spec => []TypeOK
<1>1. IInv => TypeOK
  BY DEF IInv
<1>. QED
  BY <1>1, Inductive, PTL

\* No patch or restore of the debugger ever puts a word into the program
\* other than the program's own or a BREAK 3.
THEOREM MemoryIntact == Spec => []MemoryIsProgramOrBreak
<1>1. IInv => MemoryIsProgramOrBreak
  BY DEF IInv
<1>. QED
  BY <1>1, Inductive, PTL

\* The list never holds an address twice.
THEOREM ListDistinct == Spec => []BreakpointsDistinct
<1>1. IInv => BreakpointsDistinct
  BY DEF IInv
<1>. QED
  BY <1>1, Inductive, PTL

-----------------------------------------------------------------------------
(* Enabled breakpoints are armed whenever no session is active.  Entering   *)
(* the handler and giving a list command leave a session active; leaving it *)
(* arms the whole list or empties it; the other steps of the machine touch  *)
(* neither the memory nor the list, and no handler begins or ends.          *)

LEMMA ArmedOnEntry ==
  ASSUME IInv, NEW at \in Handling, NEW ip \in Addr,
         InitDebuggerPrivateData(at, ip)
  PROVE  EnabledAreArmed'
<1>1. PICK v : SetTop(v) /\ v \in VmContext /\ v.At = at
  <2>. DEFINE v1 == [Ip |-> ip, Step |-> FALSE, At |-> at]
              check == IF at = "inStep"
                       THEN [current |-> bp[BpMax], Ip |-> ip]
                       ELSE EdbCheckBreakpoint(ip)
              v2 == [Ip |-> check.Ip, Step |-> FALSE, At |-> at]
  <2>1. SetTop(v1) \/ SetTop(v2)
    BY DEF InitDebuggerPrivateData
  <2>2. check.Ip \in Addr
    BY CheckBreakpointType
  <2>3. /\ v1 \in VmContext /\ v1.At = at
        /\ v2 \in VmContext /\ v2.At = at
    BY <2>2 DEF VmContext
  <2>. QED
    BY <2>1, <2>3
<1>2. Len(vms') = Len(vms) /\ vms'[Len(vms)] = v
  BY <1>1, SetTopType DEF IInv
<1>3. Len(vms) \in 1..Len(vms')
  BY <1>2 DEF IInv, TypeOK
<1>4. SessionActive'
  BY <1>1, <1>2, <1>3 DEF SessionActive
<1>. QED
  BY <1>4 DEF EnabledAreArmed

LEMMA ArmedOnExit ==
  ASSUME IInv, NEW initialized \in BOOLEAN,
         DeinitDebuggerPrivateData(initialized)
  PROVE  EnabledAreArmed'
<1>1. CASE initialized
  <2>1. /\ mem' = [a \in Addr |->
                     IF a = bp[BpMax].BreakpointAddress
                     THEN bp[BpMax].OldInstruction
                     ELSE IF EnabledAt(a) # {} THEN BREAK3 ELSE mem[a]]
        /\ bp' = bp /\ count' = count
    BY <1>1 DEF DeinitDebuggerPrivateData, EdbSetAllBreakpoint
  <2>2. SUFFICES ASSUME NEW i \in Slot, Enabled(i)
                 PROVE  \/ mem'[bp[i].BreakpointAddress] = BREAK3
                        \/ bp[i].BreakpointAddress
                             = bp[BpMax].BreakpointAddress
    BY <2>1 DEF EnabledAreArmed, Enabled
  <2>3. bp[i].BreakpointAddress \in Addr
    BY <2>2 DEF IInv, TypeOK, SavedWords, Breakpoint, Enabled
  <2>4. i \in EnabledAt(bp[i].BreakpointAddress)
    BY <2>2 DEF EnabledAt
  <2>. QED
    BY <2>1, <2>3, <2>4
<1>2. CASE ~initialized
  <2>1. count' = 0
    BY <1>2 DEF DeinitDebuggerPrivateData, EdbClearAllBreakpoint
  <2>2. \A i \in Slot : ~(i < count')
    BY <2>1, BoundAssumption DEF Slot
  <2>. QED
    BY <2>2 DEF EnabledAreArmed, Enabled
<1>. QED
  BY <1>1, <1>2

LEMMA ArmedAtPrompt ==
  ASSUME TypeOK, AtPrompt, UNCHANGED vms
  PROVE  EnabledAreArmed'
<1>1. Len(vms) \in 1..Len(vms)
  BY DEF TypeOK
<1>2. SessionActive'
  BY <1>1 DEF AtPrompt, Top, SessionActive
<1>. QED
  BY <1>2 DEF EnabledAreArmed

LEMMA ArmedMeanwhile ==
  ASSUME EnabledAreArmed, UNCHANGED <<mem, bp, count>>,
         SessionActive => SessionActive'
  PROVE  EnabledAreArmed'
BY DEF EnabledAreArmed, Enabled

LEMMA ArmedInit == Init => EnabledAreArmed
<1>. SUFFICES ASSUME Init PROVE EnabledAreArmed
  OBVIOUS
<1>1. \A i \in Slot : ~(i < count)
  BY BoundAssumption DEF Init, Slot
<1>. QED
  BY <1>1 DEF EnabledAreArmed, Enabled

LEMMA ArmedNext == IInv /\ EnabledAreArmed /\ [Next]_vars => EnabledAreArmed'
<1>. SUFFICES ASSUME IInv, EnabledAreArmed, [Next]_vars
              PROVE  EnabledAreArmed'
  OBVIOUS
<1>1. TypeOK
  BY DEF IInv
<1>2. Top.Ip \in Addr
  BY <1>1, TopType DEF VmContext
<1>3. CASE VmStep
  <2>1. ASSUME NEW a \in Addr, EbcInterpret(a) PROVE EnabledAreArmed'
    <3>. DEFINE v == [Ip |-> a, Step |-> FALSE, At |-> "running"]
    <3>1. vms' = Append(vms, v) /\ UNCHANGED <<mem, bp, count>>
      BY <2>1 DEF EbcInterpret
    <3>2. \A i \in 1..Len(vms) : i \in 1..Len(vms') /\ vms'[i] = vms[i]
      BY <1>1, <3>1 DEF TypeOK
    <3>3. SessionActive => SessionActive'
      BY <3>2 DEF SessionActive
    <3>. QED
      BY <3>1, <3>3, ArmedMeanwhile
  <2>2. ASSUME NEW a \in Addr, ExecuteFunction(a) PROVE EnabledAreArmed'
    <3>. DEFINE v == [Ip |-> a, Step |-> Top.Step,
                      At |-> IF Top.Step THEN "ended" ELSE "running"]
    <3>1. /\ Top.At = "running" /\ SetTop(v)
          /\ UNCHANGED <<mem, bp, count>>
      BY <2>2 DEF ExecuteFunction
    <3>2. v \in VmContext
      BY <1>1, TopType DEF VmContext
    <3>3. /\ Len(vms') = Len(vms)
          /\ \A i \in 1..Len(vms) : i # Len(vms) => vms'[i] = vms[i]
      BY <1>1, <3>1, <3>2, SetTopType
    <3>4. vms[Len(vms)].At \notin Handling
      BY <3>1 DEF Top, Handling
    <3>5. SessionActive => SessionActive'
      BY <3>3, <3>4 DEF SessionActive
    <3>. QED
      BY <3>1, <3>5, ArmedMeanwhile
  <2>3. CASE HookExecuteStart
    BY <2>3, <1>2, ArmedOnEntry DEF HookExecuteStart, Handling
  <2>4. CASE HookInInstruction
    BY <2>4, <1>2, ArmedOnEntry DEF HookInInstruction, Handling
  <2>5. CASE ExecuteBREAK
    BY <2>5, <1>2, ArmedOnEntry DEF ExecuteBREAK, Handling
  <2>6. CASE SignalStep
    BY <2>6, <1>2, ArmedOnEntry DEF SignalStep, Handling
  <2>7. CASE ReturnFromVm
    <3>1. /\ Top.At = "running" /\ Len(vms) > 1
          /\ vms' = SubSeq(vms, 1, Len(vms) - 1)
          /\ UNCHANGED <<mem, bp, count>>
      BY <2>7 DEF ReturnFromVm
    <3>2. \A i \in 1..Len(vms) : i # Len(vms) =>
            i \in 1..Len(vms') /\ vms'[i] = vms[i]
      BY <1>1, <3>1 DEF TypeOK
    <3>3. vms[Len(vms)].At \notin Handling
      BY <3>1 DEF Top, Handling
    <3>4. SessionActive => SessionActive'
      BY <3>2, <3>3 DEF SessionActive
    <3>. QED
      BY <3>1, <3>4, ArmedMeanwhile
  <2>. QED
    BY <1>3, <2>1, <2>2, <2>3, <2>4, <2>5, <2>6, <2>7 DEF VmStep
<1>4. CASE Command
  <2>1. CASE \/ \E a \in Addr : DebuggerBreakpointAdd(a)
             \/ \E i \in Slot : DebuggerBreakpointDel(i)
             \/ DebuggerBreakpointClearAll
             \/ \E state \in BOOLEAN :
                  \/ DebuggerBreakpointSetState(Slot, state)
                  \/ \E i \in Slot : DebuggerBreakpointSetState({i}, state)
    <3>1. AtPrompt /\ UNCHANGED vms
      BY <2>1 DEF DebuggerBreakpointAdd, DebuggerBreakpointDel,
                  DebuggerBreakpointClearAll, DebuggerBreakpointSetState
    <3>. QED
      BY <1>1, <3>1, ArmedAtPrompt
  <2>2. CASE DebuggerGo \/ DebuggerStepInto \/ DebuggerQuit
    <3>1. PICK initialized \in BOOLEAN :
            DeinitDebuggerPrivateData(initialized)
      BY <1>1, <2>2 DEF DebuggerGo, DebuggerStepInto, DebuggerQuit, TypeOK
    <3>. QED
      BY <3>1, ArmedOnExit
  <2>. QED
    BY <1>4, <2>1, <2>2 DEF Command
<1>5. CASE UNCHANGED vars
  <2>1. SessionActive => SessionActive'
    BY <1>5 DEF vars, SessionActive
  <2>. QED
    BY <1>5, <2>1, ArmedMeanwhile DEF vars
<1>. QED
  BY <1>3, <1>4, <1>5 DEF Next

\* Whenever the program runs without a session, every enabled breakpoint of
\* the list is in memory, save the one the last session stopped at.
THEOREM Armed == Spec => []EnabledAreArmed
<1>1. IInv /\ EnabledAreArmed /\ [Next]_vars => EnabledAreArmed'
  BY ArmedNext
<1>2. Spec => []IInv
  BY Inductive
<1>. QED
  BY <1>1, <1>2, ArmedInit, PTL DEF Spec

=============================================================================

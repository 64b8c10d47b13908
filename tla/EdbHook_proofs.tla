--------------------------- MODULE EdbHook_proofs ---------------------------
(***************************************************************************)
(* Proofs about the hooks of the EBC debugger, for every program, every    *)
(* capacity of the call stack and the trace, and every nesting of VM       *)
(* contexts.                                                               *)
(***************************************************************************)
EXTENDS EdbHook, WellFoundedInduction, TLAPS

\* A context that goes on, or starts, was not at a prompt.
LEMMA RunningIsNoPrompt ==
  ASSUME NEW place, At(place)
  PROVE  ~AtPrompt
BY DEF At, AtPrompt

\* Unless it is a key, what a session records as its reason is no key.
LEMMA CheckHookFlagStatus ==
  ASSUME NEW flag \in {"BOC", "BOCX", "BOR"}, NEW v, CheckHookFlag(flag, v)
  PROVE  StatusFlags' = "BOK" => StatusFlags = "BOK"
BY DEF CheckHookFlag

\* The steps of the machine, each taken without a prompt, neither turn off
\* breaking on keys nor record a key.
LEMMA VmStepKeeps ==
  ASSUME KeyBreaksWhileOn, VmStep
  PROVE  KeyBreaksWhileOn'
<1> DEFINE Keeps == /\ ~AtPrompt
                    /\ "BOK" \in FeatureFlags => "BOK" \in FeatureFlags'
                    /\ StatusFlags' = "BOK" => StatusFlags = "BOK"
<1>1. Keeps
  <2>1. ASSUME NEW entry \in Entries,
               ExecuteEbcImageEntryPoint(entry) \/ EbcInterpret(entry)
        PROVE  Keeps
    <3>1. PICK flag \in {"BOE", "BOT"}, source \in {Image, Thunk} :
            StartVm(entry, source, flag)
      BY <2>1 DEF ExecuteEbcImageEntryPoint, EbcInterpret
    <3>2. ~AtPrompt
      BY <3>1 DEF StartVm, At, AtPrompt
    <3>3. UNCHANGED FeatureFlags /\ (StatusFlags' = flag \/ UNCHANGED StatusFlags)
      BY <3>1 DEF StartVm
    <3>. QED
      BY <3>2, <3>3
  <2>2. CASE ReturnFromVm
    BY <2>2, RunningIsNoPrompt DEF ReturnFromVm
  <2>3. CASE HookExecuteStart
    BY <2>3, RunningIsNoPrompt DEF HookExecuteStart
  <2>4. CASE HookExecuteStartKey
    BY <2>4, RunningIsNoPrompt DEF HookExecuteStartKey
  <2>5. CASE ExecuteOther
    BY <2>5, RunningIsNoPrompt DEF ExecuteOther
  <2>6. CASE SignalFault
    BY <2>6, RunningIsNoPrompt DEF SignalFault, InvalidOpcode
  <2>7. ASSUME NEW op, NEW flag \in {"BOC", "BOCX", "BOR"},
               HookCheck(op, flag)
        PROVE  Keeps
    <3>1. ~AtPrompt /\ UNCHANGED FeatureFlags
      BY <2>7, RunningIsNoPrompt DEF HookCheck
    <3>2. StatusFlags' = "BOK" => StatusFlags = "BOK"
      BY <2>7, CheckHookFlagStatus DEF HookCheck
    <3>. QED
      BY <3>1, <3>2
  <2>8. CASE HookCALLStart
    BY <2>7, <2>8, RunningIsNoPrompt DEF HookCALLStart
  <2>9. CASE ExecuteCALL
    BY <2>9, RunningIsNoPrompt DEF ExecuteCALL, HookCALLEnd, PushStepEntry
  <2>10. CASE HookCALLEXStart
    BY <2>7, <2>10, RunningIsNoPrompt DEF HookCALLEXStart
  <2>11. CASE EbcLLCALLEX
    BY <2>11, RunningIsNoPrompt DEF EbcLLCALLEX
  <2>12. CASE HookRETStart
    BY <2>7, <2>12, RunningIsNoPrompt DEF HookRETStart
  <2>13. CASE ExecuteRET
    BY <2>13, RunningIsNoPrompt DEF ExecuteRET
  <2>14. CASE HookJMPStart
    BY <2>14, RunningIsNoPrompt DEF HookJMPStart
  <2>15. CASE ExecuteJMP
    BY <2>15, RunningIsNoPrompt DEF ExecuteJMP
  <2>16. CASE HookExecuteEnd
    BY <2>16, RunningIsNoPrompt DEF HookExecuteEnd
  <2>17. CASE CheckStack
    BY <2>17, RunningIsNoPrompt DEF CheckStack
  <2> HIDE DEF Keeps
  <2>. QED
    BY <2>1, <2>2, <2>3, <2>4, <2>5, <2>6, <2>8, <2>9, <2>10, <2>11,
       <2>12, <2>13, <2>14, <2>15, <2>16, <2>17
    DEF VmStep
<1>. QED
  BY <1>1 DEF KeyBreaksWhileOn

\* A command that stays at the prompt leaves it a prompt, and one that goes
\* on clears the status.
LEMMA CommandKeeps ==
  ASSUME KeyBreaksWhileOn, Command
  PROVE  KeyBreaksWhileOn'
<1>1. CASE \/ DebuggerGo
           \/ \E a \in GoTils : DebuggerGoTil(a)
           \/ DebuggerStepInto
           \/ DebuggerStepOver
           \/ DebuggerStepOut
           \/ DebuggerQuit
  <2>1. StatusFlags' = "none"
    BY <1>1 DEF DebuggerGo, DebuggerGoTil, DebuggerStepInto,
                DebuggerStepOver, DebuggerStepOut, DebuggerQuit, Leave
  <2>. QED
    BY <2>1 DEF KeyBreaksWhileOn
<1>2. CASE \/ \E flag \in Breaks : DebuggerBreakOn(flag)
           \/ DebuggerCallStackClear
           \/ DebuggerTraceClear
  <2>1. AtPrompt /\ UNCHANGED vms
    BY <1>2 DEF DebuggerBreakOn, DebuggerCallStackClear, DebuggerTraceClear
  <2>2. AtPrompt'
    BY <2>1 DEF AtPrompt, Top
  <2>. QED
    BY <2>2 DEF KeyBreaksWhileOn
<1>. QED
  BY <1>1, <1>2 DEF Command

\* A key the timer has seen stops the program only while breaking on keys is
\* on: the timer records it only then, and no session ends with it recorded.
THEOREM KeyBreaks == Spec => []KeyBreaksWhileOn
<1>1. Init => KeyBreaksWhileOn
  BY DEF Init, KeyBreaksWhileOn
<1>2. ASSUME KeyBreaksWhileOn, [Next]_vars
      PROVE  KeyBreaksWhileOn'
  <2>1. CASE VmStep
    BY <1>2, <2>1, VmStepKeeps
  <2>2. CASE BreakEventFunc
    BY <1>2, <2>2 DEF BreakEventFunc, KeyBreaksWhileOn
  <2>3. CASE Command
    BY <1>2, <2>3, CommandKeeps
  <2>4. CASE UNCHANGED vars
    BY <1>2, <2>4 DEF vars, KeyBreaksWhileOn, AtPrompt, Top
  <2>. QED
    BY <1>2, <2>1, <2>2, <2>3, <2>4 DEF Next
<1>. QED
  BY <1>1, <1>2, PTL DEF Spec

-----------------------------------------------------------------------------
(* Types.  They are inductive with what the code relies on without a check: *)
(* a context has a frame until its last RET, which stops it, and all but its *)
(* first frame return to an instruction.                                    *)

GoodContext ==
  {v \in VmContext :
     /\ v.Frames # <<>> \/ (v.Stop /\ v.At \in {"end", "stack", "done"})
     /\ \A n \in 2..Len(v.Frames) : v.Frames[n].Source \in Addr}
ContextsOK == vms \in Seq(GoodContext) /\ Len(vms) <= MaxVm
CallsOK == CallStackEntryCount \in 0..CallStackMax
TraceRecord == [Source : Addr \cup {0}, Dest : Addr \cup {0}, Type : Branches]
TraceOK == /\ TraceEntry \in [0..TraceMax -> TraceRecord]
           /\ TraceEntryCount \in 0..TraceMax
FlagsOK ==
  /\ FeatureFlags \subseteq {"BOC", "BOCX", "BOR", "BOE", "BOT", "BOK",
                             "STEPOVER", "STEPOUT"}
  /\ StatusFlags \in {"none", "BOC", "BOCX", "BOR", "BOE", "BOT", "BOK",
                      "STEPOVER", "STEPOUT", "GT"}
HookType == ContextsOK /\ CallsOK /\ TraceOK /\ FlagsOK

LEMMA ProgramType ==
  /\ Addr \subseteq Nat \ {0}
  /\ \A a \in Addr : /\ Following(a) \in Addr
                     /\ Program[a].Target \in Addr
                     /\ Program[a].Op \in Branches \cup {"OTHER"}
<1>. DEFINE Instruction == [Op : Branches \cup {"OTHER"}, Target : Addr]
<1>1. Program \in Seq(Instruction)
  BY ProgramAssumption
<1>. HIDE DEF Instruction
<1>2. Addr \subseteq Nat \ {0} /\ \A a \in Addr : Program[a] \in Instruction
  BY <1>1 DEF Addr
<1>. QED
  BY <1>2 DEF Following, Instruction

\* The context that runs.
LEMMA TopGood ==
  ASSUME ContextsOK, vms # <<>>
  PROVE  /\ Top \in GoodContext /\ Top \in VmContext
         /\ Len(vms) \in Nat \ {0}
         /\ Top.Ip \in Addr /\ Top.Frames \in Seq(Frame)
         /\ Top.At \notin {"end", "stack", "done"} =>
              Len(Top.Frames) \in Nat \ {0} /\ Top.Frames # <<>>
         /\ \A n \in 2..Len(Top.Frames) : Top.Frames[n].Source \in Addr
<1>1. Top \in GoodContext /\ Len(vms) \in Nat \ {0}
  BY DEF ContextsOK, Top
<1>. QED
  BY <1>1 DEF GoodContext, VmContext

\* The frames after a call.
LEMMA CallFrames ==
  ASSUME ContextsOK, vms # <<>>, Top.At \notin {"end", "stack", "done"},
         NEW dest \in Addr,
         NEW frames, frames = Append(Top.Frames, [Source |-> Top.Ip, Dest |-> dest])
  PROVE  /\ frames \in Seq(Frame) \ {<<>>}
         /\ Len(frames) = Len(Top.Frames) + 1
         /\ frames[Len(frames)].Source = Top.Ip
         /\ \A n \in 1..Len(Top.Frames) : frames[n] = Top.Frames[n]
         /\ \A n \in 2..Len(frames) : frames[n].Source \in Addr
<1>. DEFINE f == [Source |-> Top.Ip, Dest |-> dest]
<1>1. f \in Frame /\ f.Source = Top.Ip /\ Top.Ip \in Addr /\ Top.Frames \in Seq(Frame)
  BY TopGood DEF Frame
<1>. HIDE DEF f
<1>2. /\ frames \in Seq(Frame) \ {<<>>} /\ Len(frames) = Len(Top.Frames) + 1
      /\ frames[Len(frames)] = f /\ Len(Top.Frames) \in Nat
      /\ \A n \in 1..Len(Top.Frames) : frames[n] = Top.Frames[n]
  BY <1>1 DEF f
<1>3. ASSUME NEW n \in 2..Len(frames) PROVE frames[n].Source \in Addr
  <2>1. n \in 2..Len(Top.Frames) \/ n = Len(frames)
    BY <1>2
  <2>2. CASE n \in 2..Len(Top.Frames)
    <3>1. frames[n] = Top.Frames[n]
      BY <1>2, <2>2
    <3>. QED
      BY <2>2, <3>1, TopGood
  <2>. QED
    BY <1>1, <1>2, <2>1, <2>2
<1>. QED
  BY <1>1, <1>2, <1>3

\* And after a return.
LEMMA ReturnFrames ==
  ASSUME ContextsOK, vms # <<>>, Top.At \notin {"end", "stack", "done"},
         NEW frames, frames = SubSeq(Top.Frames, 1, Len(Top.Frames) - 1)
  PROVE  /\ frames \in Seq(Frame) /\ Len(frames) = Len(Top.Frames) - 1
         /\ \A n \in 1..Len(frames) : frames[n] = Top.Frames[n]
         /\ Len(Top.Frames) # 1 => /\ frames # <<>>
                                   /\ Top.Frames[Len(Top.Frames)].Source \in Addr
         /\ \A n \in 2..Len(frames) : frames[n].Source \in Addr
<1>1. Len(Top.Frames) \in Nat \ {0} /\ Top.Frames \in Seq(Frame)
  BY TopGood
<1>2. /\ frames \in Seq(Frame) /\ Len(frames) = Len(Top.Frames) - 1
      /\ \A n \in 1..Len(frames) : frames[n] = Top.Frames[n]
  BY <1>1
<1>3. ASSUME Len(Top.Frames) # 1
      PROVE  frames # <<>> /\ Top.Frames[Len(Top.Frames)].Source \in Addr
  <2>. DEFINE depth == Len(Top.Frames)
  <2>1. depth \in Nat \ {0} /\ depth # 1 /\ Len(frames) = depth - 1
    BY <1>1, <1>2, <1>3
  <2>. HIDE DEF depth
  <2>2. Len(frames) # 0 /\ depth \in 2..depth
    BY <2>1
  <2>3. frames # <<>> /\ Len(Top.Frames) \in 2..Len(Top.Frames)
    BY <2>2 DEF depth
  <2>. QED
    BY <2>3, TopGood
<1>4. ASSUME NEW n \in 2..Len(frames) PROVE frames[n].Source \in Addr
  <2>1. n \in 2..Len(Top.Frames) /\ frames[n] = Top.Frames[n]
    BY <1>1, <1>2
  <2>. QED
    BY <2>1, TopGood
<1>. QED
  BY <1>2, <1>3, <1>4

LEMMA SetTopGood ==
  ASSUME ContextsOK, vms # <<>>, NEW v \in GoodContext, SetTop(v)
  PROVE  ContextsOK' /\ Len(vms') = Len(vms) /\ vms' # <<>> /\ Top' = v
BY DEF ContextsOK, SetTop, Top

LEMMA SignalGood ==
  ASSUME ContextsOK, vms # <<>>, NEW v \in GoodContext, NEW fatal \in BOOLEAN,
         SignalException(v, fatal)
  PROVE  /\ ContextsOK' /\ Len(vms') = Len(vms) /\ vms' # <<>>
         /\ Top' = [v EXCEPT !.Prompt = TRUE, !.Step = FALSE,
                             !.Stop = v.Stop \/ fatal]
<1>. DEFINE w == [v EXCEPT !.Prompt = TRUE, !.Step = FALSE,
                           !.Stop = v.Stop \/ fatal]
<1>1. w \in GoodContext
  BY DEF GoodContext, VmContext
<1>2. SetTop(w)
  BY DEF SignalException
<1>. HIDE DEF w
<1>3. ContextsOK' /\ Len(vms') = Len(vms) /\ vms' # <<>> /\ Top' = w
  BY <1>1, <1>2, SetTopGood
<1>. QED
  BY <1>3 DEF w

\* The two arrays.
LEMMA PushTraceSource ==
  ASSUME TraceOK, NEW source \in Addr, NEW type \in Branches,
         PushTraceSourceEntry(source, type)
  PROVE  /\ TraceOK' /\ UNCHANGED TraceEntryCount
         /\ \A i \in 0..TraceMax : i # TraceEntryCount => TraceEntry'[i] = TraceEntry[i]
         /\ TraceEntry'[TraceEntryCount].Source = source
         /\ TraceEntry'[TraceEntryCount].Type = type
BY BoundAssumption DEF TraceOK, TraceRecord, PushTraceSourceEntry

LEMMA PushTraceDest ==
  ASSUME TraceOK, NEW dest \in Addr, PushTraceDestEntry(dest)
  PROVE  TraceOK'
BY BoundAssumption DEF TraceOK, TraceRecord, PushTraceDestEntry, Completed, Increased

LEMMA PushCall ==
  ASSUME CallsOK, NEW source, NEW dest,
         \/ PushCallstackSource(source)
         \/ PushCallstackDest(dest)
         \/ PushCallstack(source, dest)
         \/ PopCallstack
  PROVE  CallsOK'
BY BoundAssumption DEF CallsOK, PushCallstackSource, PushCallstackDest,
   PushCallstack, PopCallstack, Increased, callstack

LEMMA HookTypeInit == Init => HookType
<1>. SUFFICES ASSUME Init PROVE HookType
  OBVIOUS
<1>1. TraceOK
  BY BoundAssumption DEF Init, TraceOK, TraceRecord, NoTrace, Branches
<1>2. ContextsOK /\ CallsOK /\ FlagsOK
  BY BoundAssumption DEF Init, ContextsOK, CallsOK, FlagsOK
<1>. QED
  BY <1>1, <1>2 DEF HookType

\* What is the same for both ways to enter a context.
LEMMA StartVmType ==
  ASSUME HookType, NEW entry \in Entries,
         ExecuteEbcImageEntryPoint(entry) \/ EbcInterpret(entry)
  PROVE  HookType'
<1>1. PICK flag \in {"BOE", "BOT"}, source \in {Image, Thunk} :
        StartVm(entry, source, flag)
  BY DEF ExecuteEbcImageEntryPoint, EbcInterpret
<1>. DEFINE v == [Ip |-> entry, Frames |-> <<[Source |-> source, Dest |-> entry]>>,
                  Step |-> FALSE, At |-> "start",
                  Prompt |-> flag \in FeatureFlags, Stop |-> FALSE]
<1>2. v \in GoodContext
  <2>1. entry \in Addr /\ source \in {Image, Thunk}
    BY ProgramAssumption
  <2>2. <<[Source |-> source, Dest |-> entry]>> \in Seq(Frame) \ {<<>>}
    BY <2>1 DEF Frame
  <2>. QED
    BY <2>1, <2>2 DEF GoodContext, VmContext, Place
<1>3. vms' = Append(vms, v) /\ Len(vms) < MaxVm
  BY <1>1 DEF StartVm
<1>. HIDE DEF v
<1>4. ContextsOK'
  BY <1>2, <1>3, BoundAssumption DEF HookType, ContextsOK
<1>5. CallsOK' /\ TraceOK'
  BY <1>1, PushCall DEF StartVm, HookType, TraceOK, trace
<1>6. FlagsOK'
  BY <1>1 DEF StartVm, HookType, FlagsOK
<1>. QED
  BY <1>4, <1>5, <1>6 DEF HookType

LEMMA HookCheckType ==
  ASSUME HookType, NEW op, NEW flag \in {"BOC", "BOCX", "BOR"}, HookCheck(op, flag)
  PROVE  HookType'
<1>. DEFINE v == [Top EXCEPT !.At = "hooked"]
<1>1. vms # <<>> /\ CheckHookFlag(flag, v) /\ Top.At = "fetch"
  BY DEF HookCheck, At
<1>2. v \in GoodContext
  BY <1>1, TopGood DEF HookType, GoodContext, VmContext, Place
<1>. HIDE DEF v
<1>3. ContextsOK' /\ FlagsOK'
  BY <1>1, <1>2, SetTopGood, SignalGood DEF CheckHookFlag, HookType, FlagsOK, HookCheck
<1>4. CallsOK' /\ TraceOK'
  BY DEF HookCheck, HookType, CallsOK, TraceOK, callstack, trace
<1>. QED
  BY <1>3, <1>4 DEF HookType

LEMMA VmStepType ==
  ASSUME HookType, VmStep
  PROVE  HookType'
<1>. USE DEF HookType
<1>1. ASSUME UNCHANGED callstack PROVE CallsOK'
  BY <1>1 DEF CallsOK, callstack
<1>2. ASSUME UNCHANGED trace PROVE TraceOK'
  BY <1>2 DEF TraceOK, trace
<1>3. ASSUME UNCHANGED <<FeatureFlags, StatusFlags>> PROVE FlagsOK'
  BY <1>3 DEF FlagsOK
\* The contexts, one action after the other.
<1>4. ASSUME vms # <<>>, Top.At \notin {"end", "stack", "done"},
             NEW place \in Place, NEW ip \in Addr
      PROVE  /\ [Top EXCEPT !.At = place] \in GoodContext
             /\ [Top EXCEPT !.Ip = ip, !.At = place] \in GoodContext
  BY <1>4, TopGood DEF GoodContext, VmContext
<1>5. CASE ReturnFromVm
  <2>1. vms # <<>> /\ vms' = SubSeq(vms, 1, Len(vms) - 1)
    BY <1>5 DEF ReturnFromVm, At
  <2>2. ContextsOK'
    BY <2>1, BoundAssumption DEF ContextsOK
  <2>. QED
    BY <1>1, <1>2, <1>3, <1>5, <2>2 DEF ReturnFromVm
<1>6. CASE HookExecuteStart
  <2>1. vms # <<>> /\ Top.At = "start"
    BY <1>6 DEF HookExecuteStart, At
  <2>2. ContextsOK'
    <3>1. /\ [Top EXCEPT !.At = "fetch"] \in GoodContext
          /\ [Top EXCEPT !.At = "key"] \in GoodContext
      BY <1>4, <2>1, TopGood DEF Place
    <3>. QED
      BY <1>6, <2>1, <3>1, SetTopGood, SignalGood DEF HookExecuteStart
  <2>3. FlagsOK'
    BY <1>6 DEF HookExecuteStart, FlagsOK
  <2>. QED
    BY <1>1, <1>2, <1>6, <2>2, <2>3 DEF HookExecuteStart
<1>7. CASE HookExecuteStartKey
  <2>1. vms # <<>> /\ Top.At = "key"
    BY <1>7 DEF HookExecuteStartKey, At
  <2>2. [Top EXCEPT !.At = "fetch"] \in GoodContext
    BY <1>4, <2>1, TopGood DEF Place
  <2>3. ContextsOK'
    BY <1>7, <2>1, <2>2, SetTopGood, SignalGood DEF HookExecuteStartKey
  <2>. QED
    BY <1>1, <1>2, <1>3, <1>7, <2>3 DEF HookExecuteStartKey
<1>8. CASE ExecuteOther
  <2>1. vms # <<>> /\ Top.At = "fetch" /\ Following(Top.Ip) \in Addr
    BY <1>8, TopGood, ProgramType DEF ExecuteOther, At
  <2>2. [Top EXCEPT !.Ip = Following(Top.Ip), !.At = "end"] \in GoodContext
    BY <1>4, <2>1, TopGood DEF Place
  <2>3. ContextsOK'
    BY <1>8, <2>1, <2>2, SetTopGood DEF ExecuteOther
  <2>. QED
    BY <1>1, <1>2, <1>3, <1>8, <2>3 DEF ExecuteOther
<1>9. CASE SignalFault
  <2>1. vms # <<>> /\ Top.At \in {"start", "fetch", "mid"}
    BY <1>9 DEF SignalFault, InvalidOpcode, At
  <2>2. /\ [Top EXCEPT !.At = "done"] \in GoodContext
        /\ [Top EXCEPT !.At = "end"] \in GoodContext /\ Top \in GoodContext
    BY <1>4, <2>1, TopGood DEF Place
  <2>3. ContextsOK'
    BY <1>9, <2>1, <2>2, SignalGood DEF SignalFault, InvalidOpcode
  <2>. QED
    BY <1>1, <1>2, <1>3, <1>9, <2>3 DEF SignalFault, InvalidOpcode
<1>10. CASE HookCALLStart
  <2>1. CASE HookCheck("CALL", "BOC")
    BY <2>1, HookCheckType
  <2>2. CASE ~HookCheck("CALL", "BOC")
    <3>1. /\ vms # <<>> /\ Top.At = "hooked"
          /\ PushCallstackSource(Top.Ip) /\ PushTraceSourceEntry(Top.Ip, "CALL")
          /\ SetTop([Top EXCEPT !.At = "mid"])
          /\ UNCHANGED <<FeatureFlags, StatusFlags>>
      BY <1>10, <2>2 DEF HookCALLStart, At
    <3>2. [Top EXCEPT !.At = "mid"] \in GoodContext /\ Top.Ip \in Addr
      BY <1>4, <3>1, TopGood DEF Place
    <3>3. ContextsOK' /\ CallsOK' /\ TraceOK'
      BY <3>1, <3>2, SetTopGood, PushCall, PushTraceSource DEF Branches
    <3>. QED
      BY <1>3, <3>1, <3>3
  <2>. QED
    BY <2>1, <2>2
<1>11. CASE ExecuteCALL
  <2>. DEFINE dest == Program[Top.Ip].Target
              v == [Top EXCEPT !.Ip = dest, !.At = "end",
                     !.Frames = Append(@, [Source |-> Top.Ip, Dest |-> dest])]
  <2>1. /\ vms # <<>> /\ Top.At = "mid" /\ SetTop(v)
        /\ PushCallstackDest(dest) /\ PushTraceDestEntry(dest)
    BY <1>11 DEF ExecuteCALL, HookCALLEnd, At
  <2>2. dest \in Addr /\ Top \in VmContext /\ Top.Ip \in Addr
    BY <2>1, TopGood, ProgramType
  <2>. DEFINE frames == Append(Top.Frames, [Source |-> Top.Ip, Dest |-> dest])
  <2>3. /\ frames \in Seq(Frame) \ {<<>>}
        /\ \A n \in 2..Len(frames) : frames[n].Source \in Addr
    BY <2>1, <2>2, CallFrames
  <2>4. v \in GoodContext
    <3>. HIDE DEF dest, frames
    <3>1. v = [Top EXCEPT !.Ip = dest, !.At = "end", !.Frames = frames]
      BY DEF frames
    <3>. QED
      BY <2>2, <2>3, <3>1 DEF GoodContext, VmContext, Place
  <2>. HIDE DEF v, dest
  <2>5. ContextsOK' /\ CallsOK' /\ TraceOK'
    BY <2>1, <2>2, <2>4, SetTopGood, PushCall, PushTraceDest
  <2>6. FlagsOK'
    BY <1>11 DEF ExecuteCALL, HookCALLEnd, PushStepEntry, FlagsOK
  <2>. QED
    BY <2>5, <2>6
<1>12. CASE HookCALLEXStart
  <2>1. CASE HookCheck("CALLEX", "BOCX")
    BY <2>1, HookCheckType
  <2>2. CASE ~HookCheck("CALLEX", "BOCX")
    <3>1. /\ vms # <<>> /\ Top.At = "hooked"
          /\ PushTraceSourceEntry(Top.Ip, "CALLEX")
          /\ SetTop([Top EXCEPT !.At = "native"])
          /\ UNCHANGED <<callstack, FeatureFlags, StatusFlags>>
      BY <1>12, <2>2 DEF HookCALLEXStart, At
    <3>2. [Top EXCEPT !.At = "native"] \in GoodContext /\ Top.Ip \in Addr
      BY <1>4, <3>1, TopGood DEF Place
    <3>3. ContextsOK' /\ TraceOK'
      BY <3>1, <3>2, SetTopGood, PushTraceSource DEF Branches
    <3>. QED
      BY <1>1, <1>3, <3>1, <3>3
  <2>. QED
    BY <2>1, <2>2
<1>13. CASE EbcLLCALLEX
  <2>1. /\ vms # <<>> /\ Top.At = "native"
        /\ UNCHANGED <<callstack, FeatureFlags, StatusFlags>>
    BY <1>13 DEF EbcLLCALLEX, At
  <2>2. Following(Top.Ip) \in Addr /\ Top \in VmContext /\ Top.Ip \in Addr
    BY <2>1, TopGood, ProgramType
  <2>3. CASE /\ SetTop([Top EXCEPT !.Ip = Following(Top.Ip), !.At = "end"])
             /\ PushTraceDestEntry(Following(Top.Ip))
    <3>1. [Top EXCEPT !.Ip = Following(Top.Ip), !.At = "end"] \in GoodContext
      BY <1>4, <2>1, <2>2, TopGood DEF Place
    <3>2. ContextsOK' /\ TraceOK'
      BY <2>1, <2>2, <2>3, <3>1, SetTopGood, PushTraceDest
    <3>. QED
      BY <1>1, <1>3, <2>1, <3>2
  <2>4. ASSUME NEW entry \in Entries,
               SetTop([Top EXCEPT !.Ip = entry, !.At = "end",
                        !.Frames = Append(@, [Source |-> Top.Ip, Dest |-> entry])]),
               PushTraceDestEntry(entry)
        PROVE  HookType'
    <3>. DEFINE v == [Top EXCEPT !.Ip = entry, !.At = "end",
                       !.Frames = Append(@, [Source |-> Top.Ip, Dest |-> entry])]
    <3>1. entry \in Addr
      BY ProgramAssumption
    <3>. DEFINE frames == Append(Top.Frames, [Source |-> Top.Ip, Dest |-> entry])
    <3>2. /\ frames \in Seq(Frame) \ {<<>>}
          /\ \A n \in 2..Len(frames) : frames[n].Source \in Addr
      BY <2>1, <3>1, CallFrames
    <3>3. v \in GoodContext /\ SetTop(v)
      <4>1. v = [Top EXCEPT !.Ip = entry, !.At = "end", !.Frames = frames]
        OBVIOUS
      <4>2. SetTop(v)
        BY <2>4
      <4>. HIDE DEF frames, v
      <4>. QED
        BY <2>2, <3>1, <3>2, <4>1, <4>2 DEF GoodContext, VmContext, Place
    <3>. HIDE DEF v
    <3>4. ContextsOK' /\ TraceOK'
      BY <2>1, <2>4, <3>1, <3>3, SetTopGood, PushTraceDest
    <3>. QED
      BY <1>1, <1>3, <2>1, <3>4
  <2>. QED
    BY <1>13, <2>3, <2>4 DEF EbcLLCALLEX
<1>14. CASE HookRETStart
  <2>1. CASE HookCheck("RET", "BOR")
    BY <2>1, HookCheckType
  <2>2. CASE ~HookCheck("RET", "BOR")
    <3>1. /\ vms # <<>> /\ Top.At = "hooked"
          /\ PopCallstack /\ PushTraceSourceEntry(Top.Ip, "RET")
          /\ SetTop([Top EXCEPT !.At = "mid"])
          /\ UNCHANGED <<FeatureFlags, StatusFlags>>
      BY <1>14, <2>2 DEF HookRETStart, At
    <3>2. [Top EXCEPT !.At = "mid"] \in GoodContext /\ Top.Ip \in Addr
      BY <1>4, <3>1, TopGood DEF Place
    <3>3. ContextsOK' /\ CallsOK' /\ TraceOK'
      BY <3>1, <3>2, SetTopGood, PushCall, PushTraceSource DEF Branches
    <3>. QED
      BY <1>3, <3>1, <3>3
  <2>. QED
    BY <2>1, <2>2
<1>15. CASE ExecuteRET
  <2>. DEFINE depth == Len(Top.Frames)
              last == depth = 1
              ip == IF last THEN Top.Ip ELSE Following(Top.Frames[depth].Source)
              v == [Top EXCEPT !.Ip = ip, !.At = "end", !.Stop = @ \/ last,
                               !.Frames = SubSeq(@, 1, depth - 1)]
  <2>1. /\ vms # <<>> /\ Top.At = "mid" /\ SetTop(v) /\ PushTraceDestEntry(ip)
        /\ UNCHANGED <<callstack, FeatureFlags, StatusFlags>>
    BY <1>15 DEF ExecuteRET, At
  <2>2. Top \in VmContext /\ depth \in Nat \ {0} /\ Top.Frames \in Seq(Frame)
    BY <2>1, TopGood
  <2>3. ip \in Addr
    <3>1. CASE last
      BY <2>1, <3>1, TopGood
    <3>2. CASE ~last
      <4>1. Top.Frames[depth].Source \in Addr
        BY <2>1, <3>2, ReturnFrames
      <4>. QED
        BY <3>2, <4>1, ProgramType
    <3>. QED
      BY <3>1, <3>2
  <2>4. v \in GoodContext
    <3>. DEFINE frames == SubSeq(Top.Frames, 1, depth - 1)
    <3>1. /\ frames \in Seq(Frame)
          /\ last \/ frames # <<>>
          /\ \A n \in 2..Len(frames) : frames[n].Source \in Addr
      BY <2>1, ReturnFrames
    <3>. DEFINE stop == Top.Stop \/ last
    <3>2. v = [Top EXCEPT !.Ip = ip, !.At = "end", !.Stop = stop,
                          !.Frames = frames]
      OBVIOUS
    <3>3. stop \in BOOLEAN
      OBVIOUS
    <3>4. frames # <<>> \/ stop = TRUE
      <4>1. CASE last
        BY <4>1, Zenon
      <4>. QED
        BY <3>1, <4>1
    <3>. HIDE DEF frames, ip, stop, v
    <3>. QED
      BY <2>2, <2>3, <3>1, <3>2, <3>3, <3>4 DEF GoodContext, VmContext, Place
  <2>. HIDE DEF v, ip
  <2>5. ContextsOK' /\ TraceOK'
    BY <2>1, <2>3, <2>4, SetTopGood, PushTraceDest
  <2>. QED
    BY <1>1, <1>3, <2>1, <2>5
<1>16. CASE HookJMPStart
  <2>1. vms # <<>> /\ Top.At = "fetch"
    BY <1>16 DEF HookJMPStart, At
  <2>2. [Top EXCEPT !.At = "mid"] \in GoodContext /\ Top.Ip \in Addr
    BY <1>4, <2>1, TopGood DEF Place
  <2>3. ContextsOK' /\ TraceOK'
    BY <1>16, <2>1, <2>2, SetTopGood, PushTraceSource DEF HookJMPStart, Branches
  <2>. QED
    BY <1>1, <1>3, <1>16, <2>3 DEF HookJMPStart
<1>17. CASE ExecuteJMP
  <2>1. vms # <<>> /\ Top.At = "mid"
    BY <1>17 DEF ExecuteJMP, At
  <2>2. PICK ip \in {Program[Top.Ip].Target, Following(Top.Ip)} :
          SetTop([Top EXCEPT !.Ip = ip, !.At = "end"]) /\ PushTraceDestEntry(ip)
    BY <1>17 DEF ExecuteJMP
  <2>3. ip \in Addr
    BY <2>1, TopGood, ProgramType
  <2>4. [Top EXCEPT !.Ip = ip, !.At = "end"] \in GoodContext
    BY <1>4, <2>1, <2>3, TopGood DEF Place
  <2>5. ContextsOK' /\ TraceOK'
    BY <2>1, <2>2, <2>3, <2>4, SetTopGood, PushTraceDest
  <2>. QED
    BY <1>1, <1>3, <1>17, <2>5 DEF ExecuteJMP
<1>18. CASE HookExecuteEnd
  <2>1. vms # <<>> /\ Top.At = "end"
    BY <1>18 DEF HookExecuteEnd, At
  <2>2. [Top EXCEPT !.At = "stack"] \in GoodContext
    BY <2>1, TopGood DEF GoodContext, VmContext, Place
  <2>3. ContextsOK'
    BY <1>18, <2>1, <2>2, SetTopGood, SignalGood DEF HookExecuteEnd
  <2>4. FlagsOK'
    BY <1>18 DEF HookExecuteEnd, FlagsOK
  <2>. QED
    BY <1>1, <1>2, <1>18, <2>3, <2>4 DEF HookExecuteEnd
<1>19. CASE CheckStack
  <2>1. vms # <<>> /\ Top.At = "stack"
    BY <1>19 DEF CheckStack, At
  <2>2. Len(Top.Frames) \in Nat
    BY <2>1, TopGood
  <2>3. CASE Len(Top.Frames) > MaxDepth
    <3>1. Top.Frames # <<>>
      BY <2>2, <2>3, BoundAssumption
    <3>2. [Top EXCEPT !.At = "done"] \in GoodContext
      BY <2>1, <3>1, TopGood DEF GoodContext, VmContext, Place
    <3>3. ContextsOK'
      BY <1>19, <2>1, <2>3, <3>2, SignalGood DEF CheckStack
    <3>. QED
      BY <1>1, <1>2, <1>3, <1>19, <3>3 DEF CheckStack
  <2>4. CASE ~(Len(Top.Frames) > MaxDepth)
    <3>1. [Top EXCEPT !.At = IF Top.Stop THEN "done" ELSE "start"] \in GoodContext
      BY <2>1, TopGood DEF GoodContext, VmContext, Place
    <3>2. ContextsOK'
      BY <1>19, <2>1, <2>4, <3>1, SetTopGood DEF CheckStack
    <3>. QED
      BY <1>1, <1>2, <1>3, <1>19, <3>2 DEF CheckStack
  <2>. QED
    BY <2>3, <2>4
<1>. QED
  BY <1>5, <1>6, <1>7, <1>8, <1>9, <1>10, <1>11, <1>12, <1>13, <1>14, <1>15,
     <1>16, <1>17, <1>18, <1>19, StartVmType DEF VmStep

LEMMA CommandType ==
  ASSUME HookType, Command
  PROVE  HookType'
<1>. USE DEF HookType
<1>1. ASSUME UNCHANGED callstack PROVE CallsOK'
  BY <1>1 DEF CallsOK, callstack
<1>2. ASSUME UNCHANGED trace PROVE TraceOK'
  BY <1>2 DEF TraceOK, trace
<1>3. vms # <<>>
  BY DEF Command, DebuggerGo, DebuggerGoTil, DebuggerStepInto, DebuggerStepOver,
     DebuggerStepOut, DebuggerQuit, DebuggerBreakOn, DebuggerCallStackClear,
     DebuggerTraceClear, Leave, AtPrompt
<1>4. ASSUME NEW step \in BOOLEAN
      PROVE  /\ [Top EXCEPT !.Prompt = FALSE, !.Step = step] \in GoodContext
             /\ [Top EXCEPT !.Prompt = FALSE] \in GoodContext
  BY <1>3, TopGood DEF GoodContext, VmContext
<1>5. ASSUME NEW step \in BOOLEAN, Leave(step)
      PROVE  ContextsOK' /\ CallsOK' /\ TraceOK' /\ StatusFlags' = "none"
  BY <1>1, <1>2, <1>3, <1>4, <1>5, SetTopGood DEF Leave
<1>6. ASSUME UNCHANGED vms PROVE ContextsOK'
  BY <1>6 DEF ContextsOK
<1>7. CASE DebuggerGo \/ (\E a \in GoTils : DebuggerGoTil(a)) \/ DebuggerStepInto
  BY <1>5, <1>7 DEF DebuggerGo, DebuggerGoTil, DebuggerStepInto, FlagsOK
<1>8. CASE DebuggerStepOver
  BY <1>5, <1>8 DEF DebuggerStepOver, FlagsOK, Executing
<1>9. CASE DebuggerStepOut
  BY <1>5, <1>9 DEF DebuggerStepOut, FlagsOK, Executing
<1>10. ASSUME Emptied PROVE CallsOK' /\ TraceOK'
  BY <1>10, BoundAssumption DEF Emptied, CallsOK, TraceOK, TraceRecord, NoTrace, Branches
<1>11. CASE DebuggerQuit
  BY <1>3, <1>4, <1>10, <1>11, SetTopGood DEF DebuggerQuit, FlagsOK
<1>12. ASSUME NEW flag \in Breaks, DebuggerBreakOn(flag)
       PROVE  HookType'
  <2>1. FeatureFlags' \subseteq FeatureFlags \cup Breaks
    BY <1>12 DEF DebuggerBreakOn
  <2>. QED
    BY <1>1, <1>2, <1>6, <1>12, <2>1, UsesAssumption DEF DebuggerBreakOn, FlagsOK
<1>13. CASE DebuggerCallStackClear
  BY <1>2, <1>6, <1>13, BoundAssumption DEF DebuggerCallStackClear, CallsOK, FlagsOK
<1>14. CASE DebuggerTraceClear
  BY <1>1, <1>6, <1>14, BoundAssumption
  DEF DebuggerTraceClear, TraceOK, TraceRecord, NoTrace, Branches, FlagsOK
<1>. QED
  BY <1>7, <1>8, <1>9, <1>11, <1>12, <1>13, <1>14 DEF Command

\* Every step keeps the types, and what a context needs to go on.
LEMMA HookTypeKept ==
  ASSUME HookType, [Next]_vars
  PROVE  HookType'
<1>1. CASE BreakEventFunc
  BY <1>1 DEF BreakEventFunc, HookType, ContextsOK, CallsOK, TraceOK, FlagsOK,
     callstack, trace
<1>2. CASE UNCHANGED vars
  BY <1>2 DEF vars, HookType, ContextsOK, CallsOK, TraceOK, FlagsOK, callstack, trace
<1>. QED
  BY <1>1, <1>2, VmStepType, CommandType DEF Next

LEMMA HookTypeInvariant == Spec => []HookType
<1>1. HookType /\ [Next]_vars => HookType'
  BY HookTypeKept
<1>. QED
  BY <1>1, HookTypeInit, PTL DEF Spec

\* The contexts, the counts of both arrays, the branches of the trace and the
\* flags have their types: no hook, and no command, writes beyond an array.
THEOREM TypeCorrect == Spec => []TypeOK
<1>1. HookType => TypeOK
  <2>. SUFFICES ASSUME HookType PROVE TypeOK
    OBVIOUS
  <2>1. vms \in Seq(VmContext)
    BY DEF HookType, ContextsOK, GoodContext
  <2>2. \A i \in 0..TraceMax : TraceEntry[i].Type \in Branches
    BY DEF HookType, TraceOK, TraceRecord
  <2>. QED
    BY <2>1, <2>2 DEF HookType, ContextsOK, CallsOK, TraceOK, FlagsOK, TypeOK
<1>. QED
  BY <1>1, HookTypeInvariant, PTL

-----------------------------------------------------------------------------
(***************************************************************************)
(* The trace and the step commands of the debugger, for every program of   *)
(* one context: it calls no native code that calls back, enters no thunk   *)
(* by CALLEX, and raises no fatal exception but that of its stack          *)
(* (Uses = {}).                                                            *)
(***************************************************************************)
Depth == Len(Top.Frames)

\* What is true of a context: one that has stopped has executed its last RET,
\* and sessions begin only at the start of it and between instructions, or
\* before the first hook of one records its source.
Sound(v) ==
  /\ v.Stop => /\ v.Frames = <<>> /\ Program[v.Ip].Op = "RET"
               /\ v.At \in {"end", "stack", "done"}
  /\ v.At = "done" => v.Stop
  /\ v.Prompt => v.At \in {"start", "key", "fetch", "hooked", "stack"}
  /\ v.At = "native" => Program[v.Ip].Op = "CALLEX"
  /\ \A n \in 2..Len(v.Frames) : Program[v.Frames[n].Source].Op = "CALL"

BaseInv ==
  HookType /\ (plain => Len(vms) <= 1 /\ (vms # <<>> => Sound(Top)))

-----------------------------------------------------------------------------
(* What the steps do to the one context, the trace and the requests.        *)

Alive == /\ vms # <<>> /\ Len(vms) = 1 /\ ~Top.Prompt
         /\ vms' # <<>> /\ Len(vms') = 1
Keeps == Top'.Ip = Top.Ip /\ Top'.Frames = Top.Frames /\ Top'.Stop = Top.Stop
Quiet == ~Top'.Prompt /\ UNCHANGED <<asked, StatusFlags>>
Stopped == Top'.Prompt /\ asked' = [asked EXCEPT !.Live = FALSE]

Started ==
  /\ vms = <<>> /\ vms' # <<>> /\ Len(vms') = 1
  /\ Top'.Ip \in Entries /\ Len(Top'.Frames) = 1
  /\ Top'.At = "start" /\ ~Top'.Stop
  /\ UNCHANGED <<trace, StepContext, FeatureFlags>>
  /\ Quiet \/ (Stopped /\ StatusFlags' \in {"BOE", "BOT"})

Left ==
  /\ vms # <<>> /\ Top.At = "done" /\ vms' = <<>>
  /\ UNCHANGED <<trace, StepContext, FeatureFlags, StatusFlags, asked>>

\* The three ways HookExecuteStart goes on.
Hit ==
  /\ Top.At = "start" /\ Top'.At = "key"
  /\ StepOverHit \/ StepOutHit
  /\ Stopped /\ StepContext' = NoStep
  /\ StatusFlags' = IF StepOverHit THEN "STEPOVER" ELSE "STEPOUT"
GotThere ==
  /\ Top.At = "start" /\ Top'.At = "fetch"
  /\ Stopped /\ StatusFlags' = "GT" /\ UNCHANGED StepContext
Unhit ==
  /\ Top.At = "start" /\ Top'.At = "key"
  /\ ~StepOverHit /\ ~StepOutHit /\ Quiet /\ UNCHANGED StepContext

\* Other steps between instructions, and the break check of a hook.
Onward ==
  /\ \/ Top.At = "key" /\ Top'.At = "fetch"
     \/ Top.At = "fetch" /\ Top'.At = "hooked"
     \/ Top.At = "stack" /\ Top'.At = IF Top.Stop THEN "done" ELSE "start"
  /\ \/ Quiet
     \/ /\ Stopped /\ Top.At # "stack"
        /\ UNCHANGED StatusFlags \/ StatusFlags' \in {"BOC", "BOCX", "BOR"}
  /\ UNCHANGED StepContext

Passed == /\ Alive /\ Keeps /\ UNCHANGED <<trace, FeatureFlags>>
          /\ Hit \/ GotThere \/ Unhit \/ Onward

Opened ==
  /\ Alive /\ Keeps /\ Quiet /\ UNCHANGED <<StepContext, FeatureFlags>>
  /\ Top.At \in {"fetch", "hooked"}
  /\ Program[Top.Ip].Op \in Branches
  /\ Top'.At = IF Executing("CALLEX") THEN "native" ELSE "mid"
  /\ PushTraceSourceEntry(Top.Ip, Program[Top.Ip].Op)

Executed == /\ Alive /\ Quiet /\ Top'.At = "end"
            /\ Top.At \in {"fetch", "mid", "native"}

Ran ==
  /\ Executed /\ Top.At = "fetch" /\ Executing("OTHER")
  /\ Top'.Ip = Following(Top.Ip)
  /\ Top'.Frames = Top.Frames /\ Top'.Stop = Top.Stop
  /\ UNCHANGED <<trace, StepContext, FeatureFlags>>

Jumped ==
  /\ Executed /\ Top.At \in {"mid", "native"}
  /\ Executing("JMP") \/ Executing("CALLEX")
  /\ Top'.Ip \in Successors(Top.Ip)
  /\ Top'.Frames = Top.Frames /\ Top'.Stop = Top.Stop
  /\ PushTraceDestEntry(Top'.Ip)
  /\ UNCHANGED <<StepContext, FeatureFlags>>

Called ==
  /\ Executed /\ Top.At = "mid" /\ Executing("CALL")
  /\ Top'.Ip = Program[Top.Ip].Target /\ Top'.Stop = Top.Stop
  /\ Top'.Frames = Append(Top.Frames, [Source |-> Top.Ip, Dest |-> Top'.Ip])
  /\ PushTraceDestEntry(Top'.Ip)
  /\ PushStepEntry(Code(Following(Top.Ip)), FramePtr, FramePtrAt(Depth - 1))

Returned ==
  /\ Executed /\ Top.At = "mid" /\ Executing("RET")
  /\ IF Depth = 1
     THEN Top'.Ip = Top.Ip /\ Top'.Stop
     ELSE /\ Top'.Ip = Following(Top.Frames[Depth].Source)
          /\ Top'.Stop = Top.Stop
  /\ Top'.Frames = SubSeq(Top.Frames, 1, Depth - 1)
  /\ PushTraceDestEntry(Top'.Ip)
  /\ UNCHANGED <<StepContext, FeatureFlags>>

Ended ==
  /\ Alive /\ Keeps /\ UNCHANGED trace
  /\ Top.At = "end" /\ Top'.At = "stack"
  /\ Quiet \/ (Stopped /\ UNCHANGED StatusFlags)
  /\ StepContext' = IF "STEPOUT" \in FeatureFlags
                    THEN [BreakAddress |-> FramePtrAt(Depth - 1),
                          FramePointer |-> FramePtr]
                    ELSE StepContext
  /\ FeatureFlags' = FeatureFlags \ {"STEPOUT"}

LEMMA OneContext ==
  ASSUME HookType, Len(vms) <= 1, vms # <<>>
  PROVE  Len(vms) = 1
<1>. DEFINE n == Len(vms)
<1>1. n \in Nat \ {0} /\ n <= 1
  BY TopGood DEF HookType
<1>. HIDE DEF n
<1>2. n = 1
  BY <1>1
<1>. QED
  BY <1>2 DEF n

LEMMA TopSet ==
  ASSUME ContextsOK, ContextsOK', vms # <<>>, NEW v, SetTop(v)
  PROVE  Len(vms') = Len(vms) /\ vms' # <<>> /\ Top' = v
BY DEF ContextsOK, SetTop, Top

LEMMA TopSignal ==
  ASSUME ContextsOK, ContextsOK', vms # <<>>, NEW v, SignalException(v, FALSE)
  PROVE  /\ Len(vms') = Len(vms) /\ vms' # <<>>
         /\ Top' = [v EXCEPT !.Prompt = TRUE, !.Step = FALSE,
                             !.Stop = v.Stop \/ FALSE]
         /\ asked' = [asked EXCEPT !.Live = FALSE]
BY TopSet DEF SignalException

\* What becomes of the context when only its place changes, with a session
\* or without one.
LEMMA PlaceSet ==
  ASSUME HookType, HookType', vms # <<>>, ~Top.Prompt, Len(vms) = 1,
         NEW place, SetTop([Top EXCEPT !.At = place])
  PROVE  Alive /\ Keeps /\ Top'.At = place /\ ~Top'.Prompt
<1>1. Len(vms') = Len(vms) /\ vms' # <<>> /\ Top' = [Top EXCEPT !.At = place]
  BY TopSet DEF HookType
<1>2. Top \in VmContext
  BY TopGood DEF HookType
<1>. QED
  BY <1>1, <1>2 DEF Alive, Keeps, VmContext

LEMMA PlaceSignal ==
  ASSUME HookType, HookType', vms # <<>>, ~Top.Prompt, Len(vms) = 1,
         NEW place, SignalException([Top EXCEPT !.At = place], FALSE)
  PROVE  Alive /\ Keeps /\ Top'.At = place /\ Stopped
<1>. DEFINE v == [Top EXCEPT !.At = place]
<1>1. Top \in VmContext
  BY TopGood DEF HookType
<1>2. /\ Len(vms') = Len(vms) /\ vms' # <<>>
      /\ Top' = [v EXCEPT !.Prompt = TRUE, !.Step = FALSE, !.Stop = v.Stop \/ FALSE]
      /\ asked' = [asked EXCEPT !.Live = FALSE]
  BY TopSignal DEF HookType
<1>3. (v.Stop \/ FALSE) = v.Stop /\ v.Ip = Top.Ip /\ v.Frames = Top.Frames
      /\ v.Stop = Top.Stop /\ v.At = place
  BY <1>1 DEF VmContext
<1>4. Top' = [v EXCEPT !.Prompt = TRUE, !.Step = FALSE, !.Stop = Top.Stop]
  BY <1>2, <1>3
<1>5. Top'.Ip = Top.Ip /\ Top'.Frames = Top.Frames /\ Top'.Stop = Top.Stop
      /\ Top'.At = place /\ Top'.Prompt
  BY <1>1, <1>4 DEF VmContext
<1>. QED
  BY <1>2, <1>5 DEF Alive, Keeps, Stopped

LEMMA Checks ==
  ASSUME HookType, HookType', Len(vms) <= 1, plain', NEW op, NEW flag \in {"BOC", "BOCX", "BOR"},
         HookCheck(op, flag)
  PROVE  Passed
<1>1. /\ vms # <<>> /\ ~Top.Prompt /\ Top.At = "fetch"
      /\ CheckHookFlag(flag, [Top EXCEPT !.At = "hooked"])
      /\ UNCHANGED <<trace, StepContext, FeatureFlags>>
  BY DEF HookCheck, At
<1>2. Len(vms) = 1
  BY <1>1, OneContext
<1>3. CASE /\ SignalException([Top EXCEPT !.At = "hooked"], FALSE)
           /\ StatusFlags' = flag
  BY <1>1, <1>2, <1>3, PlaceSignal DEF Passed, Onward
<1>4. CASE /\ SetTop([Top EXCEPT !.At = "hooked"])
           /\ UNCHANGED <<StatusFlags, history>>
  BY <1>1, <1>2, <1>4, PlaceSet DEF Passed, Onward, Quiet, history
<1>. QED
  BY <1>1, <1>3, <1>4 DEF CheckHookFlag

\* What each step of the machine is, in a program of one context.
LEMMA Effects ==
  ASSUME BaseInv, HookType', Uses = {}, plain, plain', VmStep
  PROVE  \/ Started \/ Left \/ Passed \/ Opened \/ Ran \/ Jumped \/ Called
         \/ Returned \/ Ended
<1>. DEFINE Goal == \/ Started \/ Left \/ Passed \/ Opened \/ Ran \/ Jumped
                    \/ Called \/ Returned \/ Ended
<1>0. /\ HookType /\ ContextsOK /\ ContextsOK' /\ Len(vms) <= 1
      /\ vms # <<>> => Len(vms) = 1 /\ Top \in VmContext /\ Sound(Top)
  BY TopGood, OneContext DEF BaseInv, HookType
<1>1. ASSUME NEW entry \in Entries,
             ExecuteEbcImageEntryPoint(entry) \/ EbcInterpret(entry)
      PROVE  Started
  <2>1. PICK flag \in {"BOE", "BOT"}, source \in {Image, Thunk} :
          StartVm(entry, source, flag)
    BY <1>1 DEF ExecuteEbcImageEntryPoint, EbcInterpret
  <2>. DEFINE v == [Ip |-> entry,
                    Frames |-> <<[Source |-> source, Dest |-> entry]>>,
                    Step |-> FALSE, At |-> "start",
                    Prompt |-> flag \in FeatureFlags, Stop |-> FALSE]
  <2>2. vms = <<>> /\ vms' = Append(vms, v)
    BY <2>1 DEF StartVm
  <2>3. Len(vms') = 1 /\ vms' # <<>> /\ Top' = v
    <3>. HIDE DEF v
    <3>1. vms' = <<v>>
      BY <2>2
    <3>. QED
      BY <3>1 DEF Top
  <2>4. /\ IF flag \in FeatureFlags
           THEN StatusFlags' = flag /\ asked' = [asked EXCEPT !.Live = FALSE]
           ELSE UNCHANGED <<StatusFlags, asked>>
        /\ UNCHANGED <<trace, StepContext, FeatureFlags>>
    BY <2>1 DEF StartVm
  <2>5. Top'.Prompt = (flag \in FeatureFlags)
    BY <2>3
  <2>6. Quiet \/ (Stopped /\ StatusFlags' \in {"BOE", "BOT"})
    BY <2>4, <2>5 DEF Quiet, Stopped
  <2>7. Top'.Ip = entry /\ Len(Top'.Frames) = 1 /\ Top'.At = "start" /\ ~Top'.Stop
    BY <2>3
  <2>. QED
    BY <2>2, <2>3, <2>4, <2>6, <2>7 DEF Started
<1>2. CASE ReturnFromVm
  <2>1. /\ vms # <<>> /\ Top.At = "done" /\ vms' = SubSeq(vms, 1, Len(vms) - 1)
        /\ UNCHANGED <<trace, StepContext, FeatureFlags, StatusFlags, asked>>
    BY <1>2 DEF ReturnFromVm, At, history
  <2>2. vms' = <<>>
    BY <1>0, <2>1
  <2>. QED
    BY <2>1, <2>2 DEF Left
<1>3. CASE HookExecuteStart
  <2>1. vms # <<>> /\ ~Top.Prompt /\ Top.At = "start" /\ UNCHANGED <<trace, FeatureFlags>>
    BY <1>3 DEF HookExecuteStart, At
  <2>3. CASE /\ GoTilContext = Code(Top.Ip)
    <3>1. /\ StatusFlags' = "GT" /\ UNCHANGED StepContext
          /\ SignalException([Top EXCEPT !.At = "fetch"], FALSE)
      BY <1>3, <2>3 DEF HookExecuteStart
    <3>. QED
      BY <1>0, <2>1, <3>1, PlaceSignal DEF Passed, GotThere
  <2>4. CASE GoTilContext # Code(Top.Ip) /\ (StepOverHit \/ StepOutHit)
    <3>1. /\ StatusFlags' = IF StepOverHit THEN "STEPOVER" ELSE "STEPOUT"
          /\ StepContext' = NoStep
          /\ SignalException([Top EXCEPT !.At = "key"], FALSE)
      BY <1>3, <2>4 DEF HookExecuteStart
    <3>. QED
      BY <1>0, <2>1, <2>4, <3>1, PlaceSignal DEF Passed, Hit
  <2>5. CASE GoTilContext # Code(Top.Ip) /\ ~(StepOverHit \/ StepOutHit)
    <3>1. /\ SetTop([Top EXCEPT !.At = "key"])
          /\ UNCHANGED <<StatusFlags, StepContext, history>>
      BY <1>3, <2>5 DEF HookExecuteStart
    <3>. QED
      BY <1>0, <2>1, <2>5, <3>1, PlaceSet DEF Passed, Unhit, Quiet, history
  <2>. QED
    BY <2>3, <2>4, <2>5
<1>4. CASE HookExecuteStartKey
  <2>1. /\ vms # <<>> /\ ~Top.Prompt /\ Top.At = "key"
        /\ UNCHANGED <<trace, StepContext, FeatureFlags, StatusFlags>>
    BY <1>4 DEF HookExecuteStartKey, At
  <2>2. CASE SignalException([Top EXCEPT !.At = "fetch"], FALSE)
    BY <1>0, <2>1, <2>2, PlaceSignal DEF Passed, Onward
  <2>3. CASE SetTop([Top EXCEPT !.At = "fetch"]) /\ UNCHANGED history
    BY <1>0, <2>1, <2>3, PlaceSet DEF Passed, Onward, Quiet, history
  <2>. QED
    BY <1>4, <2>2, <2>3 DEF HookExecuteStartKey
<1>5. CASE ExecuteOther
  <2>1. /\ vms # <<>> /\ ~Top.Prompt /\ Top.At = "fetch" /\ Executing("OTHER")
        /\ SetTop([Top EXCEPT !.Ip = Following(Top.Ip), !.At = "end"])
        /\ UNCHANGED <<trace, StepContext, FeatureFlags, StatusFlags, asked>>
    BY <1>5 DEF ExecuteOther, At, history
  <2>2. /\ Len(vms') = Len(vms) /\ vms' # <<>>
        /\ Top' = [Top EXCEPT !.Ip = Following(Top.Ip), !.At = "end"]
    BY <1>0, <2>1, TopSet
  <2>. QED
    BY <1>0, <2>1, <2>2 DEF Ran, Executed, Alive, Quiet, VmContext
<1>6. CASE SignalFault
  BY <1>6 DEF SignalFault, InvalidOpcode
\* The second part of the hooks.
<1>7. ASSUME NEW place \in {"mid", "native"}, vms # <<>>, ~Top.Prompt,
             Top.At \in {"fetch", "hooked"}, Program[Top.Ip].Op \in Branches,
             place = IF Executing("CALLEX") THEN "native" ELSE "mid",
             SetTop([Top EXCEPT !.At = place]),
             PushTraceSourceEntry(Top.Ip, Program[Top.Ip].Op),
             UNCHANGED <<StepContext, FeatureFlags, StatusFlags, asked>>
      PROVE  Opened
  BY <1>0, <1>7, PlaceSet DEF Opened, Quiet
<1>8. CASE HookCALLStart
  <2>1. CASE HookCheck("CALL", "BOC")
    BY <1>0, <2>1, Checks
  <2>2. CASE ~HookCheck("CALL", "BOC")
    <3>1. /\ vms # <<>> /\ ~Top.Prompt /\ Top.At = "hooked" /\ Executing("CALL")
          /\ SetTop([Top EXCEPT !.At = "mid"])
          /\ PushTraceSourceEntry(Top.Ip, "CALL")
          /\ UNCHANGED <<StepContext, FeatureFlags, StatusFlags, asked>>
      BY <1>8, <2>2 DEF HookCALLStart, At, history
    <3>. QED
      BY <1>7, <3>1 DEF Executing, Branches
  <2>. QED
    BY <2>1, <2>2
<1>9. CASE HookCALLEXStart
  <2>1. CASE HookCheck("CALLEX", "BOCX")
    BY <1>0, <2>1, Checks
  <2>2. CASE ~HookCheck("CALLEX", "BOCX")
    <3>1. /\ vms # <<>> /\ ~Top.Prompt /\ Top.At = "hooked" /\ Executing("CALLEX")
          /\ SetTop([Top EXCEPT !.At = "native"])
          /\ PushTraceSourceEntry(Top.Ip, "CALLEX")
          /\ UNCHANGED <<StepContext, FeatureFlags, StatusFlags, asked>>
      BY <1>9, <2>2 DEF HookCALLEXStart, At, history
    <3>. QED
      BY <1>7, <3>1 DEF Executing, Branches
  <2>. QED
    BY <2>1, <2>2
<1>10. CASE HookRETStart
  <2>1. CASE HookCheck("RET", "BOR")
    BY <1>0, <2>1, Checks
  <2>2. CASE ~HookCheck("RET", "BOR")
    <3>1. /\ vms # <<>> /\ ~Top.Prompt /\ Top.At = "hooked" /\ Executing("RET")
          /\ SetTop([Top EXCEPT !.At = "mid"])
          /\ PushTraceSourceEntry(Top.Ip, "RET")
          /\ UNCHANGED <<StepContext, FeatureFlags, StatusFlags, asked>>
      BY <1>10, <2>2 DEF HookRETStart, At, history
    <3>. QED
      BY <1>7, <3>1 DEF Executing, Branches
  <2>. QED
    BY <2>1, <2>2
<1>11. CASE HookJMPStart
  <2>1. /\ vms # <<>> /\ ~Top.Prompt /\ Top.At = "fetch" /\ Executing("JMP")
        /\ SetTop([Top EXCEPT !.At = "mid"])
        /\ PushTraceSourceEntry(Top.Ip, "JMP")
        /\ UNCHANGED <<StepContext, FeatureFlags, StatusFlags, asked>>
    BY <1>11 DEF HookJMPStart, At, history
  <2>. QED
    BY <1>7, <2>1 DEF Executing, Branches
<1>12. CASE ExecuteCALL
  <2>. DEFINE dest == Program[Top.Ip].Target
              frames == Append(Top.Frames, [Source |-> Top.Ip, Dest |-> dest])
  <2>1. /\ vms # <<>> /\ ~Top.Prompt /\ Top.At = "mid" /\ Executing("CALL")
        /\ SetTop([Top EXCEPT !.Ip = dest, !.At = "end", !.Frames = frames])
        /\ PushTraceDestEntry(dest)
        /\ PushStepEntry(Code(Following(Top.Ip)), FramePtr, FramePtrAt(Depth - 1))
        /\ UNCHANGED <<StatusFlags, asked>>
    BY <1>12 DEF ExecuteCALL, HookCALLEnd, At, history, Depth
  <2>. HIDE DEF dest, frames
  <2>2. /\ Len(vms') = Len(vms) /\ vms' # <<>>
        /\ Top' = [Top EXCEPT !.Ip = dest, !.At = "end", !.Frames = frames]
    BY <1>0, <2>1, TopSet
  <2>3. /\ Top'.Ip = dest /\ Top'.At = "end" /\ Top'.Frames = frames
        /\ Top'.Stop = Top.Stop /\ ~Top'.Prompt
    BY <1>0, <2>1, <2>2 DEF VmContext
  <2>. QED
    BY <1>0, <2>1, <2>2, <2>3 DEF Called, Executed, Alive, Quiet, dest, frames
<1>13. CASE EbcLLCALLEX
  <2>1. /\ vms # <<>> /\ ~Top.Prompt /\ Top.At = "native"
        /\ SetTop([Top EXCEPT !.Ip = Following(Top.Ip), !.At = "end"])
        /\ PushTraceDestEntry(Following(Top.Ip))
        /\ UNCHANGED <<StepContext, FeatureFlags, StatusFlags, asked>>
    BY <1>13 DEF EbcLLCALLEX, At
  <2>2. /\ Len(vms') = Len(vms) /\ vms' # <<>>
        /\ Top' = [Top EXCEPT !.Ip = Following(Top.Ip), !.At = "end"]
    BY <1>0, <2>1, TopSet
  <2>3. /\ Top'.Ip = Following(Top.Ip) /\ Top'.At = "end" /\ Top'.Stop = Top.Stop
        /\ Top'.Frames = Top.Frames /\ ~Top'.Prompt
    BY <1>0, <2>1, <2>2 DEF VmContext
  <2>4. Executing("CALLEX") /\ Following(Top.Ip) \in Successors(Top.Ip)
    BY <1>0, <2>1 DEF Sound, Executing, Successors
  <2>. QED
    BY <1>0, <2>1, <2>2, <2>3, <2>4 DEF Jumped, Executed, Alive, Quiet
<1>14. CASE ExecuteRET
  <2>. DEFINE last == Depth = 1
              stop == Top.Stop \/ last
              ip == IF last THEN Top.Ip ELSE Following(Top.Frames[Depth].Source)
              frames == SubSeq(Top.Frames, 1, Depth - 1)
  <2>1. /\ vms # <<>> /\ ~Top.Prompt /\ Top.At = "mid" /\ Executing("RET")
        /\ SetTop([Top EXCEPT !.Ip = ip, !.At = "end", !.Stop = stop, !.Frames = frames])
        /\ PushTraceDestEntry(ip)
        /\ UNCHANGED <<StepContext, FeatureFlags, StatusFlags, asked>>
    BY <1>14 DEF ExecuteRET, At, history, Depth
  <2>2. stop = IF last THEN TRUE ELSE Top.Stop
    BY <1>0, <2>1, Zenon DEF VmContext
  <2>. HIDE DEF ip, stop, frames
  <2>3. /\ Len(vms') = Len(vms) /\ vms' # <<>>
        /\ Top' = [Top EXCEPT !.Ip = ip, !.At = "end", !.Stop = stop, !.Frames = frames]
    BY <1>0, <2>1, TopSet
  <2>4. /\ Top'.Ip = ip /\ Top'.At = "end" /\ Top'.Stop = stop
        /\ Top'.Frames = frames /\ ~Top'.Prompt
    BY <1>0, <2>1, <2>3 DEF VmContext
  <2>5. Executed
    BY <1>0, <2>1, <2>3, <2>4 DEF Executed, Alive, Quiet
  <2>6. IF Depth = 1 THEN Top'.Ip = Top.Ip /\ Top'.Stop
        ELSE /\ Top'.Ip = Following(Top.Frames[Depth].Source)
             /\ Top'.Stop = Top.Stop
    BY <2>2, <2>4 DEF ip
  <2>. QED
    BY <2>1, <2>4, <2>5, <2>6 DEF Returned, frames
<1>15. CASE ExecuteJMP
  <2>1. /\ vms # <<>> /\ ~Top.Prompt /\ Top.At = "mid" /\ Executing("JMP")
        /\ UNCHANGED <<StepContext, FeatureFlags, StatusFlags, asked>>
    BY <1>15 DEF ExecuteJMP, At, history
  <2>2. PICK ip \in {Program[Top.Ip].Target, Following(Top.Ip)} :
          SetTop([Top EXCEPT !.Ip = ip, !.At = "end"]) /\ PushTraceDestEntry(ip)
    BY <1>15 DEF ExecuteJMP
  <2>3. /\ Len(vms') = Len(vms) /\ vms' # <<>>
        /\ Top' = [Top EXCEPT !.Ip = ip, !.At = "end"]
    BY <1>0, <2>1, <2>2, TopSet
  <2>4. /\ Top'.Ip = ip /\ Top'.At = "end" /\ Top'.Stop = Top.Stop
        /\ Top'.Frames = Top.Frames /\ ~Top'.Prompt
    BY <1>0, <2>1, <2>3 DEF VmContext
  <2>5. ip \in Successors(Top.Ip)
    BY <2>1 DEF Executing, Successors
  <2>. QED
    BY <1>0, <2>1, <2>2, <2>3, <2>4, <2>5 DEF Jumped, Executed, Alive, Quiet
<1>16. CASE HookExecuteEnd
  <2>1. /\ vms # <<>> /\ ~Top.Prompt /\ Top.At = "end" /\ UNCHANGED <<trace, StatusFlags>>
        /\ StepContext' = IF "STEPOUT" \in FeatureFlags
                          THEN [BreakAddress |-> FramePtrAt(Depth - 1),
                                FramePointer |-> FramePtr]
                          ELSE StepContext
        /\ FeatureFlags' = FeatureFlags \ {"STEPOUT"}
    BY <1>16 DEF HookExecuteEnd, At, Depth
  <2>2. CASE SignalException([Top EXCEPT !.At = "stack"], FALSE)
    BY <1>0, <2>1, <2>2, PlaceSignal DEF Ended
  <2>3. CASE SetTop([Top EXCEPT !.At = "stack"]) /\ UNCHANGED history
    BY <1>0, <2>1, <2>3, PlaceSet DEF Ended, Quiet, history
  <2>. QED
    BY <1>16, <2>2, <2>3 DEF HookExecuteEnd
<1>17. CASE CheckStack
  <2>1. /\ vms # <<>> /\ ~Top.Prompt /\ Top.At = "stack"
        /\ UNCHANGED <<trace, StepContext, FeatureFlags, StatusFlags>>
    BY <1>17 DEF CheckStack, At
  <2>2. /\ SetTop([Top EXCEPT !.At = IF Top.Stop THEN "done" ELSE "start"])
        /\ UNCHANGED history
    BY <1>17 DEF CheckStack, SignalException
  <2>. QED
    BY <1>0, <2>1, <2>2, PlaceSet DEF Passed, Onward, Quiet, history
<1>. HIDE DEF Goal
<1>18. Goal
  BY <1>1, <1>2, <1>3, <1>4, <1>5, <1>6, <1>8, <1>9, <1>10, <1>11, <1>12,
     <1>13, <1>14, <1>15, <1>16, <1>17 DEF VmStep, Goal
<1>. QED
  BY <1>18 DEF Goal

-----------------------------------------------------------------------------
(* What the commands do.                                                   *)

Requests == {"STEPOVER", "STEPOUT"}

Stays == /\ Top'.Prompt /\ UNCHANGED <<StepContext, StatusFlags, asked>>
         /\ FeatureFlags' \cap Requests = FeatureFlags \cap Requests
Leaves == ~Top'.Prompt /\ StepContext' = NoStep /\ StatusFlags' = "none"
GoesOn == /\ UNCHANGED asked
          /\ \/ FeatureFlags' \cap Requests = FeatureFlags \cap Requests
             \/ FeatureFlags' \cap Requests = {}
AsksOver ==
  /\ Executing("CALL") /\ FeatureFlags' = FeatureFlags \cup {"STEPOVER"}
  /\ asked' = [Kind |-> "over", Live |-> TRUE, Alone |-> NonePending,
               Frame |-> FramePtr, Ret |-> Code(Following(Top.Ip))]
AsksOut ==
  /\ ~Executing("RET") /\ FeatureFlags' = FeatureFlags \cup {"STEPOUT"}
  /\ asked' = [Kind |-> "out", Live |-> TRUE, Alone |-> NonePending,
               Frame |-> FramePtrAt(Depth - 1), Ret |-> NoAddress]

Commanded ==
  /\ vms # <<>> /\ Len(vms) = 1 /\ Top.Prompt
  /\ vms' # <<>> /\ Len(vms') = 1
  /\ Keeps /\ Top'.At = Top.At
  /\ UNCHANGED trace \/ TraceEntryCount' = 0
  /\ Stays \/ (Leaves /\ (GoesOn \/ AsksOver \/ AsksOut))

LEMMA CommandEffects ==
  ASSUME BaseInv, HookType', plain, Command
  PROVE  Commanded
<1>1. vms # <<>> /\ Top.Prompt
  BY DEF Command, DebuggerGo, DebuggerGoTil, DebuggerStepInto, DebuggerStepOver,
     DebuggerStepOut, DebuggerQuit, DebuggerBreakOn, DebuggerCallStackClear,
     DebuggerTraceClear, Leave, AtPrompt
<1>2. /\ HookType /\ ContextsOK /\ ContextsOK' /\ Len(vms) = 1 /\ Top \in VmContext
  BY <1>1, TopGood, OneContext DEF BaseInv, HookType
<1>. DEFINE Common == /\ vms # <<>> /\ Len(vms) = 1 /\ Top.Prompt
                      /\ vms' # <<>> /\ Len(vms') = 1
                      /\ Keeps /\ Top'.At = Top.At
<1>3. ASSUME UNCHANGED vms
      PROVE  Common /\ Top'.Prompt
  BY <1>1, <1>2, <1>3 DEF Keeps, Top
<1>4. ASSUME NEW v \in {[Top EXCEPT !.Prompt = FALSE, !.Step = TRUE],
                        [Top EXCEPT !.Prompt = FALSE, !.Step = FALSE],
                        [Top EXCEPT !.Prompt = FALSE]},
             SetTop(v)
      PROVE  Common /\ ~Top'.Prompt
  <2>1. Len(vms') = Len(vms) /\ vms' # <<>> /\ Top' = v
    BY <1>1, <1>2, <1>4, TopSet
  <2>. QED
    BY <1>1, <1>2, <1>4, <2>1 DEF Keeps, VmContext
<1>5. ASSUME NEW step \in BOOLEAN, Leave(step)
      PROVE  Common /\ Leaves /\ UNCHANGED trace
  <2>1. /\ SetTop([Top EXCEPT !.Prompt = FALSE, !.Step = step])
        /\ StepContext' = NoStep /\ StatusFlags' = "none" /\ UNCHANGED trace
    BY <1>5 DEF Leave
  <2>2. CASE step = TRUE
    BY <1>4, <2>1, <2>2 DEF Leaves
  <2>3. CASE step = FALSE
    BY <1>4, <2>1, <2>3 DEF Leaves
  <2>. QED
    BY <2>2, <2>3
<1>. HIDE DEF Common
<1>. SUFFICES /\ Common
              /\ UNCHANGED trace \/ TraceEntryCount' = 0
              /\ Stays \/ (Leaves /\ (GoesOn \/ AsksOver \/ AsksOut))
  BY DEF Commanded, Common
<1>6. CASE DebuggerGo \/ (\E a \in GoTils : DebuggerGoTil(a)) \/ DebuggerStepInto
  <2>1. PICK step \in BOOLEAN : Leave(step) /\ UNCHANGED <<FeatureFlags, asked>>
    BY <1>6 DEF DebuggerGo, DebuggerGoTil, DebuggerStepInto
  <2>. QED
    BY <1>5, <2>1 DEF GoesOn
<1>7. CASE DebuggerStepOver
  <2>1. Leave(~Executing("CALL")) /\ (GoesOn \/ AsksOver)
    BY <1>7 DEF DebuggerStepOver, GoesOn, AsksOver
  <2>2. (~Executing("CALL")) \in BOOLEAN
    OBVIOUS
  <2>. QED
    BY <1>5, <2>1, <2>2
<1>8. CASE DebuggerStepOut
  <2>1. Leave(Executing("RET")) /\ (GoesOn \/ AsksOut)
    BY <1>8 DEF DebuggerStepOut, GoesOn, AsksOut, Depth
  <2>2. Executing("RET") \in BOOLEAN
    BY DEF Executing
  <2>. QED
    BY <1>5, <2>1, <2>2
<1>9. CASE DebuggerQuit
  <2>1. /\ SetTop([Top EXCEPT !.Prompt = FALSE])
        /\ FeatureFlags' = {"BOE", "BOT"} /\ StepContext' = NoStep
        /\ StatusFlags' = "none" /\ TraceEntryCount' = 0 /\ UNCHANGED asked
    BY <1>9 DEF DebuggerQuit, Emptied, history
  <2>2. FeatureFlags' \cap Requests = {}
    BY <2>1 DEF Requests
  <2>. QED
    BY <1>4, <2>1, <2>2 DEF Leaves, GoesOn
<1>10. CASE \E flag \in Breaks : DebuggerBreakOn(flag)
  <2>1. PICK flag \in Breaks : DebuggerBreakOn(flag)
    BY <1>10
  <2>2. flag \notin Requests
    BY UsesAssumption DEF Requests
  <2>3. /\ FeatureFlags' \cap Requests = FeatureFlags \cap Requests
        /\ UNCHANGED <<vms, trace, StepContext, StatusFlags, asked>>
    BY <2>1, <2>2 DEF DebuggerBreakOn, history
  <2>. QED
    BY <1>3, <2>3 DEF Stays
<1>11. CASE DebuggerCallStackClear
  BY <1>3, <1>11 DEF DebuggerCallStackClear, Stays, history
<1>12. CASE DebuggerTraceClear
  BY <1>3, <1>12 DEF DebuggerTraceClear, Stays, history
<1>. QED
  BY <1>6, <1>7, <1>8, <1>9, <1>10, <1>11, <1>12 DEF Command

\* What is not plain never is again.
LEMMA PlainKept ==
  ASSUME [Next]_vars, plain'
  PROVE  plain
<1>1. ASSUME NEW v, NEW fatal, SignalException(v, fatal) PROVE plain
  BY <1>1 DEF SignalException
<1>2. ASSUME NEW op, NEW flag, HookCheck(op, flag) PROVE plain
  BY <1>1, <1>2 DEF HookCheck, CheckHookFlag, history
<1>3. CASE VmStep
  BY <1>1, <1>2, <1>3 DEF VmStep, ExecuteEbcImageEntryPoint, EbcInterpret, StartVm,
     ReturnFromVm, HookExecuteStart, HookExecuteStartKey, ExecuteOther, SignalFault, InvalidOpcode,
     HookCALLStart, ExecuteCALL, HookCALLEXStart, EbcLLCALLEX, HookRETStart,
     ExecuteRET, HookJMPStart, ExecuteJMP, HookExecuteEnd, CheckStack, history
<1>4. CASE Command
  BY <1>4 DEF Command, DebuggerGo, DebuggerGoTil, DebuggerStepInto, DebuggerStepOver,
     DebuggerStepOut, DebuggerQuit, DebuggerBreakOn, DebuggerCallStackClear,
     DebuggerTraceClear, Leave, history
<1>. QED
  BY <1>3, <1>4 DEF Next, BreakEventFunc, vars, history

\* The context stays sound.
LEMMA BaseKept ==
  ASSUME BaseInv, Uses = {}, [Next]_vars
  PROVE  BaseInv'
<1>1. HookType'
  BY HookTypeKept DEF BaseInv
<1>. SUFFICES ASSUME plain'
              PROVE  Len(vms') <= 1 /\ (vms' # <<>> => Sound(Top'))
  BY <1>1 DEF BaseInv
<1>2. plain
  BY PlainKept
<1>3. vms # <<>> => Len(vms) = 1 /\ Sound(Top) /\ Top \in VmContext
  BY <1>2, TopGood, OneContext DEF BaseInv, HookType
<1>4. CASE VmStep
  <2>1. CASE Started
    BY <2>1 DEF Started, Sound, Quiet, Stopped
  <2>2. CASE Left
    BY <2>2 DEF Left
  <2>3. CASE Passed
    BY <1>3, <2>3 DEF Passed, Alive, Keeps, Sound, Hit, GotThere, Unhit, Onward,
       Quiet, Stopped
  <2>4. CASE Opened
    BY <1>3, <2>4 DEF Opened, Alive, Keeps, Sound, Quiet, Executing
  <2>5. CASE Ran
    BY <1>3, <2>5 DEF Ran, Executed, Alive, Sound, Quiet
  <2>6. CASE Jumped
    BY <1>3, <2>6 DEF Jumped, Executed, Alive, Sound, Quiet
  <2>7. CASE Called
    <3>1. /\ Len(vms') = 1 /\ Top'.At = "end" /\ ~Top'.Prompt /\ ~Top'.Stop
          /\ Top.At = "mid" /\ vms # <<>> /\ Executing("CALL")
      BY <1>3, <2>7 DEF Called, Executed, Alive, Quiet, Sound
    <3>2. Top'.Ip \in Addr
      BY <2>7, <3>1, TopGood, ProgramType DEF Called, BaseInv, HookType
    <3>3. /\ Len(Top'.Frames) = Len(Top.Frames) + 1
          /\ Top'.Frames[Len(Top'.Frames)].Source = Top.Ip
          /\ \A n \in 1..Len(Top.Frames) : Top'.Frames[n] = Top.Frames[n]
      BY <2>7, <3>1, <3>2, CallFrames DEF Called, BaseInv, HookType
    <3>4. ASSUME NEW n \in 2..Len(Top'.Frames)
          PROVE  Program[Top'.Frames[n].Source].Op = "CALL"
      <4>1. Len(Top.Frames) \in Nat
        BY <3>1, TopGood DEF BaseInv, HookType
      <4>2. CASE n = Len(Top'.Frames)
        BY <3>1, <3>3, <4>2 DEF Executing
      <4>3. CASE n # Len(Top'.Frames)
        <5>1. n \in 2..Len(Top.Frames) /\ Top'.Frames[n] = Top.Frames[n]
          BY <3>3, <4>1, <4>3
        <5>. QED
          BY <1>3, <3>1, <5>1 DEF Sound
      <4>. QED
        BY <4>2, <4>3
    <3>. QED
      BY <3>1, <3>4 DEF Sound
  <2>8. CASE Returned
    <3>1. /\ Len(vms') = 1 /\ Top'.At = "end" /\ ~Top'.Prompt
          /\ Top.At = "mid" /\ vms # <<>> /\ Executing("RET") /\ ~Top.Stop
      BY <1>3, <2>8 DEF Returned, Executed, Alive, Quiet, Sound
    <3>2. /\ Len(Top.Frames) \in Nat \ {0}
          /\ Len(Top'.Frames) = Len(Top.Frames) - 1
          /\ \A n \in 1..Len(Top'.Frames) : Top'.Frames[n] = Top.Frames[n]
      BY <2>8, <3>1, ReturnFrames, TopGood DEF Returned, BaseInv, HookType, Depth
    <3>3. ASSUME NEW n \in 2..Len(Top'.Frames)
          PROVE  Program[Top'.Frames[n].Source].Op = "CALL"
      <4>. DEFINE old == Len(Top.Frames)
      <4>1. old \in Nat /\ n \in 2..old - 1
        BY <3>2
      <4>. HIDE DEF old
      <4>2. n \in 2..old /\ n \in 1..old - 1
        BY <4>1
      <4>3. n \in 2..Len(Top.Frames) /\ Top'.Frames[n] = Top.Frames[n]
        BY <3>2, <4>2 DEF old
      <4>. QED
        BY <1>3, <3>1, <4>3 DEF Sound
    <3>4. ASSUME Top'.Stop
          PROVE  Top'.Frames = <<>> /\ Program[Top'.Ip].Op = "RET"
      <4>1. Depth = 1
        BY <2>8, <3>1, <3>4 DEF Returned
      <4>2. Top'.Ip = Top.Ip /\ Top'.Frames = SubSeq(Top.Frames, 1, Depth - 1)
        BY <2>8, <4>1 DEF Returned
      <4>3. SubSeq(Top.Frames, 1, Depth - 1) = <<>>
        BY <4>1
      <4>. QED
        BY <3>1, <4>2, <4>3 DEF Executing
    <3>. QED
      BY <3>1, <3>3, <3>4 DEF Sound
  <2>9. CASE Ended
    BY <1>3, <2>9 DEF Ended, Alive, Keeps, Sound, Quiet, Stopped
  <2>. QED
    BY <1>1, <1>2, <1>4, <2>1, <2>2, <2>3, <2>4, <2>5, <2>6, <2>7, <2>8, <2>9,
       Effects
<1>5. CASE Command
  <2>1. Commanded
    BY <1>1, <1>2, <1>5, CommandEffects
  <2>. QED
    BY <1>3, <2>1 DEF Commanded, Keeps, Sound
<1>6. CASE UNCHANGED vms
  BY <1>2, <1>3, <1>6 DEF Top, BaseInv
<1>. QED
  BY <1>4, <1>5, <1>6 DEF Next, BreakEventFunc, vars

-----------------------------------------------------------------------------
(* The trace.                                                              *)

Complete ==
  /\ \A i \in 0..TraceEntryCount - 1 : IsBranch(TraceEntry[i])
  /\ \A i \in 0..TraceEntryCount - 2 :
       Follows(TraceEntry[i], TraceEntry[i + 1].Source)

\* The entry of a RET that ended its context.
Last(e) == e.Type = "RET" /\ e.Dest = e.Source

InBranch == vms # <<>> /\ Top.At \in {"mid", "native"}

\* The last entry leads to where the program is, and between the hooks of a
\* branch the open entry is about this branch.
TraceInv == plain =>
  /\ Complete
  /\ TraceEntryCount > 0 =>
       IF vms = <<>> \/ Top.Stop
       THEN Last(TraceEntry[TraceEntryCount - 1])
       ELSE Follows(TraceEntry[TraceEntryCount - 1], Top.Ip)
  /\ InBranch => /\ TraceEntry[TraceEntryCount].Source = Top.Ip
                 /\ TraceEntry[TraceEntryCount].Type = Program[Top.Ip].Op

LEMMA RunsToSelf ==
  ASSUME NEW a \in Addr
  PROVE  RunsTo(a, a)
<1>1. a \in Nat
  BY ProgramType
<1>. QED
  BY <1>1 DEF RunsTo

LEMMA RunsToNext ==
  ASSUME NEW a \in Addr \cup {0}, NEW b \in Addr, RunsTo(a, b), Program[b].Op = "OTHER"
  PROVE  RunsTo(a, Following(b))
<1>1. a \in Int /\ b \in Int
  BY ProgramType
<1>2. CASE Following(b) = b
  BY <1>2
<1>3. CASE Following(b) = b + 1
  <2>1. a <= b + 1
    BY <1>1 DEF RunsTo
  <2>2. ASSUME NEW c \in a..b PROVE Program[c].Op = "OTHER"
    <3>1. c = b \/ c \in a..b - 1
      BY <1>1
    <3>. QED
      BY <3>1 DEF RunsTo
  <2>3. (b + 1) - 1 = b
    BY <1>1
  <2>. QED
    BY <1>3, <2>1, <2>2, <2>3 DEF RunsTo
<1>. QED
  BY <1>2, <1>3 DEF Following

LEMMA FollowsNext ==
  ASSUME NEW e \in TraceRecord, NEW b \in Addr, Follows(e, b), Program[b].Op = "OTHER"
  PROVE  Follows(e, Following(b))
<1>1. CASE RunsTo(e.Dest, b)
  <2>1. e.Dest \in Addr \cup {0}
    BY DEF TraceRecord
  <2>. QED
    BY <1>1, <2>1, RunsToNext DEF Follows
<1>2. CASE Last(e) /\ \E entry \in Entries : RunsTo(entry, b)
  <2>1. PICK entry \in Entries : RunsTo(entry, b)
    BY <1>2
  <2>2. entry \in Addr
    BY ProgramAssumption
  <2>. QED
    BY <1>2, <2>1, <2>2, RunsToNext DEF Follows, Last
<1>. QED
  BY <1>1, <1>2 DEF Follows, Last

\* A new context begins after the last RET of the one before.
LEMMA FollowsStart ==
  ASSUME NEW e, Last(e), NEW entry \in Entries
  PROVE  Follows(e, entry)
<1>1. entry \in Addr
  BY ProgramAssumption
<1>. QED
  BY <1>1, RunsToSelf DEF Follows, Last

LEMMA BranchOpened ==
  ASSUME TraceOK, Complete, NEW source \in Addr, NEW type \in Branches,
         PushTraceSourceEntry(source, type)
  PROVE  /\ Complete' /\ UNCHANGED TraceEntryCount
         /\ TraceEntry'[TraceEntryCount].Source = source
         /\ TraceEntry'[TraceEntryCount].Type = type
         /\ TraceEntryCount > 0 =>
              TraceEntry'[TraceEntryCount - 1] = TraceEntry[TraceEntryCount - 1]
<1>1. /\ UNCHANGED TraceEntryCount /\ TraceEntryCount \in 0..TraceMax /\ TraceMax \in Nat
      /\ TraceEntry'[TraceEntryCount].Source = source
      /\ TraceEntry'[TraceEntryCount].Type = type
      /\ \A i \in 0..TraceMax : i # TraceEntryCount => TraceEntry'[i] = TraceEntry[i]
  BY PushTraceSource, BoundAssumption DEF TraceOK
<1>2. \A i \in 0..TraceEntryCount - 1 : TraceEntry'[i] = TraceEntry[i]
  BY <1>1
<1>3. \A i \in 0..TraceEntryCount - 1 : IsBranch(TraceEntry'[i])
  BY <1>2 DEF Complete
<1>4. ASSUME NEW i \in 0..TraceEntryCount - 2
      PROVE  Follows(TraceEntry'[i], TraceEntry'[i + 1].Source)
  <2>1. i \in 0..TraceEntryCount - 1 /\ i + 1 \in 0..TraceEntryCount - 1
    BY <1>1
  <2>. QED
    BY <1>2, <2>1 DEF Complete
<1>5. TraceEntryCount > 0 =>
        TraceEntry'[TraceEntryCount - 1] = TraceEntry[TraceEntryCount - 1]
  BY <1>1, <1>2
<1>. QED
  BY <1>1, <1>3, <1>4, <1>5 DEF Complete

\* The second hook completes the open entry, and drops the oldest when there
\* are more than the trace holds.
LEMMA BranchDone ==
  ASSUME TraceOK, Complete, NEW dest \in Addr, PushTraceDestEntry(dest),
         TraceEntryCount > 0 => Follows(TraceEntry[TraceEntryCount - 1],
                                        TraceEntry[TraceEntryCount].Source),
         IsBranch([TraceEntry[TraceEntryCount] EXCEPT !.Dest = dest])
  PROVE  /\ Complete' /\ TraceEntryCount' > 0
         /\ TraceEntry'[TraceEntryCount' - 1]
              = [TraceEntry[TraceEntryCount] EXCEPT !.Dest = dest]
<1>. DEFINE n == TraceEntryCount
            new == [TraceEntry[n] EXCEPT !.Dest = dest]
<1>0. /\ n \in 0..TraceMax /\ TraceMax \in Nat \ {0}
      /\ TraceEntry \in [0..TraceMax -> TraceRecord]
      /\ new.Source = TraceEntry[n].Source
  BY BoundAssumption DEF TraceOK, TraceRecord
<1>1. CASE n < TraceMax
  <2>1. TraceEntryCount' = n + 1 /\ TraceEntry' = [TraceEntry EXCEPT ![n].Dest = dest]
    BY <1>1 DEF PushTraceDestEntry, Completed, Increased
  <2>2. TraceEntry'[n] = new /\ \A i \in 0..n - 1 : TraceEntry'[i] = TraceEntry[i]
    BY <1>0, <2>1
  <2>. HIDE DEF n, new
  <2>3. ASSUME NEW i \in 0..(n + 1) - 1 PROVE IsBranch(TraceEntry'[i])
    <3>1. i = n \/ i \in 0..n - 1
      BY <1>0
    <3>. QED
      BY <2>2, <3>1 DEF Complete, n, new
  <2>4. ASSUME NEW i \in 0..(n + 1) - 2
        PROVE  Follows(TraceEntry'[i], TraceEntry'[i + 1].Source)
    <3>1. /\ i \in 0..n - 1
          /\ (i + 1 = n /\ i = n - 1 /\ n > 0) \/ (i \in 0..n - 2 /\ i + 1 \in 0..n - 1)
      BY <1>0
    <3>2. CASE i + 1 = n /\ i = n - 1 /\ n > 0
      <4>1. TraceEntry'[i] = TraceEntry[n - 1]
            /\ TraceEntry'[i + 1].Source = TraceEntry[n].Source
        BY <1>0, <2>2, <3>1, <3>2
      <4>. QED
        BY <3>2, <4>1 DEF n
    <3>3. CASE i \in 0..n - 2 /\ i + 1 \in 0..n - 1
      BY <2>2, <3>1, <3>3 DEF Complete, n
    <3>. QED
      BY <3>1, <3>2, <3>3
  <2>5. n + 1 > 0 /\ (n + 1) - 1 = n
    BY <1>0
  <2>. QED
    BY <2>1, <2>2, <2>3, <2>4, <2>5 DEF Complete, n, new
<1>2. CASE n = TraceMax
  <2>1. /\ TraceEntryCount' = n
        /\ TraceEntry' = [i \in 0..TraceMax |->
             IF i = TraceMax THEN TraceEntry[TraceMax]
             ELSE IF i = TraceMax - 1 THEN [TraceEntry[TraceMax] EXCEPT !.Dest = dest]
             ELSE TraceEntry[i + 1]]
    BY <1>0, <1>2 DEF PushTraceDestEntry, Completed, Increased
  <2>2. TraceEntry'[n - 1] = new /\ \A i \in 0..n - 2 : TraceEntry'[i] = TraceEntry[i + 1]
    BY <1>0, <1>2, <2>1
  <2>. HIDE DEF n, new
  <2>3. ASSUME NEW i \in 0..n - 1 PROVE IsBranch(TraceEntry'[i])
    <3>1. i = n - 1 \/ (i \in 0..n - 2 /\ i + 1 \in 0..n - 1)
      BY <1>0
    <3>. QED
      BY <2>2, <3>1 DEF Complete, n, new
  <2>4. ASSUME NEW i \in 0..n - 2
        PROVE  Follows(TraceEntry'[i], TraceEntry'[i + 1].Source)
    <3>1. /\ TraceEntry'[i] = TraceEntry[i + 1]
          /\ (i + 1 = n - 1 /\ n > 0) \/ (i + 1 \in 0..n - 2 /\ (i + 1) + 1 \in 0..n - 1)
      BY <1>0, <2>2
    <3>2. CASE i + 1 = n - 1 /\ n > 0
      BY <1>0, <2>2, <3>1, <3>2 DEF n
    <3>3. CASE i + 1 \in 0..n - 2 /\ (i + 1) + 1 \in 0..n - 1
      BY <2>2, <3>1, <3>3 DEF Complete, n
    <3>. QED
      BY <3>1, <3>2, <3>3
  <2>5. n > 0
    BY <1>0, <1>2
  <2>. QED
    BY <2>1, <2>2, <2>3, <2>4, <2>5 DEF Complete, n, new
<1>. QED
  BY <1>0, <1>1, <1>2

LEMMA TraceKept ==
  ASSUME BaseInv, TraceInv, Uses = {}, [Next]_vars
  PROVE  TraceInv'
<1>. SUFFICES ASSUME plain' PROVE TraceInv'
  BY DEF TraceInv
<1>. DEFINE n == TraceEntryCount
            e == TraceEntry[n - 1]
<1>1. BaseInv' /\ HookType' /\ plain
  BY BaseKept, PlainKept DEF BaseInv
<1>2. /\ HookType /\ TraceOK /\ n \in Nat /\ Complete
      /\ n > 0 => IF vms = <<>> \/ Top.Stop THEN Last(e) ELSE Follows(e, Top.Ip)
      /\ InBranch => /\ TraceEntry[n].Source = Top.Ip
                     /\ TraceEntry[n].Type = Program[Top.Ip].Op
  BY <1>1 DEF BaseInv, HookType, TraceInv, TraceOK
<1>3. vms # <<>> => Sound(Top) /\ Top.Ip \in Addr
  BY <1>1, TopGood DEF BaseInv, HookType
<1>4. vms' # <<>> => Top'.Ip \in Addr
  <2>1. ContextsOK'
    BY <1>1 DEF HookType
  <2>. QED
    BY <2>1 DEF ContextsOK, GoodContext, VmContext, Top
<1>5. ASSUME UNCHANGED trace
      PROVE  Complete' /\ n' = n /\ e' = e /\ TraceEntry'[n'] = TraceEntry[n]
  BY <1>2, <1>5 DEF Complete, trace
\* The branch that ends is the open entry's.
<1>6. ASSUME Executed, Top.At \in {"mid", "native"}, Top'.Ip \in Successors(Top.Ip),
             PushTraceDestEntry(Top'.Ip), ~Top'.Stop
      PROVE  TraceInv'
  <2>. DEFINE new == [TraceEntry[n] EXCEPT !.Dest = Top'.Ip]
  <2>1. InBranch /\ ~Top.Stop /\ Top'.Ip \in Addr /\ vms' # <<>> /\ Top'.At = "end"
    BY <1>3, <1>4, <1>6 DEF InBranch, Executed, Alive, Sound
  <2>2. /\ TraceEntry[n].Source = Top.Ip /\ TraceEntry[n].Type = Program[Top.Ip].Op
        /\ n > 0 => Follows(e, TraceEntry[n].Source)
    BY <1>2, <2>1 DEF InBranch
  <2>3. IsBranch(new) /\ new.Dest = Top'.Ip
    <3>1. TraceEntry[n] \in TraceRecord
      BY <1>2 DEF TraceOK
    <3>2. new.Dest = Top'.Ip /\ new.Source = Top.Ip /\ new.Type = Program[Top.Ip].Op
      BY <2>2, <3>1 DEF TraceRecord
    <3>. QED
      BY <1>6, <3>2 DEF IsBranch
  <2>4. Complete' /\ n' > 0 /\ TraceEntry'[n' - 1] = new
    BY <1>2, <1>6, <2>1, <2>2, <2>3, BranchDone
  <2>5. Follows(e', Top'.Ip)
    BY <2>1, <2>3, <2>4, RunsToSelf DEF Follows
  <2>6. ~InBranch'
    BY <2>1 DEF InBranch
  <2>. QED
    BY <1>6, <2>1, <2>4, <2>5, <2>6 DEF TraceInv
<1>7. CASE Started
  <2>1. UNCHANGED trace /\ vms = <<>> /\ vms' # <<>> /\ ~Top'.Stop /\ Top'.Ip \in Entries
        /\ Top'.At = "start"
    BY <1>7 DEF Started
  <2>2. n > 0 => Follows(e, Top'.Ip)
    BY <1>2, <2>1, FollowsStart
  <2>3. ~InBranch'
    BY <2>1 DEF InBranch
  <2>. QED
    BY <1>5, <2>1, <2>2, <2>3 DEF TraceInv
<1>8. CASE Left
  <2>1. UNCHANGED trace /\ vms' = <<>> /\ vms # <<>> /\ Top.Stop
    BY <1>3, <1>8 DEF Left, Sound
  <2>. QED
    BY <1>2, <1>5, <2>1 DEF TraceInv, InBranch
\* The place changes, outside branches.
<1>9. ASSUME UNCHANGED trace, vms # <<>>, vms' # <<>>, Keeps, ~InBranch'
      PROVE  TraceInv'
  BY <1>2, <1>5, <1>9 DEF Keeps, TraceInv
<1>10. CASE Passed
  <2>1. ~InBranch'
    BY <1>10 DEF Passed, Hit, GotThere, Unhit, Onward, InBranch
  <2>. QED
    BY <1>9, <1>10, <2>1 DEF Passed, Alive
<1>11. CASE Opened
  <2>1. /\ vms # <<>> /\ vms' # <<>> /\ Keeps /\ ~Top.Stop /\ Top.Ip \in Addr
        /\ Program[Top.Ip].Op \in Branches
        /\ PushTraceSourceEntry(Top.Ip, Program[Top.Ip].Op)
    BY <1>3, <1>11 DEF Opened, Alive, Sound
  <2>2. /\ Complete' /\ n' = n
        /\ TraceEntry'[n].Source = Top.Ip /\ TraceEntry'[n].Type = Program[Top.Ip].Op
        /\ n > 0 => TraceEntry'[n - 1] = e
    BY <1>2, <2>1, BranchOpened
  <2>. QED
    BY <1>2, <2>1, <2>2 DEF TraceInv, Keeps
<1>12. CASE Ran
  <2>1. /\ vms # <<>> /\ vms' # <<>> /\ ~Top.Stop /\ ~Top'.Stop /\ UNCHANGED trace
        /\ Top'.Ip = Following(Top.Ip) /\ Program[Top.Ip].Op = "OTHER"
        /\ Top'.At = "end"
    BY <1>3, <1>12 DEF Ran, Executed, Alive, Sound, Executing
  <2>2. n > 0 => Follows(e, Top'.Ip)
    <3>1. n > 0 => e \in TraceRecord
      <4>1. n > 0 => n - 1 \in 0..TraceMax
        BY <1>2, BoundAssumption DEF TraceOK
      <4>. HIDE DEF n
      <4>. QED
        BY <1>2, <4>1 DEF TraceOK
    <3>. QED
      BY <1>2, <1>3, <2>1, <3>1, FollowsNext
  <2>3. ~InBranch'
    BY <2>1 DEF InBranch
  <2>. QED
    BY <1>5, <2>1, <2>2, <2>3 DEF TraceInv
<1>13. CASE Jumped
  <2>1. ~Top'.Stop
    BY <1>3, <1>13 DEF Jumped, Executed, Alive, Sound
  <2>. QED
    BY <1>6, <1>13, <2>1 DEF Jumped
<1>14. CASE Called
  <2>1. ~Top'.Stop
    BY <1>3, <1>14 DEF Called, Executed, Alive, Sound
  <2>2. Top'.Ip \in Successors(Top.Ip)
    BY <1>14 DEF Called, Successors, Executing
  <2>. QED
    BY <1>6, <1>14, <2>1, <2>2 DEF Called
<1>15. CASE Returned
  <2>1. /\ vms # <<>> /\ vms' # <<>> /\ Top.At = "mid" /\ Top'.At = "end"
        /\ Program[Top.Ip].Op = "RET" /\ ~Top.Stop /\ PushTraceDestEntry(Top'.Ip)
    BY <1>3, <1>15 DEF Returned, Executed, Alive, Sound, Executing
  <2>2. CASE Depth # 1
    <3>1. Top.Frames[Depth].Source \in Addr /\ Program[Top.Frames[Depth].Source].Op = "CALL"
      <4>1. Depth \in Nat \ {0} /\ Top.Frames[Depth].Source \in Addr
        BY <1>2, <2>1, <2>2, TopGood, ReturnFrames DEF HookType, Depth
      <4>2. Depth \in 2..Depth
        BY <2>2, <4>1
      <4>. QED
        BY <1>3, <2>1, <4>1, <4>2 DEF Sound, Depth
    <3>2. Top'.Ip = Following(Top.Frames[Depth].Source) /\ ~Top'.Stop
      BY <1>15, <2>1, <2>2 DEF Returned
    <3>3. Top'.Ip \in Successors(Top.Ip)
      BY <2>1, <3>1, <3>2 DEF Successors
    <3>. QED
      BY <1>6, <1>15, <2>1, <3>2, <3>3 DEF Returned
  <2>3. CASE Depth = 1
    <3>. DEFINE new == [TraceEntry[n] EXCEPT !.Dest = Top'.Ip]
    <3>1. Top'.Ip = Top.Ip /\ Top'.Stop /\ InBranch /\ Top'.Ip \in Addr
      BY <1>4, <1>15, <2>1, <2>3 DEF Returned, InBranch
    <3>2. /\ TraceEntry[n] \in TraceRecord
          /\ TraceEntry[n].Source = Top.Ip /\ TraceEntry[n].Type = "RET"
          /\ n > 0 => Follows(e, TraceEntry[n].Source)
      BY <1>2, <2>1, <3>1 DEF TraceOK
    <3>3. new.Dest = Top.Ip /\ new.Source = Top.Ip /\ new.Type = "RET"
      BY <3>1, <3>2 DEF TraceRecord
    <3>4. IsBranch(new) /\ Last(new)
      BY <2>1, <3>3 DEF IsBranch, Last, Successors
    <3>5. Complete' /\ n' > 0 /\ TraceEntry'[n' - 1] = new
      BY <1>2, <2>1, <3>1, <3>2, <3>4, BranchDone
    <3>. QED
      BY <2>1, <3>1, <3>4, <3>5 DEF TraceInv, InBranch
  <2>. QED
    BY <2>2, <2>3
<1>16. CASE Ended
  <2>1. ~InBranch'
    BY <1>16 DEF Ended, InBranch
  <2>. QED
    BY <1>9, <1>16, <2>1 DEF Ended, Alive
<1>17. CASE Commanded
  <2>1. ~InBranch' /\ vms # <<>> /\ vms' # <<>> /\ Keeps
    BY <1>3, <1>17 DEF Commanded, InBranch, Sound
  <2>2. CASE TraceEntryCount' = 0
    BY <2>1, <2>2 DEF TraceInv, Complete
  <2>3. CASE UNCHANGED trace
    BY <1>9, <2>1, <2>3
  <2>. QED
    BY <1>17, <2>2, <2>3 DEF Commanded
<1>18. CASE UNCHANGED <<vms, trace>>
  BY <1>2, <1>5, <1>18 DEF TraceInv, InBranch, Top
<1>19. CASE VmStep
  BY <1>1, <1>7, <1>8, <1>10, <1>11, <1>12, <1>13, <1>14, <1>15, <1>16, <1>19, Effects
<1>20. CASE Command
  BY <1>1, <1>17, <1>20, CommandEffects
<1>. QED
  BY <1>18, <1>19, <1>20 DEF Next, BreakEventFunc, vars

LEMMA BaseInit == Init => BaseInv /\ TraceInv
<1>. SUFFICES ASSUME Init PROVE BaseInv /\ TraceInv
  OBVIOUS
<1>1. HookType
  BY HookTypeInit
<1>2. vms = <<>> /\ TraceEntryCount = 0
  BY DEF Init
<1>. QED
  BY <1>1, <1>2 DEF BaseInv, TraceInv, Complete, InBranch

\* In a program of one context the open entry of the trace is about the branch
\* that is under way, whatever sessions were held: the assertion of
\* PushTraceDestEntry does not fail.
THEOREM TraceAgrees ==
  ASSUME Uses = {}
  PROVE  Spec => []TraceTypeAgrees
<1>1. BaseInv /\ TraceInv => TraceTypeAgrees
  BY DEF TraceInv, TraceTypeAgrees, InBranch, At
<1>2. BaseInv /\ TraceInv /\ [Next]_vars => (BaseInv /\ TraceInv)'
  BY BaseKept, TraceKept
<1>. QED
  BY <1>1, <1>2, BaseInit, PTL DEF Spec

\* In a program of one context the trace is a path through the program, for
\* every program and every capacity of the trace.
THEOREM TracePath ==
  ASSUME Uses = {}
  PROVE  Spec => []TraceIsPath
<1>1. BaseInv /\ TraceInv => TraceIsPath
  <2>. SUFFICES ASSUME BaseInv, TraceInv, plain, NEW i \in 0..TraceEntryCount - 1
                PROVE  /\ IsBranch(TraceEntry[i])
                       /\ i + 1 < TraceEntryCount =>
                            Follows(TraceEntry[i], TraceEntry[i + 1].Source)
    BY DEF TraceIsPath
  <2>1. TraceEntryCount \in Nat
    BY DEF BaseInv, HookType, TraceOK
  <2>2. i + 1 < TraceEntryCount => i \in 0..TraceEntryCount - 2
    BY <2>1
  <2>. QED
    BY <2>2 DEF TraceInv, Complete
<1>2. BaseInv /\ TraceInv /\ [Next]_vars => (BaseInv /\ TraceInv)'
  BY BaseKept, TraceKept
<1>. QED
  BY <1>1, <1>2, BaseInit, PTL DEF Spec

-----------------------------------------------------------------------------
(***************************************************************************)
(* Step over and step out.                                                 *)
(***************************************************************************)
\* The frame pointer at this depth, where there is one context.
Fp(n) == IF n > 0 THEN <<1, n>> ELSE <<0, 0>>

AskedOK == asked \in [Kind : {"none", "over", "out"}, Live : BOOLEAN,
                      Alone : BOOLEAN, Frame : Int \X Int, Ret : Int \X Int]

\* A step over is to be recorded by the CALL that is executed next.
OverToCome ==
  /\ FeatureFlags \cap Requests = {"STEPOVER"} /\ StepContext = NoStep
  /\ vms # <<>> /\ ~Top.Stop /\ Top.At \notin {"end", "done"}
  /\ Executing("CALL") /\ asked.Kind = "over"
  /\ asked.Ret = Code(Following(Top.Ip)) /\ asked.Frame = Fp(Depth)

\* A step out is to be recorded at the end of this instruction.
OutToCome ==
  /\ FeatureFlags \cap Requests = {"STEPOUT"} /\ StepContext = NoStep
  /\ vms # <<>> /\ ~Top.Stop /\ Top.At # "done"
  /\ Executing("RET") => Top.At = "end"
  /\ asked.Kind = "out" /\ asked.Frame = Fp(Depth - 1)

\* A step over ends when the call has returned to the frame of depth n.
OverRecorded(n) ==
  /\ FeatureFlags \cap Requests = {}
  /\ n > 0 /\ asked.Kind = "over" /\ asked.Frame = Fp(n)
  /\ \E a \in Addr : asked.Ret = Code(a)
  /\ StepContext = [BreakAddress |-> asked.Ret, FramePointer |-> asked.Frame]
  /\ asked.Live =>
       /\ vms # <<>>
       /\ \/ /\ Depth > n
             /\ asked.Ret = Code(Following(Top.Frames[n + 1].Source))
          \/ /\ Depth = n /\ Top.At \in {"end", "stack", "start"}
             /\ asked.Ret = Code(Top.Ip)

\* A step out ends when the frame of depth n + 1 has returned.
OutRecorded(n) ==
  /\ FeatureFlags \cap Requests = {}
  /\ asked.Kind = "out" /\ asked.Frame = Fp(n)
  /\ StepContext.BreakAddress = asked.Frame
  /\ asked.Live /\ n > 0 =>
       /\ vms # <<>>
       /\ Depth > n \/ (Depth = n /\ Top.At \in {"end", "stack", "start"})

Forgotten == /\ FeatureFlags \cap Requests = {} /\ StepContext = NoStep
             /\ ~asked.Live

RequestOK == asked.Alone => \/ Forgotten \/ OverToCome \/ OutToCome
                            \/ \E n \in Nat : OverRecorded(n) \/ OutRecorded(n)
StatusOK == ~AtPrompt => StatusFlags \notin Requests
LiveOK == asked.Live => ~AtPrompt

StepInv ==
  plain => AskedOK /\ StatusOK /\ LiveOK /\ RequestOK /\ StepStopsWhereAsked

-----------------------------------------------------------------------------
\* Frame pointers and code addresses are never the same.
LEMMA Pointers ==
  /\ \A m, n \in Nat : Fp(m) = Fp(n) => m = n
  /\ \A n \in Nat, a \in Addr : Fp(n) # Code(a)
  /\ \A a, b \in Addr : Code(a) = Code(b) => a = b
  /\ \A a \in Addr : Code(a) # NoAddress
  /\ \A n \in Nat \ {0} : Fp(n) # NoAddress
BY ProgramType DEF Fp, Code, NoAddress

LEMMA FramePointers ==
  ASSUME Len(vms) = 1
  PROVE  /\ \A n : FramePtrAt(n) = Fp(n)
         /\ FramePtr = Fp(Depth)
BY DEF FramePtrAt, FramePtr, Fp, Depth, NoAddress

\* Something follows an instruction that is not the last one, a RET.
LEMMA FollowingOther ==
  ASSUME NEW a \in Addr, Program[a].Op # "RET"
  PROVE  Following(a) # a
<1>1. Program[Len(Program)].Op = "RET" /\ Addr = 1..Len(Program)
  BY ProgramAssumption DEF Addr
<1>2. Len(Program) \in Nat
  BY ProgramAssumption
<1>3. a # Len(Program)
  BY <1>1
<1>. QED
  BY <1>1, <1>2, <1>3 DEF Following

\* Where the context is, and how deep.
LEMMA Place1 ==
  ASSUME BaseInv, plain, vms # <<>>
  PROVE  /\ Len(vms) = 1 /\ Top.Ip \in Addr /\ Depth \in Nat /\ Sound(Top)
         /\ ~Top.Stop => Depth > 0
         /\ Top.Stop => Depth = 0
         /\ FramePtr = Fp(Depth)
         /\ \A n : FramePtrAt(n) = Fp(n)
<1>1. /\ ContextsOK /\ Len(vms) = 1 /\ Sound(Top)
  BY OneContext DEF BaseInv, HookType
<1>2. Top \in GoodContext /\ Top.Frames \in Seq(Frame) /\ Top.Ip \in Addr
  BY <1>1, TopGood
<1>3. ~Top.Stop => Top.Frames # <<>>
  BY <1>2 DEF GoodContext
<1>4. Depth \in Nat /\ (Top.Frames # <<>> => Depth > 0)
      /\ (Top.Frames = <<>> => Depth = 0)
  BY <1>2 DEF Depth
<1>. QED
  BY <1>1, <1>2, <1>3, <1>4, FramePointers DEF Sound

-----------------------------------------------------------------------------
(* The steps keep what is true of the requests.                             *)

\* Sessions, and what they show.
LEMMA SessionsKept ==
  ASSUME BaseInv, BaseInv', StepInv, Uses = {}, plain, plain', VmStep
  PROVE  AskedOK' /\ StatusOK' /\ LiveOK'
<1>1. /\ AskedOK /\ StatusOK /\ LiveOK
      /\ vms # <<>> => Sound(Top)
  BY DEF StepInv, BaseInv
<1>2. ASSUME UNCHANGED asked PROVE AskedOK'
  BY <1>1, <1>2 DEF AskedOK
<1>3. ASSUME Stopped PROVE AskedOK' /\ ~asked'.Live
  BY <1>1, <1>3 DEF AskedOK, Stopped
<1>4. ASSUME Quiet, ~AtPrompt PROVE AskedOK' /\ StatusOK' /\ LiveOK'
  <2>1. ~AtPrompt' /\ UNCHANGED <<asked, StatusFlags>>
    BY <1>4 DEF Quiet, AtPrompt, Top
  <2>. QED
    BY <1>1, <1>2, <1>4, <2>1 DEF StatusOK, LiveOK
<1>5. ASSUME Stopped, vms' # <<>> PROVE AskedOK' /\ StatusOK' /\ LiveOK'
  <2>1. AtPrompt'
    BY <1>5 DEF Stopped, AtPrompt, Top
  <2>. QED
    BY <1>3, <1>5, <2>1 DEF StatusOK, LiveOK
<1>6. CASE Started
  BY <1>4, <1>5, <1>6 DEF Started, AtPrompt
<1>7. CASE Left
  <2>1. ~AtPrompt /\ ~AtPrompt' /\ UNCHANGED <<asked, StatusFlags>>
    BY <1>1, <1>7 DEF Left, Sound, AtPrompt
  <2>. QED
    BY <1>1, <1>2, <2>1 DEF StatusOK, LiveOK
<1>8. CASE Passed
  BY <1>4, <1>5, <1>8 DEF Passed, Alive, AtPrompt, Hit, GotThere, Unhit, Onward
<1>9. CASE Opened
  BY <1>4, <1>9 DEF Opened, Alive, AtPrompt
<1>10. CASE Ran \/ Jumped \/ Called \/ Returned
  BY <1>4, <1>10 DEF Ran, Jumped, Called, Returned, Executed, Alive, AtPrompt
<1>11. CASE Ended
  BY <1>4, <1>5, <1>11 DEF Ended, Alive, AtPrompt
<1>. QED
  BY <1>6, <1>7, <1>8, <1>9, <1>10, <1>11, Effects DEF BaseInv

\* A step stops the program only where it was asked to.
LEMMA HitsAreAsked ==
  ASSUME BaseInv, StepInv, plain, Hit, Alive, asked.Alone
  PROVE  /\ FeatureFlags \cap Requests = {}
         /\ IF StepOverHit
            THEN asked.Kind = "over" /\ Code(Top.Ip) = asked.Ret
                 /\ FramePtr = asked.Frame
            ELSE asked.Kind = "out" /\ FramePtr = asked.Frame
<1>1. /\ Top.Ip \in Addr /\ Depth \in Nat \ {0} /\ FramePtr = Fp(Depth)
  BY Place1, TopGood DEF BaseInv, HookType, Alive, Hit, Depth
<1>2. StepOverHit \/ (~StepOverHit /\ StepContext.BreakAddress = Fp(Depth))
  BY <1>1 DEF Hit, StepOutHit
<1>3. StepContext # NoStep
  BY <1>1, <1>2, Pointers DEF StepOverHit, NoStep
<1>4. PICK n \in Nat : OverRecorded(n) \/ OutRecorded(n)
  BY <1>3 DEF StepInv, RequestOK, Forgotten, OverToCome, OutToCome
<1>5. CASE OverRecorded(n)
  <2>1. /\ StepContext.BreakAddress = asked.Ret
        /\ StepContext.FramePointer = asked.Frame
        /\ FeatureFlags \cap Requests = {} /\ asked.Kind = "over"
    BY <1>5 DEF OverRecorded
  <2>2. StepContext.BreakAddress # Fp(Depth)
    BY <1>1, <1>5, <2>1, Pointers DEF OverRecorded
  <2>. QED
    BY <1>2, <2>1, <2>2 DEF StepOverHit
<1>6. CASE OutRecorded(n)
  <2>1. /\ StepContext.BreakAddress = asked.Frame /\ asked.Frame = Fp(n)
        /\ FeatureFlags \cap Requests = {} /\ asked.Kind = "out"
    BY <1>6 DEF OutRecorded
  <2>2. ~StepOverHit
    BY <1>1, <2>1, Pointers DEF StepOverHit
  <2>. QED
    BY <1>1, <1>2, <2>1, <2>2
<1>. QED
  BY <1>4, <1>5, <1>6

LEMMA StopsKept ==
  ASSUME BaseInv, BaseInv', StepInv, Uses = {}, plain, plain', VmStep
  PROVE  StepStopsWhereAsked'
<1>. SUFFICES ASSUME AtPrompt', asked'.Alone, StatusFlags' \in Requests
              PROVE  /\ StatusFlags' = "STEPOVER" =>
                          /\ asked'.Kind = "over"
                          /\ Code(Top'.Ip) = asked'.Ret /\ FramePtr' = asked'.Frame
                     /\ StatusFlags' = "STEPOUT" =>
                          asked'.Kind = "out" /\ FramePtr' = asked'.Frame
  BY DEF StepStopsWhereAsked, Requests, Top
<1>1. AskedOK /\ StatusOK
  BY DEF StepInv
<1>2. Hit /\ Alive /\ Keeps
  <2>1. ~Quiet
    BY DEF Quiet, AtPrompt, Top
  <2>2. StatusFlags' # "GT" /\ ~(StatusFlags' \in {"BOC", "BOCX", "BOR", "BOE", "BOT"})
    BY DEF Requests
  <2>3. ~(~AtPrompt /\ UNCHANGED StatusFlags)
    BY <1>1 DEF StatusOK
  <2>4. vms' # <<>>
    BY DEF AtPrompt
  <2>5. Alive => ~AtPrompt
    BY DEF Alive, AtPrompt
  <2>6. Started \/ Left \/ Passed \/ Ended
    BY <2>1, Effects DEF BaseInv, Opened, Ran, Jumped, Called, Returned, Executed
  <2>. QED
    BY <2>1, <2>2, <2>3, <2>4, <2>5, <2>6 DEF Started, Left, Passed, Ended,
       GotThere, Unhit, Onward
<1>3. /\ asked'.Alone = asked.Alone /\ asked'.Kind = asked.Kind
      /\ asked'.Ret = asked.Ret /\ asked'.Frame = asked.Frame
      /\ StatusFlags' = IF StepOverHit THEN "STEPOVER" ELSE "STEPOUT"
  BY <1>1, <1>2 DEF Hit, Stopped, AskedOK
<1>4. Top'.Ip = Top.Ip /\ FramePtr' = FramePtr
  <2>1. Len(vms) = 1 /\ Len(vms') = 1 /\ Top'.Frames = Top.Frames /\ Top'.Ip = Top.Ip
    BY <1>2 DEF Alive, Keeps
  <2>. QED
    BY <2>1 DEF FramePtr, FramePtrAt, Top
<1>. QED
  BY <1>2, <1>3, <1>4, HitsAreAsked DEF BaseInv

\* What is to come or recorded stays so while the place of the context changes,
\* unless the place is the one asked for.
LEMMA RequestPassed ==
  ASSUME BaseInv, StepInv, plain, Alive, Keeps, UNCHANGED FeatureFlags,
         asked.Alone, AskedOK,
         asked' = asked \/ asked' = [asked EXCEPT !.Live = FALSE],
         StepContext' = StepContext,
         Top.At # "end", Top'.At \notin {"end", "done"} \/ Top.Stop,
         asked'.Live => (Top.At = "start" => ~StepOverHit /\ ~StepOutHit)
                        /\ (Top.At = "stack" => Top'.At = "start" \/ Top.Stop)
  PROVE  RequestOK'
<1>1. /\ Top.Ip \in Addr /\ Depth \in Nat /\ FramePtr = Fp(Depth)
      /\ Top'.Ip = Top.Ip /\ Depth' = Depth /\ Top'.Frames = Top.Frames
      /\ Top'.Stop = Top.Stop /\ vms # <<>> /\ vms' # <<>>
      /\ (Top.Stop => Depth = 0)
      /\ \A op : Executing(op)' = Executing(op)
  BY Place1 DEF BaseInv, Alive, Keeps, Depth, Executing
<1>2. /\ asked'.Alone = asked.Alone /\ asked'.Kind = asked.Kind
      /\ asked'.Ret = asked.Ret /\ asked'.Frame = asked.Frame
      /\ asked'.Live => asked.Live
  BY DEF AskedOK
<1>3. CASE Forgotten
  BY <1>2, <1>3 DEF Forgotten, RequestOK
<1>4. CASE OverToCome
  <2>1. OverToCome'
    BY <1>1, <1>2, <1>4 DEF OverToCome
  <2>. QED
    BY <2>1 DEF RequestOK
<1>5. CASE OutToCome
  <2>1. OutToCome'
    BY <1>1, <1>2, <1>5 DEF OutToCome
  <2>. QED
    BY <2>1 DEF RequestOK
<1>6. ASSUME NEW n \in Nat, OverRecorded(n) PROVE OverRecorded(n)'
  <2>1. ASSUME asked'.Live, Depth = n, Top.At \in {"end", "stack", "start"},
               asked.Ret = Code(Top.Ip)
        PROVE  Top'.At = "start"
    <3>1. FramePtr = asked.Frame /\ StepContext.BreakAddress = Code(Top.Ip)
          /\ StepContext.FramePointer = FramePtr /\ n > 0
      BY <1>1, <1>6, <2>1 DEF OverRecorded
    <3>. QED
      BY <1>1, <2>1, <3>1 DEF StepOverHit
  <2>. QED
    BY <1>1, <1>2, <1>6, <2>1 DEF OverRecorded
<1>7. ASSUME NEW n \in Nat, OutRecorded(n) PROVE OutRecorded(n)'
  <2>1. ASSUME asked'.Live, n > 0, Depth = n, Top.At \in {"end", "stack", "start"}
        PROVE  Top'.At = "start"
    <3>1. StepContext.BreakAddress = FramePtr
      BY <1>1, <1>7, <2>1 DEF OutRecorded
    <3>. QED
      BY <1>1, <2>1, <3>1 DEF StepOutHit
  <2>. QED
    BY <1>1, <1>2, <1>7, <2>1 DEF OutRecorded
<1>. QED
  BY <1>3, <1>4, <1>5, <1>6, <1>7 DEF StepInv, RequestOK

\* CALL records the step that is to come, and goes deeper than a recorded one.
LEMMA CallRecords ==
  ASSUME BaseInv, BaseInv', StepInv, plain, plain', Called
  PROVE  RequestOK'
<1>1. /\ UNCHANGED asked /\ vms # <<>> /\ vms' # <<>> /\ Len(vms') = 1
      /\ ~Top.Stop /\ Top.At = "mid" /\ Top'.At = "end" /\ Executing("CALL")
      /\ Program[Top.Ip].Op = "CALL"
      /\ Top'.Frames = Append(Top.Frames, [Source |-> Top.Ip, Dest |-> Top'.Ip])
  BY DEF Called, Executed, Alive, Quiet, Executing, BaseInv, Sound
<1>. PICK d \in Nat \ {0} : d = Depth
  BY <1>1, Place1
<1>2. /\ Top.Ip \in Addr /\ FramePtr = Fp(d) /\ FramePtrAt(Depth - 1) = Fp(d - 1)
      /\ Following(Top.Ip) \in Addr /\ Top'.Ip \in Addr
  <2>1. Top.Ip \in Addr /\ FramePtr = Fp(d) /\ FramePtrAt(d - 1) = Fp(d - 1)
    BY <1>1, Place1
  <2>2. Following(Top.Ip) \in Addr /\ Program[Top.Ip].Target \in Addr
    BY <2>1, ProgramType
  <2>. QED
    BY <2>1, <2>2 DEF Called
<1>3. /\ Depth' = d + 1
      /\ Top'.Frames[d + 1].Source = Top.Ip
      /\ \A n \in 1..d : Top'.Frames[n] = Top.Frames[n]
  BY <1>1, <1>2, CallFrames DEF Depth, BaseInv, HookType
<1>4. /\ StepContext' =
           IF "STEPOUT" \in FeatureFlags
           THEN [BreakAddress |-> Fp(d - 1), FramePointer |-> Fp(d)]
           ELSE IF "STEPOVER" \in FeatureFlags
           THEN [BreakAddress |-> Code(Following(Top.Ip)), FramePointer |-> Fp(d)]
           ELSE StepContext
      /\ FeatureFlags' \cap Requests = {}
  BY <1>2 DEF Called, PushStepEntry, Requests
<1>5. CASE OverToCome
  <2>1. "STEPOVER" \in FeatureFlags /\ "STEPOUT" \notin FeatureFlags
    BY <1>5 DEF OverToCome, Requests
  <2>2. StepContext' = [BreakAddress |-> asked.Ret, FramePointer |-> asked.Frame]
    BY <1>4, <1>5, <2>1 DEF OverToCome
  <2>3. /\ asked.Kind = "over" /\ asked.Frame = Fp(d)
        /\ asked.Ret = Code(Following(Top.Ip))
    BY <1>5 DEF OverToCome
  <2>4. Depth' > d /\ asked.Ret = Code(Following(Top'.Frames[d + 1].Source))
    <3>1. Depth' > d
      BY <1>3
    <3>. QED
      BY <1>3, <2>3, <3>1
  <2>5. OverRecorded(d)'
    <3>1. UNCHANGED asked /\ vms' # <<>> /\ FeatureFlags' \cap Requests = {}
      BY <1>1, <1>4
    <3>2. \E a \in Addr : asked.Ret = Code(a)
      BY <1>2, <2>3
    <3>. QED
      BY <2>2, <2>3, <2>4, <3>1, <3>2 DEF OverRecorded
  <2>. QED
    BY <2>5 DEF RequestOK
<1>6. CASE OutToCome
  <2>1. "STEPOUT" \in FeatureFlags
    BY <1>6 DEF OutToCome, Requests
  <2>2. OutRecorded(d - 1)'
    BY <1>1, <1>2, <1>3, <1>4, <1>6, <2>1 DEF OutToCome, OutRecorded
  <2>. QED
    BY <1>2, <2>2 DEF RequestOK
<1>7. FeatureFlags \cap Requests = {} => StepContext' = StepContext
  BY <1>4 DEF Requests
<1>8. CASE Forgotten
  BY <1>1, <1>4, <1>7, <1>8 DEF Forgotten, RequestOK
<1>9. ASSUME NEW n \in Nat, OverRecorded(n) PROVE OverRecorded(n)'
  <2>1. ASSUME asked.Live
        PROVE  Depth' > n /\ asked.Ret = Code(Following(Top'.Frames[n + 1].Source))
    <3>1. d > n /\ asked.Ret = Code(Following(Top.Frames[n + 1].Source))
      BY <1>1, <1>9, <2>1 DEF OverRecorded
    <3>2. n + 1 \in 1..d
      BY <3>1
    <3>3. Top'.Frames[n + 1] = Top.Frames[n + 1]
      BY <1>3, <3>2
    <3>4. Depth' > n
      BY <1>3, <3>1
    <3>. QED
      BY <3>1, <3>3, <3>4
  <2>2. UNCHANGED <<asked, StepContext>> /\ FeatureFlags' \cap Requests = {}
        /\ vms' # <<>>
    BY <1>1, <1>4, <1>7, <1>9 DEF OverRecorded
  <2>. QED
    BY <1>9, <2>1, <2>2 DEF OverRecorded
<1>10. ASSUME NEW n \in Nat, OutRecorded(n) PROVE OutRecorded(n)'
  BY <1>1, <1>2, <1>3, <1>4, <1>7, <1>10 DEF OutRecorded
<1>. QED
  BY <1>1, <1>5, <1>6, <1>8, <1>9, <1>10 DEF StepInv, RequestOK

\* RET gets back to the place of a step over, or to the frame of a step out.
LEMMA ReturnGetsThere ==
  ASSUME BaseInv, BaseInv', StepInv, plain, plain', Returned
  PROVE  RequestOK'
<1>1. /\ UNCHANGED <<asked, StepContext, FeatureFlags>>
      /\ vms # <<>> /\ vms' # <<>>
      /\ ~Top.Stop /\ Top.At = "mid" /\ Top'.At = "end" /\ Executing("RET")
      /\ ~Executing("CALL")
      /\ Depth # 1 => Top'.Ip = Following(Top.Frames[Depth].Source)
      /\ Top'.Frames = SubSeq(Top.Frames, 1, Depth - 1)
  BY DEF Returned, Executed, Alive, Quiet, Executing, BaseInv, Sound
<1>2. /\ Depth \in Nat \ {0} /\ Depth' = Depth - 1
      /\ \A n \in 1..Depth - 1 : Top'.Frames[n] = Top.Frames[n]
  <2>1. Depth \in Nat \ {0}
    BY <1>1, Place1
  <2>. QED
    BY <1>1, <2>1, ReturnFrames DEF Depth, BaseInv, HookType
<1>3. ~OverToCome /\ ~OutToCome
  BY <1>1 DEF OverToCome, OutToCome
<1>4. Forgotten => Forgotten'
  BY <1>1 DEF Forgotten
<1>5. ASSUME NEW n \in Nat, OverRecorded(n) PROVE OverRecorded(n)'
  <2>1. ASSUME asked.Live
        PROVE  \/ /\ Depth' > n
                  /\ asked.Ret = Code(Following(Top'.Frames[n + 1].Source))
               \/ Depth' = n /\ asked.Ret = Code(Top'.Ip)
    <3>1. n > 0 /\ Depth > n /\ asked.Ret = Code(Following(Top.Frames[n + 1].Source))
      BY <1>1, <1>5, <2>1 DEF OverRecorded
    <3>2. CASE Depth = n + 1
      BY <1>1, <1>2, <3>1, <3>2
    <3>3. CASE Depth # n + 1
      <4>1. n + 1 \in 1..Depth - 1
        BY <1>2, <3>1, <3>3
      <4>. QED
        BY <1>2, <3>1, <4>1
    <3>. QED
      BY <3>2, <3>3
  <2>. QED
    BY <1>1, <1>5, <2>1 DEF OverRecorded
<1>6. ASSUME NEW n \in Nat, OutRecorded(n) PROVE OutRecorded(n)'
  BY <1>1, <1>2, <1>6 DEF OutRecorded
<1>. QED
  BY <1>1, <1>3, <1>4, <1>5, <1>6 DEF StepInv, RequestOK

\* The end of an instruction records a step out that is to come.
LEMMA EndRecords ==
  ASSUME BaseInv, BaseInv', StepInv, plain, plain', Ended
  PROVE  RequestOK'
<1>1. /\ vms # <<>> /\ vms' # <<>> /\ Top.At = "end" /\ Top'.At = "stack"
      /\ Depth' = Depth /\ Top'.Frames = Top.Frames /\ Top'.Ip = Top.Ip
      /\ FeatureFlags' = FeatureFlags \ {"STEPOUT"}
  BY DEF Ended, Alive, Keeps, Depth
<1>. PICK d \in Nat : d = Depth
  BY <1>1, Place1
<1>2. /\ (~Top.Stop => d > 0) /\ FramePtr = Fp(d)
      /\ FramePtrAt(Depth - 1) = Fp(d - 1)
  BY <1>1, Place1
<1>3. StepContext' = IF "STEPOUT" \in FeatureFlags
                     THEN [BreakAddress |-> Fp(d - 1), FramePointer |-> Fp(d)]
                     ELSE StepContext
  BY <1>2 DEF Ended
<1>4. /\ asked'.Alone = asked.Alone /\ asked'.Kind = asked.Kind
      /\ asked'.Ret = asked.Ret /\ asked'.Frame = asked.Frame
      /\ asked'.Live => asked.Live
  <2>1. AskedOK
    BY DEF StepInv
  <2>. QED
    BY <2>1 DEF Ended, Quiet, Stopped, AskedOK
<1>5. FeatureFlags \cap Requests = {} => StepContext' = StepContext
                                          /\ FeatureFlags' \cap Requests = {}
  BY <1>1, <1>3 DEF Requests
<1>6. CASE OutToCome
  <2>1. "STEPOUT" \in FeatureFlags /\ FeatureFlags' \cap Requests = {}
    BY <1>1, <1>6 DEF OutToCome, Requests
  <2>2. OutRecorded(d - 1)'
    BY <1>1, <1>2, <1>3, <1>4, <1>6, <2>1 DEF OutToCome, OutRecorded
  <2>3. d - 1 \in Nat
    BY <1>2, <1>6 DEF OutToCome
  <2>. QED
    BY <2>2, <2>3 DEF RequestOK
<1>7. ~OverToCome /\ (Forgotten => Forgotten')
  BY <1>1, <1>4, <1>5 DEF OverToCome, Forgotten
<1>8. ASSUME NEW n \in Nat, OverRecorded(n) PROVE OverRecorded(n)'
  BY <1>1, <1>4, <1>5, <1>8 DEF OverRecorded
<1>9. ASSUME NEW n \in Nat, OutRecorded(n) PROVE OutRecorded(n)'
  BY <1>1, <1>4, <1>5, <1>9 DEF OutRecorded
<1>. QED
  BY <1>4, <1>6, <1>7, <1>8, <1>9 DEF StepInv, RequestOK

LEMMA RequestsKept ==
  ASSUME BaseInv, BaseInv', StepInv, Uses = {}, plain, plain', VmStep
  PROVE  RequestOK'
<1>1. AskedOK /\ (vms # <<>> => Sound(Top))
  BY DEF StepInv, BaseInv
<1>2. vms # <<>> =>
        /\ Len(vms) = 1 /\ Top.Ip \in Addr /\ Depth \in Nat
        /\ ~Top.Stop => Depth > 0
        /\ Top.Stop => Depth = 0
        /\ FramePtr = Fp(Depth)
        /\ \A n : FramePtrAt(n) = Fp(n)
  BY Place1
<1>3. asked' = asked \/ asked' = [asked EXCEPT !.Live = FALSE]
      => /\ asked'.Alone = asked.Alone /\ asked'.Kind = asked.Kind
         /\ asked'.Ret = asked.Ret /\ asked'.Frame = asked.Frame
         /\ asked'.Live => asked.Live
  BY <1>1 DEF AskedOK
<1>4. CASE Passed
  <2>1. asked' = asked \/ asked' = [asked EXCEPT !.Live = FALSE]
    BY <1>4 DEF Passed, Hit, GotThere, Unhit, Onward, Quiet, Stopped
  <2>. SUFFICES ASSUME asked.Alone PROVE RequestOK'
    BY <1>3, <2>1 DEF RequestOK
  <2>2. CASE Hit
    <3>1. FeatureFlags \cap Requests = {}
      BY <1>4, <2>2, HitsAreAsked DEF Passed
    <3>2. FeatureFlags' = FeatureFlags /\ StepContext' = NoStep /\ ~asked'.Live
      BY <1>1, <1>4, <2>2 DEF Passed, Hit, Stopped, AskedOK
    <3>. QED
      BY <3>1, <3>2 DEF RequestOK, Forgotten
  <2>3. CASE GotThere
    BY <1>1, <1>4, <2>1, <2>3, RequestPassed DEF Passed, GotThere, Stopped, AskedOK
  <2>4. CASE Unhit
    BY <1>1, <1>4, <2>1, <2>4, RequestPassed DEF Passed, Unhit
  <2>5. CASE Onward
    BY <1>1, <1>4, <2>1, <2>5, RequestPassed DEF Passed, Onward
  <2>. QED
    BY <1>4, <2>2, <2>3, <2>4, <2>5 DEF Passed
<1>5. CASE Opened
  <2>1. UNCHANGED asked
    BY <1>5 DEF Opened, Quiet
  <2>. SUFFICES ASSUME asked.Alone PROVE RequestOK'
    BY <2>1 DEF RequestOK
  <2>2. OutToCome => ~Executing("RET")
    BY <1>5 DEF Opened, OutToCome
  <2>. QED
    BY <1>1, <1>5, <2>1, RequestPassed DEF Opened
<1>6. CASE Started \/ Left
  <2>1. /\ asked' = asked \/ asked' = [asked EXCEPT !.Live = FALSE]
        /\ UNCHANGED <<StepContext, FeatureFlags>>
    BY <1>6 DEF Started, Left, Quiet, Stopped
  <2>2. vms = <<>> \/ (Top.Stop /\ Top.At = "done" /\ Depth = 0)
    BY <1>1, <1>2, <1>6 DEF Started, Left, Sound
  <2>3. Forgotten => Forgotten'
    BY <1>3, <2>1 DEF Forgotten
  <2>4. ~OverToCome /\ ~OutToCome
    BY <2>2 DEF OverToCome, OutToCome
  <2>5. ASSUME NEW n \in Nat, OverRecorded(n) PROVE OverRecorded(n)'
    BY <1>3, <2>1, <2>2, <2>5 DEF OverRecorded
  <2>6. ASSUME NEW n \in Nat, OutRecorded(n) PROVE OutRecorded(n)'
    BY <1>3, <2>1, <2>2, <2>6 DEF OutRecorded
  <2>. QED
    BY <1>3, <2>1, <2>3, <2>4, <2>5, <2>6 DEF StepInv, RequestOK
\* An instruction is executed.
<1>7. ASSUME Executed
      PROVE  /\ UNCHANGED asked /\ vms # <<>> /\ vms' # <<>>
             /\ Depth \in Nat \ {0} /\ Len(vms') = 1
             /\ ~Top.Stop /\ Top.At \in {"fetch", "mid", "native"}
             /\ Top'.At = "end"
  BY <1>1, <1>2, <1>7 DEF Executed, Alive, Quiet, Sound
<1>8. CASE Ran \/ Jumped
  <2>1. /\ Executed /\ Depth' = Depth /\ Top'.Frames = Top.Frames
        /\ Top'.Stop = Top.Stop /\ UNCHANGED <<StepContext, FeatureFlags>>
        /\ ~Executing("CALL") /\ ~Executing("RET")
    BY <1>8 DEF Ran, Jumped, Depth, Executing
  <2>2. Forgotten => Forgotten'
    BY <1>7, <2>1 DEF Forgotten
  <2>3. ~OverToCome /\ (OutToCome => OutToCome')
    BY <1>7, <2>1 DEF OverToCome, OutToCome
  <2>4. ASSUME NEW n \in Nat, OverRecorded(n) PROVE OverRecorded(n)'
    BY <1>7, <2>1, <2>4 DEF OverRecorded
  <2>5. ASSUME NEW n \in Nat, OutRecorded(n) PROVE OutRecorded(n)'
    BY <1>7, <2>1, <2>5 DEF OutRecorded
  <2>. QED
    BY <1>7, <2>1, <2>2, <2>3, <2>4, <2>5 DEF StepInv, RequestOK
<1>9. CASE Called
  BY <1>9, CallRecords
<1>10. CASE Returned
  BY <1>10, ReturnGetsThere
<1>11. CASE Ended
  BY <1>11, EndRecords
<1>. QED
  BY <1>4, <1>5, <1>6, <1>8, <1>9, <1>10, <1>11, Effects DEF BaseInv

\* The commands: the ones that go on forget what was recorded, and a request
\* is about the instruction and the frame it is given at.
LEMMA CommandKept ==
  ASSUME BaseInv, BaseInv', StepInv, plain, plain', Commanded
  PROVE  AskedOK' /\ StatusOK' /\ LiveOK' /\ RequestOK' /\ StepStopsWhereAsked'
<1>1. /\ AskedOK /\ RequestOK /\ StepStopsWhereAsked /\ ~asked.Live
      /\ AtPrompt /\ vms # <<>> /\ vms' # <<>>
      /\ Top'.Ip = Top.Ip /\ Top'.Frames = Top.Frames /\ Top'.Stop = Top.Stop
      /\ Top'.At = Top.At /\ Depth' = Depth
      /\ Top.At \in {"start", "key", "fetch", "hooked", "stack"}
      /\ Top.Stop => Program[Top.Ip].Op = "RET"
  BY DEF StepInv, Commanded, Keeps, AtPrompt, LiveOK, Depth, BaseInv, Sound
<1>. PICK d \in Nat : d = Depth
  BY <1>1, Place1
<1>2. /\ Top.Ip \in Addr /\ FramePtr = Fp(d) /\ FramePtr' = FramePtr
      /\ ~Top.Stop => d > 0
      /\ FramePtrAt(Depth - 1) = Fp(d - 1)
  <2>1. FramePtr' = Fp(d)
    BY <1>1, Place1 DEF Commanded, FramePtr, FramePtrAt, Fp, Depth, NoAddress
  <2>. QED
    BY <1>1, <2>1, Place1
<1>3. CASE Stays
  <2>1. AtPrompt' /\ UNCHANGED <<asked, StatusFlags, StepContext>>
        /\ FeatureFlags' \cap Requests = FeatureFlags \cap Requests
    BY <1>1, <1>3 DEF Stays, AtPrompt, Top
  <2>2. RequestOK'
    BY <1>1, <2>1 DEF RequestOK, Forgotten, OverToCome, OutToCome, OverRecorded,
       OutRecorded, Executing
  <2>3. StepStopsWhereAsked'
    BY <1>1, <1>2, <2>1 DEF StepStopsWhereAsked
  <2>4. AskedOK'
    BY <1>1, <2>1 DEF AskedOK
  <2>. QED
    BY <1>1, <2>1, <2>2, <2>3, <2>4 DEF StatusOK, LiveOK
<1>4. ASSUME Leaves
      PROVE  StatusOK' /\ LiveOK' /\ StepStopsWhereAsked' /\ StepContext' = NoStep
  <2>1. ~AtPrompt' /\ StatusFlags' = "none" /\ StepContext' = NoStep
    BY <1>4 DEF Leaves, AtPrompt, Top
  <2>. QED
    BY <2>1 DEF StatusOK, LiveOK, StepStopsWhereAsked, Requests
<1>5. CASE Leaves /\ GoesOn
  <2>1. UNCHANGED asked /\ StepContext' = NoStep
    BY <1>4, <1>5 DEF GoesOn
  <2>2. ASSUME FeatureFlags' \cap Requests = {}
        PROVE  RequestOK'
    BY <1>1, <2>1, <2>2 DEF RequestOK, Forgotten
  <2>3. ASSUME FeatureFlags' \cap Requests = FeatureFlags \cap Requests
        PROVE  RequestOK'
    <3>1. OverToCome => OverToCome'
      BY <1>1, <2>1, <2>3 DEF OverToCome, Executing
    <3>2. OutToCome => OutToCome'
      BY <1>1, <2>1, <2>3 DEF OutToCome, Executing
    <3>3. FeatureFlags \cap Requests = {} => Forgotten'
      BY <1>1, <2>1, <2>3 DEF Forgotten
    <3>4. (\E n \in Nat : OverRecorded(n) \/ OutRecorded(n)) \/ Forgotten
          => FeatureFlags \cap Requests = {}
      BY DEF OverRecorded, OutRecorded, Forgotten
    <3>. QED
      BY <1>1, <2>1, <3>1, <3>2, <3>3, <3>4 DEF RequestOK
  <2>4. AskedOK'
    BY <1>1, <2>1 DEF AskedOK
  <2>5. RequestOK'
    BY <1>5, <2>2, <2>3 DEF GoesOn
  <2>. QED
    BY <1>4, <1>5, <2>4, <2>5
<1>6. Fp(d) \in Int \X Int /\ Fp(d - 1) \in Int \X Int /\ NoAddress \in Int \X Int
      /\ Code(Following(Top.Ip)) \in Int \X Int
  <2>1. Following(Top.Ip) \in Nat
    BY <1>2, ProgramType
  <2>. QED
    BY <2>1 DEF Fp, Code, NoAddress
<1>7. CASE Leaves /\ AsksOver
  <2>1. /\ Executing("CALL") /\ FeatureFlags' = FeatureFlags \cup {"STEPOVER"}
        /\ asked' = [Kind |-> "over", Live |-> TRUE, Alone |-> NonePending,
                     Frame |-> Fp(d), Ret |-> Code(Following(Top.Ip))]
    BY <1>2, <1>7 DEF AsksOver
  <2>2. AskedOK'
    BY <1>6, <2>1 DEF AskedOK, NonePending
  <2>3. asked'.Alone => OverToCome'
    <3>1. ~Top.Stop /\ Executing("CALL")'
      BY <1>1, <2>1 DEF Executing
    <3>2. NonePending => FeatureFlags' \cap Requests = {"STEPOVER"}
      BY <2>1 DEF NonePending, Requests
    <3>. QED
      BY <1>1, <1>4, <1>7, <2>1, <3>1, <3>2 DEF OverToCome
  <2>. QED
    BY <1>4, <1>7, <2>2, <2>3 DEF RequestOK
<1>8. CASE Leaves /\ AsksOut
  <2>1. /\ ~Executing("RET") /\ FeatureFlags' = FeatureFlags \cup {"STEPOUT"}
        /\ asked' = [Kind |-> "out", Live |-> TRUE, Alone |-> NonePending,
                     Frame |-> Fp(d - 1), Ret |-> NoAddress]
    BY <1>2, <1>8 DEF AsksOut
  <2>2. AskedOK'
    BY <1>6, <2>1 DEF AskedOK, NonePending
  <2>3. asked'.Alone => OutToCome'
    <3>1. ~Top.Stop /\ ~Executing("RET")'
      BY <1>1, <2>1 DEF Executing
    <3>2. NonePending => FeatureFlags' \cap Requests = {"STEPOUT"}
      BY <2>1 DEF NonePending, Requests
    <3>. QED
      BY <1>1, <1>4, <1>8, <2>1, <3>1, <3>2 DEF OutToCome
  <2>. QED
    BY <1>4, <1>8, <2>2, <2>3 DEF RequestOK
<1>. QED
  BY <1>3, <1>5, <1>7, <1>8 DEF Commanded

LEMMA StepKept ==
  ASSUME BaseInv, StepInv, Uses = {}, [Next]_vars
  PROVE  StepInv'
<1>. SUFFICES ASSUME plain'
              PROVE  AskedOK' /\ StatusOK' /\ LiveOK' /\ RequestOK'
                     /\ StepStopsWhereAsked'
  BY DEF StepInv
<1>1. plain /\ BaseInv'
  BY PlainKept, BaseKept
<1>2. CASE VmStep
  BY <1>1, <1>2, SessionsKept, RequestsKept, StopsKept
<1>3. CASE Command
  BY <1>1, <1>3, CommandEffects, CommandKept DEF BaseInv
<1>4. CASE BreakEventFunc \/ UNCHANGED vars
  <2>1. /\ UNCHANGED <<vms, StepContext, FeatureFlags, asked, plain>>
        /\ StatusFlags' = "BOK" \/ UNCHANGED StatusFlags
    BY <1>4 DEF BreakEventFunc, vars, history
  <2>2. AskedOK' /\ LiveOK'
    BY <1>1, <2>1 DEF StepInv, AskedOK, LiveOK, AtPrompt, Top
  <2>3. StatusOK' /\ StepStopsWhereAsked'
    BY <1>1, <2>1 DEF StepInv, StatusOK, StepStopsWhereAsked, AtPrompt, Top,
       FramePtr, FramePtrAt, Requests
  <2>4. RequestOK'
    BY <1>1, <2>1 DEF StepInv, RequestOK, Forgotten, OverToCome, OutToCome,
       OverRecorded, OutRecorded, Executing, Depth, Top
  <2>. QED
    BY <2>2, <2>3, <2>4
<1>. QED
  BY <1>2, <1>3, <1>4 DEF Next

LEMMA StepInit == Init => StepInv
<1>. SUFFICES ASSUME Init PROVE StepInv
  OBVIOUS
<1>1. /\ vms = <<>> /\ StatusFlags = "none"
      /\ asked = [Kind |-> "none", Live |-> FALSE, Alone |-> FALSE,
                  Frame |-> NoAddress, Ret |-> NoAddress]
  BY DEF Init
<1>2. ~AtPrompt
  BY <1>1 DEF AtPrompt
<1>. QED
  BY <1>1, <1>2 DEF StepInv, AskedOK, StatusOK, LiveOK, RequestOK, Requests,
     StepStopsWhereAsked, NoAddress

-----------------------------------------------------------------------------
LEMMA NotMissed ==
  ASSUME BaseInv, StepInv
  PROVE  StepNotMissed
<1>. SUFFICES ASSUME plain, asked.Live, asked.Alone, At("fetch"),
                     FramePtr = asked.Frame,
                     asked.Kind = "over" => Code(Top.Ip) = asked.Ret
              PROVE  FALSE
  BY DEF StepNotMissed, WhereAsked
<1>1. vms # <<>> /\ Top.At = "fetch" /\ RequestOK
  BY DEF At, StepInv
<1>2. /\ Top.Ip \in Addr /\ Depth \in Nat \ {0} /\ FramePtr = Fp(Depth)
  BY <1>1, Place1 DEF Sound
<1>3. ~Forgotten
  BY DEF Forgotten
<1>4. ~OverToCome
  <2>1. SUFFICES ASSUME OverToCome PROVE FALSE
    OBVIOUS
  <2>2. Code(Top.Ip) = Code(Following(Top.Ip)) /\ Program[Top.Ip].Op = "CALL"
    BY <2>1 DEF OverToCome, Executing
  <2>3. Following(Top.Ip) \in Addr /\ Following(Top.Ip) # Top.Ip
    BY <1>2, <2>2, FollowingOther, ProgramType
  <2>. QED
    BY <1>2, <2>2, <2>3, Pointers
<1>5. ~OutToCome
  <2>1. SUFFICES ASSUME OutToCome PROVE FALSE
    OBVIOUS
  <2>2. Fp(Depth - 1) = Fp(Depth)
    BY <1>2, <2>1 DEF OutToCome
  <2>3. Depth - 1 \in Nat /\ Depth - 1 # Depth
    BY <1>2
  <2>. QED
    BY <1>2, <2>2, <2>3, Pointers
<1>6. ASSUME NEW n \in Nat, OverRecorded(n) \/ OutRecorded(n) PROVE FALSE
  <2>1. Depth = n
    BY <1>2, <1>6, Pointers DEF OverRecorded, OutRecorded
  <2>. QED
    BY <1>1, <1>2, <1>6, <2>1 DEF OverRecorded, OutRecorded
<1>. QED
  BY <1>1, <1>3, <1>4, <1>5, <1>6 DEF RequestOK

\* In a program of one context a step over stops after its CALL, in the frame
\* it was given in, however deep the recursion, and a step out in the caller's
\* frame.
THEOREM StepStops ==
  ASSUME Uses = {}
  PROVE  Spec => []StepStopsWhereAsked
<1>1. BaseInv /\ StepInv /\ [Next]_vars => (BaseInv /\ StepInv)'
  BY BaseKept, StepKept
<1>2. Init => BaseInv /\ StepInv
  BY BaseInit, StepInit
<1>3. BaseInv /\ StepInv => StepStopsWhereAsked
  BY DEF StepInv, StepStopsWhereAsked
<1>. QED
  BY <1>1, <1>2, <1>3, PTL DEF Spec

\* In a program of one context no step over or step out misses the place it was
\* to stop at.
THEOREM StepMet ==
  ASSUME Uses = {}
  PROVE  Spec => []StepNotMissed
<1>1. BaseInv /\ StepInv /\ [Next]_vars => (BaseInv /\ StepInv)'
  BY BaseKept, StepKept
<1>2. Init => BaseInv /\ StepInv
  BY BaseInit, StepInit
<1>3. BaseInv /\ StepInv => StepNotMissed
  BY NotMissed
<1>. QED
  BY <1>1, <1>2, <1>3, PTL DEF Spec

-----------------------------------------------------------------------------
(* The call stack, for every nesting of VM contexts.                        *)

\* The first n entries are the newest of these frames.
AreNewest(entries, n, frames) ==
  LET rest == Len(frames) - n
  IN  /\ rest >= 0
      /\ \A i \in 1..n : entries[i - 1] = frames[rest + i]
Newest(frames) == AreNewest(CallStackEntry, CallStackEntryCount, frames)

\* The frames of a context that the call stack knows of: the hook before a RET
\* has already popped the newest one.
Shown(v) ==
  IF v.At = "mid" /\ Program[v.Ip].Op = "RET"
  THEN SubSeq(v.Frames, 1, Len(v.Frames) - 1)
  ELSE v.Frames

Before == FramesOf(SubSeq(vms, 1, Len(vms) - 1))
Held == IF vms = <<>> THEN <<>> ELSE Before \o Shown(Top)

\* While no fatal exception has ended a context: one that has stopped has
\* returned from all its frames, a session is never held between two hooks, and
\* the contexts below the running one wait in native code.
Settled(v) ==
  /\ v.Stop => v.Frames = <<>>
  /\ v.At = "done" => v.Stop
  /\ v.Prompt => v.At \in {"start", "key", "fetch", "hooked", "stack"}
  /\ v.At = "native" => Program[v.Ip].Op = "CALLEX"
Waiting ==
  /\ \A i \in 1..Len(vms) : Settled(vms[i])
  /\ \A i \in 1..Len(vms) - 1 : vms[i].At = "native" /\ ~vms[i].Prompt

\* The hook before a CALL has left its source in the slot after the last entry.
SlotOpened ==
  At("mid") /\ Executing("CALL") =>
    CallStackEntry[CallStackEntryCount].Source = Top.Ip

Entry == [Source : Addr \cup {0, Image, Thunk}, Dest : Addr \cup {0}]
EntryArray == [0..CallStackMax -> Entry]
EntriesOK == CallStackEntry \in EntryArray

CallInv == /\ HookType /\ EntriesOK
           /\ plain => Waiting /\ SlotOpened /\ Newest(Held)
-----------------------------------------------------------------------------
(* Induction over the natural numbers, by the least number left out.        *)

LEMMA NatBySet ==
  ASSUME NEW T, 0 \in T, \A n \in Nat : n \in T => n + 1 \in T
  PROVE  \A n \in Nat : n \in T
<1>. DEFINE R == {ss \in Nat \X Nat : ss[1] < ss[2]}
            S == Nat \ T
<1>1. IsWellFoundedOn(R, Nat)
  BY NatLessThanWellFounded DEF OpToRel
<1>2. SUFFICES ASSUME S # {} PROVE FALSE
  OBVIOUS
<1>3. PICK x \in S : \A y \in S : <<y, x>> \notin R
  <2>. HIDE DEF R, S
  <2>1. S \subseteq Nat
    BY DEF S
  <2>. QED
    BY <1>1, <1>2, <2>1, WFMin
<1>4. x # 0 /\ x \in Nat
  OBVIOUS
<1>5. x - 1 \in T
  <2>1. <<x - 1, x>> \in R
    BY <1>4
  <2>. QED
    BY <1>3, <1>4, <2>1
<1>. QED
  BY <1>4, <1>5

-----------------------------------------------------------------------------
(* The frames of a stack of contexts are those of all but the last one, and *)
(* then its own.                                                            *)

\* What the recursive function in FramesOf is, and that there is one.
Concat(g, contexts) ==
  g = [n \in 0..Len(contexts) |->
         IF n = 0 THEN <<>> ELSE g[n - 1] \o contexts[n].Frames]

LEMMA ConcatStep ==
  ASSUME NEW contexts, NEW g, Len(contexts) \in Nat, Concat(g, contexts)
  PROVE  /\ g[0] = <<>>
         /\ \A n \in 0..Len(contexts) - 1 :
              g[n + 1] = g[n] \o contexts[n + 1].Frames
<1>. DEFINE e(n) == IF n = 0 THEN <<>> ELSE g[n - 1] \o contexts[n].Frames
<1>1. g = [n \in 0..Len(contexts) |-> e(n)]
  BY DEF Concat
<1>. HIDE DEF e
<1>2. \A n \in 0..Len(contexts) : g[n] = e(n)
  BY <1>1
<1>3. g[0] = e(0)
  BY <1>2
<1>4. ASSUME NEW n \in 0..Len(contexts) - 1
      PROVE  g[n + 1] = e(n + 1) /\ n + 1 # 0 /\ (n + 1) - 1 = n
  BY <1>2
<1>. QED
  BY <1>3, <1>4 DEF e

LEMMA ConcatExists ==
  ASSUME NEW contexts, Len(contexts) \in Nat
  PROVE  \E g : Concat(g, contexts)
<1>. DEFINE h(n) == contexts[n].Frames
            P(N) == \E g : g = [n \in 0..N |->
                                IF n = 0 THEN <<>> ELSE g[n - 1] \o h(n)]
            T == {N \in Nat : P(N)}
<1>. HIDE DEF h
<1>1. 0 \in T
  <2>. DEFINE g == [n \in 0..0 |-> <<>>]
  <2>1. g = [n \in 0..0 |-> IF n = 0 THEN <<>> ELSE g[n - 1] \o h(n)]
    OBVIOUS
  <2>. HIDE DEF g
  <2>. QED
    BY <2>1
<1>2. ASSUME NEW N \in Nat, N \in T PROVE N + 1 \in T
  <2>1. PICK g : g = [n \in 0..N |-> IF n = 0 THEN <<>> ELSE g[n - 1] \o h(n)]
    BY <1>2
  <2>. DEFINE f == [n \in 0..N + 1 |-> IF n = N + 1 THEN g[N] \o h(N + 1) ELSE g[n]]
  <2>2. ASSUME NEW n \in 0..N + 1
        PROVE  f[n] = IF n = 0 THEN <<>> ELSE f[n - 1] \o h(n)
    <3>1. CASE n = N + 1
      BY <3>1
    <3>2. CASE n \in 0..N
      <4>1. f[n] = g[n]
        BY <3>2
      <4>2. g[n] = IF n = 0 THEN <<>> ELSE g[n - 1] \o h(n)
        <5>. DEFINE e(m) == IF m = 0 THEN <<>> ELSE g[m - 1] \o h(m)
        <5>1. g = [m \in 0..N |-> e(m)]
          BY <2>1
        <5>. HIDE DEF e
        <5>2. g[n] = e(n)
          BY <3>2, <5>1
        <5>. QED
          BY <5>2 DEF e
      <4>3. n # 0 => f[n - 1] = g[n - 1]
        BY <3>2
      <4>. QED
        BY <4>1, <4>2, <4>3
    <3>. QED
      BY <3>1, <3>2
  <2>3. f = [n \in 0..N + 1 |-> IF n = 0 THEN <<>> ELSE f[n - 1] \o h(n)]
    <3>1. f = [n \in 0..N + 1 |-> f[n]]
      OBVIOUS
    <3>. HIDE DEF f
    <3>. QED
      BY <2>2, <3>1
  <2>. HIDE DEF f
  <2>4. P(N + 1)
    BY <2>3
  <2>. HIDE DEF P
  <2>. QED
    BY <2>4
<1>. HIDE DEF T
<1>3. Len(contexts) \in T
  BY <1>1, <1>2, NatBySet
<1>. QED
  BY <1>3 DEF T, h, Concat

\* It depends on the frames of the contexts alone, and only up to where it is
\* applied.
LEMMA ConcatAgrees ==
  ASSUME NEW s, NEW t, NEW f, NEW g, NEW N \in Nat,
         Len(s) \in Nat, Len(t) \in Nat, N <= Len(s), N <= Len(t),
         Concat(f, s), Concat(g, t),
         \A n \in 1..N : s[n].Frames = t[n].Frames
  PROVE  f[N] = g[N]
<1>. DEFINE T == {n \in Nat : n <= N => f[n] = g[n]}
<1>1. 0 \in T
  BY ConcatStep
<1>2. ASSUME NEW n \in Nat, n \in T PROVE n + 1 \in T
  <2>. SUFFICES ASSUME n + 1 <= N PROVE f[n + 1] = g[n + 1]
    OBVIOUS
  <2>1. f[n] = g[n] /\ n + 1 \in 1..N /\ n \in 0..Len(s) - 1 /\ n \in 0..Len(t) - 1
    BY <1>2
  <2>2. f[n + 1] = f[n] \o s[n + 1].Frames
    BY <2>1, ConcatStep
  <2>3. g[n + 1] = g[n] \o t[n + 1].Frames
    BY <2>1, ConcatStep
  <2>. QED
    BY <2>1, <2>2, <2>3
<1>. HIDE DEF T
<1>3. N \in T
  BY <1>1, <1>2, NatBySet
<1>. QED
  BY <1>3 DEF T

LEMMA FramesConcat ==
  ASSUME NEW s, Len(s) \in Nat
  PROVE  \E g : Concat(g, s) /\ FramesOf(s) = g[Len(s)]
<1>. DEFINE g == CHOOSE f : Concat(f, s)
<1>1. Concat(g, s)
  BY ConcatExists
<1>2. FramesOf(s) = g[Len(s)]
  BY DEF FramesOf, Concat
<1>. QED
  BY <1>1, <1>2

LEMMA FramesOfNone == FramesOf(<<>>) = <<>>
<1>1. PICK g : Concat(g, <<>>) /\ FramesOf(<<>>) = g[0]
  BY FramesConcat
<1>. QED
  BY <1>1 DEF Concat

\* Contexts with the same frames.
LEMMA FramesSame ==
  ASSUME NEW s, NEW t, Len(s) \in Nat, Len(t) = Len(s),
         \A n \in 1..Len(s) : s[n].Frames = t[n].Frames
  PROVE  FramesOf(s) = FramesOf(t)
<1>1. PICK f : Concat(f, s) /\ FramesOf(s) = f[Len(s)]
  BY FramesConcat
<1>2. PICK g : Concat(g, t) /\ FramesOf(t) = g[Len(t)]
  BY FramesConcat
<1>. DEFINE N == Len(s)
<1>3. N \in Nat /\ N <= Len(s) /\ N <= Len(t) /\ Len(t) \in Nat
  OBVIOUS
<1>4. f[N] = g[N]
  <2>1. \A n \in 1..N : s[n].Frames = t[n].Frames
    OBVIOUS
  <2>. HIDE DEF N
  <2>. QED
    BY <1>1, <1>2, <1>3, <2>1, ConcatAgrees
<1>. QED
  BY <1>1, <1>2, <1>4

LEMMA FramesLast ==
  ASSUME NEW s \in Seq(GoodContext), s # <<>>
  PROVE  FramesOf(s) = FramesOf(SubSeq(s, 1, Len(s) - 1)) \o s[Len(s)].Frames
<1>. DEFINE N == Len(s)
            t == SubSeq(s, 1, N - 1)
<1>1. /\ N \in Nat \ {0} /\ Len(t) = N - 1
      /\ \A n \in 1..N - 1 : t[n] = s[n]
  <2>1. N \in Nat \ {0} /\ N <= Len(s)
    OBVIOUS
  <2>. HIDE DEF N
  <2>2. t \in Seq(GoodContext) /\ Len(t) = N - 1
    BY <2>1
  <2>3. \A n \in 1..N - 1 : t[n] = s[n]
    BY <2>1
  <2>. QED
    BY <2>1, <2>2, <2>3
<1>. HIDE DEF N, t
<1>2. PICK f : Concat(f, s) /\ FramesOf(s) = f[N]
  BY <1>1, FramesConcat DEF N
<1>3. PICK g : Concat(g, t) /\ FramesOf(t) = g[N - 1]
  BY <1>1, FramesConcat
<1>. DEFINE M == N - 1
<1>4. /\ M \in Nat /\ M <= Len(s) /\ M <= Len(t) /\ Len(t) \in Nat
      /\ Len(s) \in Nat /\ M \in 0..Len(s) - 1 /\ M + 1 = N
  BY <1>1 DEF N
<1>5. \A n \in 1..M : s[n].Frames = t[n].Frames
  BY <1>1
<1>. HIDE DEF M
<1>6. f[M] = g[M]
  BY <1>2, <1>3, <1>4, <1>5, ConcatAgrees
<1>7. f[M + 1] = f[M] \o s[M + 1].Frames
  BY <1>2, <1>4, ConcatStep
<1>. QED
  BY <1>2, <1>3, <1>4, <1>6, <1>7 DEF N, M, t

LEMMA FramesType ==
  ASSUME NEW s \in Seq(GoodContext)
  PROVE  FramesOf(s) \in Seq(Frame)
<1>1. PICK f : Concat(f, s) /\ FramesOf(s) = f[Len(s)]
  BY FramesConcat
<1>. DEFINE T == {n \in Nat : n <= Len(s) => f[n] \in Seq(Frame)}
<1>0. /\ Len(s) \in Nat /\ f[0] = <<>>
      /\ \A n \in 0..Len(s) - 1 : f[n + 1] = f[n] \o s[n + 1].Frames
  <2>1. Len(s) \in Nat
    OBVIOUS
  <2>. QED
    BY <1>1, <2>1, ConcatStep
<1>2. 0 \in T
  <2>1. <<>> \in Seq(Frame)
    OBVIOUS
  <2>. QED
    BY <1>0, <2>1
<1>3. ASSUME NEW n \in Nat, n \in T PROVE n + 1 \in T
  <2>. SUFFICES ASSUME n + 1 <= Len(s) PROVE f[n + 1] \in Seq(Frame)
    OBVIOUS
  <2>1. f[n] \in Seq(Frame) /\ n + 1 \in 1..Len(s) /\ n \in 0..Len(s) - 1
    BY <1>3
  <2>2. f[n + 1] = f[n] \o s[n + 1].Frames
    BY <1>0, <2>1
  <2>3. s[n + 1].Frames \in Seq(Frame)
    BY <2>1 DEF GoodContext, VmContext
  <2>. QED
    BY <2>1, <2>2, <2>3
<1>. HIDE DEF T
<1>4. Len(s) \in T
  BY <1>2, <1>3, NatBySet
<1>. QED
  BY <1>1, <1>4 DEF T

-----------------------------------------------------------------------------
(* What the operations on the call stack do to the newest frames.           *)

\* A call, whose source is in the slot after the last entry.
LEMMA NewestPush ==
  ASSUME NEW n \in 0..CallStackMax, NEW e \in EntryArray, NEW frames \in Seq(Frame),
         AreNewest(e, n, frames), NEW f \in Frame, e[n].Source = f.Source
  PROVE  AreNewest(Completed(e, n, CallStackMax, f.Dest),
                   Increased(n, CallStackMax), Append(frames, f))
<1>. DEFINE all == Append(frames, f)
            d == Completed(e, n, CallStackMax, f.Dest)
            max == CallStackMax
            L == Len(frames)
<1>1. max \in Nat \ {0} /\ L \in Nat /\ n \in Nat /\ n <= max
  BY BoundAssumption
<1>2. /\ Len(all) = L + 1 /\ all[L + 1] = f
      /\ \A i \in 1..L : all[i] = frames[i]
  OBVIOUS
<1>3. L - n >= 0 /\ \A i \in 1..n : e[i - 1] = frames[(L - n) + i]
  BY DEF AreNewest
<1>4. [e[n] EXCEPT !.Dest = f.Dest] = f
  <2>1. e[n] \in Entry
    BY <1>1 DEF EntryArray
  <2>. QED
    BY <2>1 DEF Entry, Frame
<1>5. CASE n < max
  <2>1. d = [e EXCEPT ![n].Dest = f.Dest] /\ Increased(n, max) = n + 1
    BY <1>5 DEF Completed, Increased
  <2>2. d[n] = f /\ \A i \in 0..n - 1 : d[i] = e[i]
    BY <1>1, <1>4, <2>1 DEF EntryArray
  <2>. HIDE DEF d, all, L
  <2>3. Len(all) - (n + 1) = L - n
    BY <1>1, <1>2
  <2>4. ASSUME NEW i \in 1..n + 1 PROVE d[i - 1] = all[(L - n) + i]
    <3>1. CASE i = n + 1
      <4>1. (L - n) + i = L + 1 /\ i - 1 = n
        BY <1>1, <3>1
      <4>. QED
        BY <1>2, <2>2, <4>1
    <3>2. CASE i \in 1..n
      <4>1. (L - n) + i \in 1..L /\ i - 1 \in 0..n - 1
        BY <1>1, <1>3, <3>2
      <4>. QED
        BY <1>2, <1>3, <2>2, <3>2, <4>1
    <3>. QED
      BY <1>1, <3>1, <3>2
  <2>. HIDE DEF max
  <2>. QED
    BY <1>3, <2>1, <2>3, <2>4 DEF AreNewest, d, all, max
<1>6. CASE n = max
  <2>1. Increased(n, max) = max
    BY <1>6 DEF Increased
  <2>2. d[max - 1] = f /\ \A i \in 0..max - 2 : d[i] = e[i + 1]
    BY <1>1, <1>4, <1>6 DEF Completed
  <2>. HIDE DEF d, all, L
  <2>3. Len(all) - max = L - n + 1
    BY <1>1, <1>2, <1>6
  <2>4. ASSUME NEW i \in 1..max PROVE d[i - 1] = all[(L - n + 1) + i]
    <3>1. CASE i = max
      <4>1. (L - n + 1) + i = L + 1
        BY <1>1, <1>6, <3>1
      <4>. QED
        BY <1>2, <2>2, <3>1, <4>1
    <3>2. CASE i \in 1..max - 1
      <4>1. /\ i - 1 \in 0..max - 2 /\ (i - 1) + 1 = (i + 1) - 1 /\ i + 1 \in 1..n
            /\ (L - n) + (i + 1) \in 1..L
            /\ (L - n) + (i + 1) = (L - n + 1) + i
        BY <1>1, <1>3, <1>6, <3>2
      <4>2. d[i - 1] = frames[(L - n) + (i + 1)]
        BY <1>3, <2>2, <4>1
      <4>. QED
        BY <1>2, <4>1, <4>2
    <3>. QED
      BY <1>1, <3>1, <3>2
  <2>5. L - n + 1 >= 0
    BY <1>1, <1>3
  <2>. HIDE DEF max
  <2>. QED
    BY <2>1, <2>3, <2>4, <2>5 DEF AreNewest, d, all, max
<1>. QED
  BY <1>1, <1>5, <1>6

\* A return.
LEMMA NewestPop ==
  ASSUME NEW n \in 0..CallStackMax, NEW e \in EntryArray, NEW frames \in Seq(Frame),
         AreNewest(e, n, frames), Len(frames) > 0,
         NEW rest, rest = SubSeq(frames, 1, Len(frames) - 1)
  PROVE  /\ n = 0 => AreNewest(e, n, rest)
         /\ n > 0 => AreNewest([e EXCEPT ![n - 1] = NoEntry], n - 1, rest)
<1>. DEFINE L == Len(frames)
<1>1. L \in Nat \ {0} /\ n \in Nat /\ n <= CallStackMax /\ CallStackMax \in Nat
  BY BoundAssumption
<1>2. Len(rest) = L - 1 /\ \A i \in 1..L - 1 : rest[i] = frames[i]
  <2>1. L <= Len(frames)
    BY <1>1
  <2>. HIDE DEF L
  <2>2. rest = SubSeq(frames, 1, L - 1)
    BY DEF L
  <2>. QED
    BY <1>1, <2>1, <2>2
<1>3. L - n >= 0 /\ \A i \in 1..n : e[i - 1] = frames[(L - n) + i]
  BY DEF AreNewest
<1>. HIDE DEF L
<1>4. CASE n = 0
  BY <1>1, <1>2, <1>4 DEF AreNewest
<1>5. CASE n > 0
  <2>. DEFINE d == [e EXCEPT ![n - 1] = NoEntry]
  <2>1. \A i \in 0..n - 2 : d[i] = e[i]
    BY <1>1 DEF EntryArray
  <2>. HIDE DEF d
  <2>2. Len(rest) - (n - 1) = L - n
    BY <1>1, <1>2
  <2>3. ASSUME NEW i \in 1..n - 1 PROVE d[i - 1] = rest[(L - n) + i]
    <3>1. i - 1 \in 0..n - 2 /\ (L - n) + i \in 1..L - 1 /\ i \in 1..n
      BY <1>1, <1>3
    <3>. QED
      BY <1>2, <1>3, <2>1, <3>1
  <2>4. AreNewest(d, n - 1, rest)
    BY <1>3, <2>2, <2>3 DEF AreNewest
  <2>. QED
    BY <1>1, <1>5, <2>4 DEF d
<1>. QED
  BY <1>1, <1>4, <1>5

\* A source that waits for its destination, and an empty call stack.
LEMMA NewestSource ==
  ASSUME NEW n \in 0..CallStackMax, NEW e \in EntryArray, NEW frames,
         AreNewest(e, n, frames), NEW source
  PROVE  AreNewest([e EXCEPT ![n].Source = source], n, frames)
<1>1. n \in Nat /\ n <= CallStackMax /\ CallStackMax \in Nat
  BY BoundAssumption
<1>2. \A i \in 1..n : [e EXCEPT ![n].Source = source][i - 1] = e[i - 1]
  BY <1>1 DEF EntryArray
<1>. QED
  BY <1>2 DEF AreNewest

LEMMA NewestNone ==
  ASSUME NEW e, NEW frames \in Seq(Frame)
  PROVE  AreNewest(e, 0, frames)
BY DEF AreNewest

-----------------------------------------------------------------------------
(* The steps.                                                               *)

LEMMA PlainStays ==
  ASSUME [Next]_vars, plain'
  PROVE  plain
<1>1. CASE VmStep
  <2>1. ASSUME NEW v, NEW fatal, SignalException(v, fatal) PROVE plain
    BY <2>1 DEF SignalException
  <2>2. ASSUME UNCHANGED history PROVE plain
    BY <2>2 DEF history
  <2>3. ASSUME NEW op, NEW flag, HookCheck(op, flag) PROVE plain
    BY <2>1, <2>2, <2>3 DEF HookCheck, CheckHookFlag
  <2>4. CASE \E entry \in Entries :
               ExecuteEbcImageEntryPoint(entry) \/ EbcInterpret(entry)
    BY <2>4 DEF ExecuteEbcImageEntryPoint, EbcInterpret, StartVm
  <2>5. CASE ReturnFromVm \/ ExecuteOther \/ ExecuteRET \/ HookJMPStart \/ ExecuteJMP
    BY <2>2, <2>5 DEF ReturnFromVm, ExecuteOther, ExecuteRET, HookJMPStart, ExecuteJMP
  <2>6. CASE ExecuteCALL
    BY <2>2, <2>6 DEF ExecuteCALL
  <2>7. CASE HookExecuteStart \/ HookExecuteStartKey \/ HookExecuteEnd \/ CheckStack
    BY <2>1, <2>2, <2>7
    DEF HookExecuteStart, HookExecuteStartKey, HookExecuteEnd, CheckStack
  <2>8. CASE SignalFault
    BY <2>1, <2>8 DEF SignalFault, InvalidOpcode
  <2>9. CASE HookCALLStart \/ HookCALLEXStart \/ HookRETStart
    BY <2>2, <2>3, <2>9 DEF HookCALLStart, HookCALLEXStart, HookRETStart
  <2>10. CASE EbcLLCALLEX
    BY <2>10 DEF EbcLLCALLEX
  <2>. QED
    BY <1>1, <2>4, <2>5, <2>6, <2>7, <2>8, <2>9, <2>10 DEF VmStep
<1>2. CASE BreakEventFunc \/ Command
  BY <1>2 DEF BreakEventFunc, Command, DebuggerGo, DebuggerGoTil, DebuggerStepInto,
     DebuggerStepOver, DebuggerStepOut, DebuggerQuit, DebuggerBreakOn,
     DebuggerCallStackClear, DebuggerTraceClear, Leave, history
<1>3. CASE UNCHANGED vars
  BY <1>3 DEF vars, history
<1>. QED
  BY <1>1, <1>2, <1>3 DEF Next

\* Every slot of the array holds an entry, or the source of one.
LEMMA PushEntries ==
  ASSUME CallsOK, EntriesOK, NEW source \in Addr \cup {Image, Thunk}, NEW dest \in Addr,
         \/ PushCallstackSource(source)
         \/ PushCallstackDest(dest)
         \/ PushCallstack(source, dest)
         \/ PopCallstack
  PROVE  EntriesOK'
<1>. DEFINE n == CallStackEntryCount
            max == CallStackMax
<1>1. n \in 0..max /\ max \in Nat \ {0}
  BY BoundAssumption DEF CallsOK
<1>2. ASSUME NEW e \in EntryArray PROVE Completed(e, n, max, dest) \in EntryArray
  BY <1>1, <1>2 DEF Completed, EntryArray, Entry
<1>3. [CallStackEntry EXCEPT ![n].Source = source] \in EntryArray
  BY <1>1 DEF EntriesOK, EntryArray, Entry
<1>4. n > 0 => [CallStackEntry EXCEPT ![n - 1] = NoEntry] \in EntryArray
  BY <1>1 DEF EntriesOK, EntryArray, Entry, NoEntry
<1>5. CASE PushCallstackSource(source)
  BY <1>3, <1>5 DEF PushCallstackSource, EntriesOK
<1>6. CASE PushCallstackDest(dest)
  BY <1>2, <1>6 DEF PushCallstackDest, EntriesOK
<1>7. CASE PushCallstack(source, dest)
  BY <1>2, <1>3, <1>7 DEF PushCallstack, EntriesOK
<1>8. CASE PopCallstack
  BY <1>1, <1>4, <1>8 DEF PopCallstack, EntriesOK, callstack
<1>. QED
  BY <1>5, <1>6, <1>7, <1>8

LEMMA EmptyEntries == [i \in 0..CallStackMax |-> NoEntry] \in EntryArray
BY DEF EntryArray, Entry, NoEntry

LEMMA EntriesKept ==
  ASSUME HookType, EntriesOK, [Next]_vars
  PROVE  EntriesOK'
<1>1. ASSUME UNCHANGED callstack PROVE EntriesOK'
  BY <1>1 DEF EntriesOK, callstack
<1>2. ASSUME vms # <<>>
      PROVE  Top.Ip \in Addr /\ Program[Top.Ip].Target \in Addr
  BY <1>2, TopGood, ProgramType DEF HookType
<1>3. CASE VmStep
  <2>1. ASSUME NEW entry \in Entries,
               ExecuteEbcImageEntryPoint(entry) \/ EbcInterpret(entry)
        PROVE  EntriesOK'
    BY <2>1, PushEntries, ProgramAssumption
    DEF ExecuteEbcImageEntryPoint, EbcInterpret, StartVm, HookType
  <2>2. CASE HookCALLStart
    BY <1>1, <1>2, <2>2, PushEntries DEF HookCALLStart, HookCheck, At, HookType
  <2>3. CASE ExecuteCALL
    BY <1>2, <2>3, PushEntries DEF ExecuteCALL, HookCALLEnd, At, HookType
  <2>4. CASE HookRETStart
    BY <1>1, <1>2, <2>4, PushEntries DEF HookRETStart, HookCheck, At, HookType
  <2>5. CASE UNCHANGED callstack
    BY <1>1, <2>5
  <2>. QED
    BY <1>3, <2>1, <2>2, <2>3, <2>4, <2>5
    DEF VmStep, ReturnFromVm, HookExecuteStart, HookExecuteStartKey, ExecuteOther,
        SignalFault, InvalidOpcode, HookCALLEXStart, HookCheck, EbcLLCALLEX, ExecuteRET,
        HookJMPStart, ExecuteJMP, HookExecuteEnd, CheckStack
<1>4. CASE BreakEventFunc \/ Command
  BY <1>1, <1>4, EmptyEntries
  DEF BreakEventFunc, Command, DebuggerGo, DebuggerGoTil, DebuggerStepInto,
     DebuggerStepOver, DebuggerStepOut, DebuggerQuit, DebuggerBreakOn,
     DebuggerCallStackClear, DebuggerTraceClear, Leave, Emptied, EntriesOK
<1>5. CASE UNCHANGED vars
  BY <1>1, <1>5 DEF vars
<1>. QED
  BY <1>3, <1>4, <1>5 DEF Next

\* The running context becomes w; those below it are as they were.
LEMMA TopBecomes ==
  ASSUME HookType, HookType', Waiting, vms # <<>>,
         NEW w \in VmContext, Settled(w), SetTop(w)
  PROVE  /\ Waiting' /\ vms' # <<>> /\ Top' = w
         /\ Held = Before \o Shown(Top) /\ Held' = Before \o Shown(w)
<1>. DEFINE n == Len(vms)
<1>1. /\ n \in Nat \ {0} /\ vms \in Seq(GoodContext) /\ vms' \in Seq(GoodContext)
      /\ vms' = [vms EXCEPT ![n] = w]
  BY TopGood DEF HookType, ContextsOK, SetTop
<1>2. /\ Len(vms') = n /\ vms'[n] = w
      /\ \A i \in 1..n - 1 : vms'[i] = vms[i]
  BY <1>1
<1>3. vms' # <<>> /\ Top' = w
  BY <1>1, <1>2 DEF Top
<1>5. Before' = Before
  <2>1. /\ Before' = FramesOf(SubSeq(vms', 1, n - 1))
        /\ Before = FramesOf(SubSeq(vms, 1, n - 1))
    BY <1>2 DEF Before
  <2>. HIDE DEF n
  <2>2. n \in Nat \ {0} /\ n <= Len(vms) /\ n <= Len(vms')
    <3>1. n \in Nat \ {0} /\ Len(vms) = n /\ Len(vms') = n
      BY <1>1, <1>2 DEF n
    <3>. QED
      BY <3>1
  <2>. DEFINE s == SubSeq(vms, 1, n - 1)
              t == SubSeq(vms', 1, n - 1)
  <2>3. /\ Len(s) = n - 1 /\ Len(t) = n - 1
        /\ \A i \in 1..n - 1 : s[i] = vms[i] /\ t[i] = vms'[i]
    BY <1>1, <2>2
  <2>. HIDE DEF s, t
  <2>4. /\ Len(s) \in Nat /\ Len(t) = Len(s)
        /\ \A i \in 1..Len(s) : s[i].Frames = t[i].Frames
    BY <1>2, <2>2, <2>3
  <2>5. FramesOf(s) = FramesOf(t)
    BY <2>4, FramesSame
  <2>. QED
    BY <2>1, <2>5 DEF s, t
<1>6. Waiting'
  <2>1. ASSUME NEW i \in 1..n PROVE Settled(vms'[i])
    <3>1. CASE i = n
      BY <1>2, <3>1
    <3>2. CASE i \in 1..n - 1
      BY <1>2, <3>2 DEF Waiting
    <3>. HIDE DEF n
    <3>3. i = n \/ i \in 1..n - 1
      BY <1>1
    <3>. QED
      BY <3>1, <3>2, <3>3
  <2>2. ASSUME NEW i \in 1..n - 1 PROVE vms'[i].At = "native" /\ ~vms'[i].Prompt
    BY <1>1, <1>2 DEF Waiting
  <2>. QED
    BY <1>2, <2>1, <2>2 DEF Waiting
<1>. QED
  BY <1>3, <1>5, <1>6 DEF Held

\* What the steps come to.
Same == Held' = Held /\ UNCHANGED callstack
Good == Waiting' /\ SlotOpened' /\ Newest(Held)'

LEMMA HeldType ==
  ASSUME HookType
  PROVE  Held \in Seq(Frame)
<1>1. CASE vms = <<>>
  BY <1>1 DEF Held
<1>2. CASE vms # <<>>
  <2>1. /\ Len(vms) \in Nat \ {0} /\ vms \in Seq(GoodContext)
        /\ Top.Frames \in Seq(Frame)
    BY <1>2, TopGood DEF HookType, ContextsOK
  <2>2. SubSeq(vms, 1, Len(vms) - 1) \in Seq(GoodContext)
    BY <2>1
  <2>3. Before \in Seq(Frame)
    BY <2>2, FramesType DEF Before
  <2>4. Shown(Top) \in Seq(Frame)
    BY <2>1 DEF Shown
  <2>. QED
    BY <1>2, <2>3, <2>4 DEF Held
<1>. QED
  BY <1>1, <1>2

LEMMA SameIsNewest ==
  ASSUME Newest(Held), Same
  PROVE  Newest(Held)'
BY DEF Newest, Same, callstack

\* Between instructions, or before the first hook of one, the running context
\* only goes to another place, with a session or without one.
LEMMA PlaceChanges ==
  ASSUME CallInv, HookType', plain, vms # <<>>, Top.At \notin {"mid", "native", "done"},
         UNCHANGED callstack,
         NEW place \in {"start", "key", "fetch", "hooked", "stack"},
         \/ SetTop([Top EXCEPT !.At = place])
         \/ SignalException([Top EXCEPT !.At = place], FALSE)
  PROVE  Good
<1>1. Waiting /\ Newest(Held) /\ Top \in VmContext /\ Settled(Top)
  BY TopGood DEF CallInv, HookType, Waiting, Top
<1>2. PICK w \in VmContext :
        /\ SetTop(w) /\ w.At = place /\ w.Frames = Top.Frames /\ w.Stop = Top.Stop
  <2>1. CASE SetTop([Top EXCEPT !.At = place])
    <3>. DEFINE w == [Top EXCEPT !.At = place]
    <3>1. w \in VmContext /\ w.At = place /\ w.Frames = Top.Frames /\ w.Stop = Top.Stop
      BY <1>1 DEF VmContext, Place
    <3>. QED
      BY <2>1, <3>1
  <2>2. CASE SignalException([Top EXCEPT !.At = place], FALSE)
    <3>. DEFINE v == [Top EXCEPT !.At = place]
                w == [v EXCEPT !.Prompt = TRUE, !.Step = FALSE, !.Stop = v.Stop \/ FALSE]
    <3>1. v \in VmContext /\ v.At = place /\ v.Frames = Top.Frames /\ v.Stop = Top.Stop
      BY <1>1 DEF VmContext, Place
    <3>2. SetTop(w)
      BY <2>2 DEF SignalException
    <3>. HIDE DEF v
    <3>3. /\ w \in VmContext /\ w.At = place /\ w.Frames = Top.Frames
          /\ w.Stop = Top.Stop
      BY <3>1 DEF VmContext
    <3>. QED
      BY <3>2, <3>3
  <2>. QED
    BY <2>1, <2>2
<1>3. Settled(w)
  BY <1>1, <1>2 DEF Settled
<1>4. Shown(w) = Shown(Top)
  BY <1>2 DEF Shown
<1>5. Waiting' /\ Top' = w /\ Held' = Held
  BY <1>1, <1>2, <1>3, <1>4, TopBecomes DEF CallInv
<1>6. SlotOpened'
  BY <1>2, <1>5 DEF SlotOpened, At
<1>. QED
  BY <1>1, <1>5, <1>6, SameIsNewest DEF Same, Good

LEMMA CheckStep ==
  ASSUME CallInv, HookType', plain, NEW op, NEW flag, HookCheck(op, flag)
  PROVE  Good
<1>1. /\ vms # <<>> /\ Top.At = "fetch" /\ UNCHANGED callstack
      /\ \/ SetTop([Top EXCEPT !.At = "hooked"])
         \/ SignalException([Top EXCEPT !.At = "hooked"], FALSE)
  BY DEF HookCheck, At, CheckHookFlag
<1>. QED
  BY <1>1, PlaceChanges

\* Any step that shows the same frames and leaves the call stack alone.
LEMMA Passes ==
  ASSUME CallInv, HookType', plain, vms # <<>>,
         NEW w \in VmContext, SetTop(w), Settled(w), Shown(w) = Shown(Top),
         ~(w.At = "mid" /\ Program[w.Ip].Op = "CALL"), UNCHANGED callstack
  PROVE  Good
<1>1. Waiting' /\ Top' = w /\ Held' = Held
  BY TopBecomes DEF CallInv
<1>2. SlotOpened'
  BY <1>1 DEF SlotOpened, At, Executing
<1>. QED
  BY <1>1, <1>2, SameIsNewest DEF CallInv, Same, Good

\* A context is entered from native code, or as the first one.
LEMMA Enters ==
  ASSUME CallInv, HookType', plain, NEW entry \in Entries, NEW source \in {Image, Thunk},
         NEW flag, StartVm(entry, source, flag)
  PROVE  Good
<1>. DEFINE f == [Source |-> source, Dest |-> entry]
            v == [Ip |-> entry, Frames |-> <<f>>, Step |-> FALSE, At |-> "start",
                  Prompt |-> flag \in FeatureFlags, Stop |-> FALSE]
            n == Len(vms)
<1>1. /\ vms \in Seq(GoodContext) /\ n \in Nat /\ Waiting /\ Newest(Held)
      /\ CallStackEntryCount \in 0..CallStackMax /\ CallStackEntry \in EntryArray
      /\ CallStackMax \in Nat \ {0}
  BY BoundAssumption DEF CallInv, HookType, ContextsOK, CallsOK, EntriesOK
<1>2. /\ vms' = Append(vms, v) /\ PushCallstack(source, entry)
      /\ vms # <<>> => Top.At = "native" /\ ~Top.Prompt
  BY DEF StartVm, At
<1>3. f \in Frame /\ f.Source = source /\ f.Dest = entry
  BY ProgramAssumption DEF Frame
<1>4. Settled(v) /\ v.At = "start" /\ v.Frames = <<f>>
  BY DEF Settled
<1>. HIDE DEF v
<1>5. /\ Len(vms') = n + 1 /\ vms'[n + 1] = v /\ vms' # <<>>
      /\ \A i \in 1..n : vms'[i] = vms[i]
  BY <1>1, <1>2
<1>6. Top' = v
  BY <1>5 DEF Top
<1>7. Before' = FramesOf(vms)
  <2>1. Before' = FramesOf(SubSeq(vms', 1, n))
    BY <1>1, <1>5 DEF Before
  <2>. HIDE DEF n
  <2>. DEFINE s == SubSeq(vms', 1, n)
  <2>2. vms' \in Seq(GoodContext) /\ n \in Nat /\ n <= Len(vms') /\ Len(vms) = n
    BY <1>1, <1>5 DEF HookType, ContextsOK, n
  <2>3. Len(s) = n /\ \A i \in 1..n : s[i] = vms[i]
    BY <1>5, <2>2
  <2>. HIDE DEF s
  <2>4. FramesOf(s) = FramesOf(vms)
    BY <2>2, <2>3, FramesSame
  <2>. QED
    BY <2>1, <2>4 DEF s
<1>8. FramesOf(vms) = Held
  <2>1. CASE vms = <<>>
    BY <2>1, FramesOfNone DEF Held
  <2>2. CASE vms # <<>>
    BY <1>1, <1>2, <2>2, FramesLast DEF Held, Before, Shown, Top
  <2>. QED
    BY <2>1, <2>2
<1>9. Held' = Append(Held, f)
  <2>1. Held' = Held \o <<f>>
    BY <1>4, <1>5, <1>6, <1>7, <1>8 DEF Held, Shown
  <2>2. Held \in Seq(Frame)
    BY HeldType DEF CallInv
  <2>. HIDE DEF f
  <2>. QED
    BY <1>3, <2>1, <2>2
<1>10. Newest(Held)'
  <2>. DEFINE k == CallStackEntryCount
              e == [CallStackEntry EXCEPT ![k].Source = source]
  <2>1. e \in EntryArray /\ e[k].Source = f.Source
    BY <1>1 DEF EntryArray, Entry
  <2>2. AreNewest(e, k, Held)
    BY <1>1, NewestSource DEF Newest
  <2>3. /\ CallStackEntry' = Completed(e, k, CallStackMax, f.Dest)
        /\ CallStackEntryCount' = Increased(k, CallStackMax)
    BY <1>2 DEF PushCallstack
  <2>4. Held \in Seq(Frame)
    BY HeldType DEF CallInv
  <2>. HIDE DEF e, k, f
  <2>5. AreNewest(Completed(e, k, CallStackMax, f.Dest),
                  Increased(k, CallStackMax), Append(Held, f))
    BY <1>1, <1>3, <2>1, <2>2, <2>4, NewestPush DEF k
  <2>. QED
    BY <1>9, <2>3, <2>5 DEF Newest
<1>11. Waiting'
  <2>1. ASSUME NEW i \in 1..n PROVE Settled(vms[i]) /\ vms[i].At = "native" /\ ~vms[i].Prompt
    <3>1. CASE i = n
      <4>1. vms # <<>> /\ vms[i] = Top
        BY <1>1, <3>1 DEF Top
      <4>. QED
        BY <1>1, <1>2, <4>1 DEF Waiting
    <3>2. CASE i \in 1..n - 1
      BY <1>1, <3>2 DEF Waiting
    <3>. HIDE DEF n
    <3>3. i = n \/ i \in 1..n - 1
      BY <1>1
    <3>. QED
      BY <3>1, <3>2, <3>3
  <2>2. ASSUME NEW i \in 1..n + 1 PROVE Settled(vms'[i])
    <3>1. CASE i = n + 1
      BY <1>4, <1>5, <3>1
    <3>2. CASE i \in 1..n
      BY <1>5, <2>1, <3>2
    <3>. HIDE DEF n
    <3>. QED
      BY <1>1, <3>1, <3>2
  <2>3. ASSUME NEW i \in 1..n PROVE vms'[i].At = "native" /\ ~vms'[i].Prompt
    BY <1>5, <2>1, <2>3
  <2>4. (n + 1) - 1 = n
    BY <1>1
  <2>. HIDE DEF n
  <2>. QED
    BY <1>5, <2>2, <2>3, <2>4 DEF Waiting
<1>12. SlotOpened'
  BY <1>4, <1>6 DEF SlotOpened, At
<1>. QED
  BY <1>10, <1>11, <1>12 DEF Good

\* A context that has returned from its last frame goes.
LEMMA Departure ==
  ASSUME CallInv, HookType', plain, ReturnFromVm
  PROVE  Good
<1>. DEFINE n == Len(vms)
<1>1. /\ vms \in Seq(GoodContext) /\ Waiting /\ Newest(Held)
      /\ vms # <<>> /\ Top.At = "done" /\ n \in Nat \ {0}
      /\ vms' = SubSeq(vms, 1, n - 1) /\ UNCHANGED callstack
  BY TopGood DEF CallInv, HookType, ContextsOK, ReturnFromVm, At
<1>2. Top.Frames = <<>>
  BY <1>1 DEF Waiting, Settled, Top
<1>3. /\ Len(vms') = n - 1 /\ vms' \in Seq(GoodContext)
      /\ \A i \in 1..n - 1 : vms'[i] = vms[i]
  <2>1. n \in Nat \ {0} /\ n <= Len(vms)
    BY <1>1
  <2>. HIDE DEF n
  <2>. QED
    BY <1>1, <2>1
<1>4. Before \in Seq(Frame) /\ Before = FramesOf(vms')
  BY <1>1, <1>3, FramesType DEF Before
<1>5. Held = Before
  <2>1. Held = Before \o <<>>
    BY <1>1, <1>2 DEF Held, Shown
  <2>. QED
    BY <1>4, <2>1
<1>6. Held' = Before /\ ~(vms' # <<>> /\ Top'.At = "mid")
  <2>1. CASE vms' = <<>>
    BY <1>4, <2>1, FramesOfNone DEF Held
  <2>2. CASE vms' # <<>>
    <3>1. n - 1 \in 1..n - 1
      <4>1. n - 1 # 0
        BY <1>3, <2>2
      <4>. HIDE DEF n
      <4>. QED
        BY <1>1, <4>1
    <3>2. Top' = vms[n - 1] /\ vms[n - 1].At = "native"
      BY <1>1, <1>3, <3>1 DEF Top, Waiting
    <3>3. FramesOf(vms') = Before' \o Top'.Frames
      BY <1>3, <2>2, FramesLast DEF Before, Top
    <3>. QED
      BY <1>4, <2>2, <3>2, <3>3 DEF Held, Shown
  <2>. QED
    BY <2>1, <2>2
<1>7. Waiting'
  <2>1. ASSUME NEW i \in 1..n - 1
        PROVE  Settled(vms'[i]) /\ vms'[i].At = "native" /\ ~vms'[i].Prompt
    <3>1. i \in 1..n
      <4>. HIDE DEF n
      <4>. QED
        BY <1>1
    <3>. QED
      BY <1>1, <1>3, <3>1 DEF Waiting
  <2>2. 1..(n - 1) - 1 \subseteq 1..n - 1
    <3>. HIDE DEF n
    <3>. QED
      BY <1>1
  <2>. QED
    BY <1>3, <2>1, <2>2 DEF Waiting
<1>8. SlotOpened'
  BY <1>6 DEF SlotOpened, At
<1>. QED
  BY <1>1, <1>5, <1>6, <1>7, <1>8, SameIsNewest DEF Same, Good

\* The two hooks of a CALL.
LEMMA CallOpens ==
  ASSUME CallInv, HookType', plain, At("hooked"), Executing("CALL"),
         PushCallstackSource(Top.Ip), SetTop([Top EXCEPT !.At = "mid"])
  PROVE  Good
<1>. DEFINE w == [Top EXCEPT !.At = "mid"]
            n == CallStackEntryCount
<1>1. /\ vms # <<>> /\ ~Top.Prompt /\ Top.At = "hooked" /\ Waiting /\ Newest(Held)
      /\ Top \in VmContext /\ Settled(Top) /\ Program[Top.Ip].Op = "CALL"
  BY TopGood DEF CallInv, HookType, At, Waiting, Top, Executing
<1>2. w \in VmContext /\ w.At = "mid" /\ w.Frames = Top.Frames /\ w.Ip = Top.Ip
      /\ w.Stop = Top.Stop /\ w.Prompt = Top.Prompt
  BY <1>1 DEF VmContext, Place
<1>. HIDE DEF w
<1>3. Settled(w) /\ Shown(w) = Shown(Top)
  BY <1>1, <1>2 DEF Settled, Shown
<1>4. Waiting' /\ Top' = w /\ Held' = Held
  BY <1>1, <1>2, <1>3, TopBecomes DEF CallInv, w
<1>5. n \in 0..CallStackMax /\ CallStackMax \in Nat /\ CallStackEntry \in EntryArray
  BY BoundAssumption DEF CallInv, HookType, CallsOK, EntriesOK
<1>6. /\ CallStackEntry' = [CallStackEntry EXCEPT ![n].Source = Top.Ip]
      /\ CallStackEntryCount' = n
  BY DEF PushCallstackSource
<1>7. Newest(Held)'
  BY <1>1, <1>4, <1>5, <1>6, NewestSource DEF Newest
<1>8. SlotOpened'
  <2>1. CallStackEntry'[n].Source = Top.Ip
    BY <1>5, <1>6 DEF EntryArray, Entry
  <2>. QED
    BY <1>2, <1>4, <1>6, <2>1 DEF SlotOpened
<1>. QED
  BY <1>4, <1>7, <1>8 DEF Good

LEMMA CallEnters ==
  ASSUME CallInv, HookType', plain, ExecuteCALL
  PROVE  Good
<1>. DEFINE dest == Program[Top.Ip].Target
            f == [Source |-> Top.Ip, Dest |-> dest]
            frames == Append(Top.Frames, f)
            w == [Top EXCEPT !.Ip = dest, !.At = "end", !.Frames = frames]
            n == CallStackEntryCount
<1>1. /\ vms # <<>> /\ ~Top.Prompt /\ Top.At = "mid" /\ Executing("CALL")
      /\ Waiting /\ Newest(Held) /\ Top \in VmContext /\ Settled(Top)
      /\ Top.Frames \in Seq(Frame) /\ dest \in Addr /\ Top.Ip \in Addr
      /\ Top.Frames # <<>> /\ CallStackEntry[n].Source = Top.Ip
  BY TopGood, ProgramType DEF CallInv, HookType, ExecuteCALL, At, Waiting, Top, SlotOpened
<1>2. SetTop(w) /\ PushCallstackDest(dest)
  BY DEF ExecuteCALL, HookCALLEnd
<1>3. f \in Frame /\ f.Source = Top.Ip /\ f.Dest = dest
  BY <1>1 DEF Frame
<1>. HIDE DEF f
<1>4. frames \in Seq(Frame)
  BY <1>1, <1>3
<1>. HIDE DEF frames, dest
<1>5. /\ w \in VmContext /\ w.At = "end" /\ w.Frames = frames
      /\ w.Stop = Top.Stop /\ w.Prompt = Top.Prompt
  BY <1>1, <1>4 DEF VmContext, Place
<1>. HIDE DEF w
<1>6. Settled(w) /\ Shown(w) = frames /\ Shown(Top) = Top.Frames
  BY <1>1, <1>5 DEF Settled, Shown, Executing
<1>7. Waiting' /\ Top' = w /\ Held = Before \o Top.Frames /\ Held' = Before \o frames
  BY <1>1, <1>2, <1>5, <1>6, TopBecomes DEF CallInv
<1>8. Held' = Append(Held, f) /\ Held \in Seq(Frame)
  <2>1. Before \in Seq(Frame)
    <3>1. /\ Len(vms) \in Nat \ {0} /\ vms \in Seq(GoodContext)
      BY <1>1, TopGood DEF CallInv, HookType, ContextsOK
    <3>2. SubSeq(vms, 1, Len(vms) - 1) \in Seq(GoodContext)
      BY <3>1
    <3>. QED
      BY <3>2, FramesType DEF Before
  <2>2. Held' = Append(Before \o Top.Frames, f)
    BY <1>1, <1>3, <1>7, <2>1 DEF frames
  <2>. QED
    BY <1>7, <2>2, HeldType DEF CallInv
<1>9. Newest(Held)'
  <2>1. n \in 0..CallStackMax /\ CallStackEntry \in EntryArray
    BY DEF CallInv, HookType, CallsOK, EntriesOK
  <2>2. /\ CallStackEntry' = Completed(CallStackEntry, n, CallStackMax, f.Dest)
        /\ CallStackEntryCount' = Increased(n, CallStackMax)
    BY <1>2, <1>3 DEF PushCallstackDest
  <2>3. AreNewest(Completed(CallStackEntry, n, CallStackMax, f.Dest),
                  Increased(n, CallStackMax), Append(Held, f))
    BY <1>1, <1>3, <1>8, <2>1, NewestPush DEF Newest
  <2>. QED
    BY <1>8, <2>2, <2>3 DEF Newest
<1>10. SlotOpened'
  BY <1>5, <1>7 DEF SlotOpened, At
<1>. QED
  BY <1>7, <1>9, <1>10 DEF Good

\* The hook of a RET and the RET itself.
LEMMA ReturnPops ==
  ASSUME CallInv, HookType', plain, At("hooked"), Executing("RET"),
         PopCallstack, SetTop([Top EXCEPT !.At = "mid"])
  PROVE  Good
<1>. DEFINE w == [Top EXCEPT !.At = "mid"]
            n == CallStackEntryCount
            L == Len(Top.Frames)
            rest == SubSeq(Top.Frames, 1, L - 1)
<1>1. /\ vms # <<>> /\ ~Top.Prompt /\ Top.At = "hooked" /\ Waiting /\ Newest(Held)
      /\ Top \in VmContext /\ Settled(Top) /\ Program[Top.Ip].Op = "RET"
      /\ Top.Frames \in Seq(Frame) /\ L \in Nat \ {0}
  BY TopGood DEF CallInv, HookType, At, Waiting, Top, Executing
<1>2. w \in VmContext /\ w.At = "mid" /\ w.Frames = Top.Frames /\ w.Ip = Top.Ip
      /\ w.Stop = Top.Stop /\ w.Prompt = Top.Prompt
  BY <1>1 DEF VmContext, Place
<1>. HIDE DEF w
<1>3. Settled(w) /\ Shown(w) = rest /\ Shown(Top) = Top.Frames
  BY <1>1, <1>2 DEF Settled, Shown
<1>4. Waiting' /\ Top' = w /\ Held = Before \o Top.Frames /\ Held' = Before \o rest
  BY <1>1, <1>2, <1>3, TopBecomes DEF CallInv, w
<1>5. Before \in Seq(Frame)
  <2>1. /\ Len(vms) \in Nat \ {0} /\ vms \in Seq(GoodContext)
    BY <1>1, TopGood DEF CallInv, HookType, ContextsOK
  <2>2. SubSeq(vms, 1, Len(vms) - 1) \in Seq(GoodContext)
    BY <2>1
  <2>. QED
    BY <2>2, FramesType DEF Before
<1>6. Len(Held) > 0 /\ Held' = SubSeq(Held, 1, Len(Held) - 1)
  <2>1. /\ Held = Before \o Top.Frames /\ Held' = Before \o rest
        /\ rest = SubSeq(Top.Frames, 1, L - 1) /\ L = Len(Top.Frames)
    BY <1>4
  <2>. HIDE DEF L, rest
  <2>2. PICK b \in Nat : b = Len(Before)
    BY <1>5
  <2>3. Len(Held) = b + L
    BY <1>1, <1>5, <2>1, <2>2
  <2>4. Len(rest) = L - 1 /\ \A i \in 1..L - 1 : rest[i] = Top.Frames[i]
    BY <1>1, <2>1
  <2>. QED
    BY <1>1, <1>5, <2>1, <2>2, <2>3, <2>4
<1>7. n \in 0..CallStackMax /\ CallStackEntry \in EntryArray /\ Held \in Seq(Frame)
  BY HeldType DEF CallInv, HookType, CallsOK, EntriesOK
<1>8. Newest(Held)'
  <2>1. PICK h : h = Held'
    OBVIOUS
  <2>2. /\ n = 0 => AreNewest(CallStackEntry, n, h)
        /\ n > 0 => AreNewest([CallStackEntry EXCEPT ![n - 1] = NoEntry], n - 1, h)
    BY <1>1, <1>6, <1>7, <2>1, NewestPop DEF Newest
  <2>3. IF n = 0 THEN UNCHANGED callstack
        ELSE /\ CallStackEntryCount' = n - 1
             /\ CallStackEntry' = [CallStackEntry EXCEPT ![n - 1] = NoEntry]
    BY DEF PopCallstack
  <2>4. n = 0 \/ n > 0
    BY <1>7, BoundAssumption
  <2>. QED
    BY <2>1, <2>2, <2>3, <2>4 DEF Newest, callstack
<1>9. SlotOpened'
  BY <1>1, <1>2, <1>4 DEF SlotOpened, Executing
<1>. QED
  BY <1>4, <1>8, <1>9 DEF Good

LEMMA ReturnLeaves ==
  ASSUME CallInv, HookType', plain, ExecuteRET
  PROVE  Good
<1>. DEFINE depth == Len(Top.Frames)
            last == depth = 1
            ip == IF last THEN Top.Ip ELSE Following(Top.Frames[depth].Source)
            rest == SubSeq(Top.Frames, 1, depth - 1)
            stop == Top.Stop \/ last
            w == [Top EXCEPT !.Ip = ip, !.At = "end", !.Stop = stop, !.Frames = rest]
<1>1. /\ vms # <<>> /\ ~Top.Prompt /\ Top.At = "mid" /\ Program[Top.Ip].Op = "RET"
      /\ Top \in VmContext /\ Settled(Top) /\ UNCHANGED callstack
      /\ Top.Frames \in Seq(Frame) /\ depth \in Nat \ {0} /\ Top.Frames # <<>>
  BY TopGood DEF CallInv, HookType, ExecuteRET, At, Waiting, Top, Executing
<1>2. SetTop(w)
  BY DEF ExecuteRET
<1>3. ip \in Addr
  <2>1. CASE last
    BY <1>1, <2>1 DEF VmContext
  <2>2. CASE ~last
    <3>1. Top.Frames[depth].Source \in Addr
      BY <1>1, <2>2, ReturnFrames DEF CallInv, HookType
    <3>. QED
      BY <2>2, <3>1, ProgramType
  <2>. QED
    BY <2>1, <2>2
<1>4. rest \in Seq(Frame) /\ stop \in BOOLEAN
  BY <1>1
<1>5. stop => rest = <<>>
  <2>1. ~Top.Stop
    BY <1>1 DEF Settled
  <2>2. last => rest = <<>>
    BY <1>1
  <2>. HIDE DEF last, rest
  <2>. QED
    BY <2>1, <2>2
<1>6. Shown(Top) = rest
  BY <1>1 DEF Shown
<1>. HIDE DEF ip, rest, stop
<1>7. /\ w \in VmContext /\ w.At = "end" /\ w.Frames = rest /\ w.Stop = stop
      /\ w.Prompt = Top.Prompt
  BY <1>1, <1>3, <1>4 DEF VmContext, Place
<1>. HIDE DEF w
<1>8. Settled(w) /\ Shown(w) = rest
  BY <1>1, <1>5, <1>7 DEF Settled, Shown
<1>. QED
  BY <1>1, <1>2, <1>6, <1>7, <1>8, Passes

LEMMA VmStepGood ==
  ASSUME CallInv, HookType', plain, plain', VmStep
  PROVE  Good
<1>. USE DEF At
<1>1. Waiting /\ ContextsOK /\ (vms # <<>> => Top \in VmContext /\ Settled(Top))
  BY TopGood DEF CallInv, HookType, Waiting, Top
<1>2. ASSUME NEW entry \in Entries,
             ExecuteEbcImageEntryPoint(entry) \/ EbcInterpret(entry)
      PROVE  Good
  BY <1>2, Enters DEF ExecuteEbcImageEntryPoint, EbcInterpret
<1>3. CASE ReturnFromVm
  BY <1>3, Departure
<1>4. CASE HookExecuteStart
  BY <1>4, PlaceChanges DEF HookExecuteStart
<1>5. CASE HookExecuteStartKey
  BY <1>5, PlaceChanges DEF HookExecuteStartKey
<1>6. CASE HookExecuteEnd
  BY <1>6, PlaceChanges DEF HookExecuteEnd
<1>7. CASE CheckStack
  <2>1. ~(Len(Top.Frames) > MaxDepth)
    BY <1>7 DEF CheckStack, SignalException
  <2>2. /\ vms # <<>> /\ Top.At = "stack" /\ UNCHANGED callstack
        /\ SetTop([Top EXCEPT !.At = IF Top.Stop THEN "done" ELSE "start"])
    BY <1>7, <2>1 DEF CheckStack
  <2>3. CASE ~Top.Stop
    BY <2>2, <2>3, PlaceChanges
  <2>4. CASE Top.Stop
    <3>. DEFINE w == [Top EXCEPT !.At = "done"]
    <3>1. w \in VmContext /\ w.At = "done" /\ w.Frames = Top.Frames /\ w.Stop
          /\ w.Prompt = Top.Prompt /\ SetTop(w)
      BY <1>1, <2>2, <2>4 DEF VmContext, Place
    <3>2. ~Top.Prompt
      BY <1>7 DEF CheckStack
    <3>. HIDE DEF w
    <3>3. Settled(w) /\ Shown(w) = Shown(Top)
      BY <1>1, <2>2, <2>4, <3>1, <3>2 DEF Settled, Shown
    <3>. QED
      BY <2>2, <3>1, <3>3, Passes
  <2>. QED
    BY <2>3, <2>4
<1>8. ASSUME NEW ip \in Addr, vms # <<>>, ~Top.Prompt,
             Top.At = "fetch" \/ (Top.At = "mid" /\ ~Executing("RET"))
                \/ Top.At = "native",
             SetTop([Top EXCEPT !.Ip = ip, !.At = "end"]), UNCHANGED callstack
      PROVE  Good
  <2>. DEFINE w == [Top EXCEPT !.Ip = ip, !.At = "end"]
  <2>1. w \in VmContext /\ w.At = "end" /\ w.Frames = Top.Frames
        /\ w.Stop = Top.Stop /\ w.Prompt = Top.Prompt /\ SetTop(w)
    BY <1>1, <1>8 DEF VmContext, Place
  <2>. HIDE DEF w
  <2>2. Settled(w) /\ Shown(w) = Shown(Top)
    BY <1>1, <1>8, <2>1 DEF Settled, Shown, Executing
  <2>. QED
    BY <1>8, <2>1, <2>2, Passes
<1>9. ASSUME vms # <<>> PROVE Following(Top.Ip) \in Addr /\ Program[Top.Ip].Target \in Addr
  BY <1>1, <1>9, ProgramType, TopGood
<1>10. CASE ExecuteOther
  BY <1>8, <1>9, <1>10 DEF ExecuteOther
<1>11. CASE SignalFault
  BY <1>11 DEF SignalFault, InvalidOpcode, SignalException
<1>12. CASE HookCALLStart
  BY <1>12, CheckStep, CallOpens DEF HookCALLStart
<1>13. CASE ExecuteCALL
  BY <1>13, CallEnters
<1>14. CASE HookRETStart
  BY <1>14, CheckStep, ReturnPops DEF HookRETStart
<1>15. CASE ExecuteRET
  BY <1>15, ReturnLeaves
\* The hooks that only change the place of a context.
<1>16. ASSUME NEW place \in {"mid", "native"}, vms # <<>>, ~Top.Prompt,
              Top.At \in {"fetch", "hooked"}, ~Executing("CALL"), ~Executing("RET"),
              place = "native" => Executing("CALLEX"),
              SetTop([Top EXCEPT !.At = place]), UNCHANGED callstack
       PROVE  Good
  <2>. DEFINE w == [Top EXCEPT !.At = place]
  <2>1. w \in VmContext /\ w.At = place /\ w.Frames = Top.Frames /\ w.Ip = Top.Ip
        /\ w.Stop = Top.Stop /\ w.Prompt = Top.Prompt /\ SetTop(w)
    BY <1>1, <1>16 DEF VmContext, Place
  <2>. HIDE DEF w
  <2>2. Settled(w) /\ Shown(w) = Shown(Top) /\ Program[w.Ip].Op # "CALL"
    BY <1>1, <1>16, <2>1 DEF Settled, Shown, Executing
  <2>. QED
    BY <1>16, <2>1, <2>2, Passes
<1>17. CASE HookCALLEXStart
  <2>1. CASE HookCheck("CALLEX", "BOCX")
    BY <2>1, CheckStep
  <2>2. CASE ~HookCheck("CALLEX", "BOCX")
    BY <1>16, <1>17, <2>2 DEF HookCALLEXStart, Executing
  <2>. QED
    BY <2>1, <2>2
<1>18. CASE HookJMPStart
  BY <1>16, <1>18 DEF HookJMPStart, Executing
<1>19. CASE EbcLLCALLEX
  BY <1>8, <1>9, <1>19 DEF EbcLLCALLEX
<1>20. CASE ExecuteJMP
  <2>1. PICK ip \in {Program[Top.Ip].Target, Following(Top.Ip)} :
          SetTop([Top EXCEPT !.Ip = ip, !.At = "end"])
    BY <1>20 DEF ExecuteJMP
  <2>2. vms # <<>> /\ ~Top.Prompt /\ Top.At = "mid" /\ ~Executing("RET")
        /\ UNCHANGED callstack
    BY <1>20 DEF ExecuteJMP, Executing
  <2>. QED
    BY <1>8, <1>9, <2>1, <2>2
<1>. QED
  BY <1>2, <1>3, <1>4, <1>5, <1>6, <1>7, <1>10, <1>11, <1>12, <1>13, <1>14, <1>15,
     <1>17, <1>18, <1>19, <1>20 DEF VmStep

LEMMA CommandGood ==
  ASSUME CallInv, HookType', plain, Command
  PROVE  Good
<1>1. AtPrompt
  BY DEF Command, DebuggerGo, DebuggerGoTil, DebuggerStepInto, DebuggerStepOver,
     DebuggerStepOut, DebuggerQuit, DebuggerBreakOn, DebuggerCallStackClear,
     DebuggerTraceClear, Leave
<1>2. /\ vms # <<>> /\ Top.Prompt /\ Top \in VmContext /\ Settled(Top) /\ Waiting
      /\ Top.At \in {"start", "key", "fetch", "hooked", "stack"}
  BY <1>1, TopGood DEF AtPrompt, CallInv, HookType, Waiting, Top, Settled
<1>3. ASSUME NEW step \in BOOLEAN, Leave(step) PROVE Good
  <2>. DEFINE w == [Top EXCEPT !.Prompt = FALSE, !.Step = step]
  <2>1. w \in VmContext /\ w.At = Top.At /\ w.Frames = Top.Frames /\ w.Ip = Top.Ip
        /\ w.Stop = Top.Stop /\ SetTop(w) /\ ~w.Prompt
    BY <1>2, <1>3 DEF VmContext, Leave
  <2>. HIDE DEF w
  <2>2. Settled(w) /\ Shown(w) = Shown(Top) /\ w.At # "mid"
    BY <1>2, <2>1 DEF Settled, Shown
  <2>. QED
    BY <1>2, <1>3, <2>1, <2>2, Passes DEF Leave
<1>5. CASE DebuggerQuit
  <2>. DEFINE w == [Top EXCEPT !.Prompt = FALSE]
  <2>1. w \in VmContext /\ w.At = Top.At /\ w.Frames = Top.Frames /\ w.Ip = Top.Ip
        /\ w.Stop = Top.Stop /\ SetTop(w) /\ ~w.Prompt
    BY <1>2, <1>5 DEF VmContext, DebuggerQuit
  <2>. HIDE DEF w
  <2>2. Settled(w) /\ Shown(w) = Shown(Top) /\ w.At # "mid"
    BY <1>2, <2>1 DEF Settled, Shown
  <2>3. Waiting' /\ Top' = w /\ Held' = Held
    BY <1>2, <2>1, <2>2, TopBecomes DEF CallInv
  <2>4. Newest(Held)'
    <3>1. CallStackEntryCount' = 0 /\ Held \in Seq(Frame)
      BY <1>5, HeldType DEF DebuggerQuit, Emptied, CallInv
    <3>. QED
      BY <2>3, <3>1, NewestNone DEF Newest
  <2>. QED
    BY <2>2, <2>3, <2>4 DEF Good, SlotOpened, At
<1>6. ASSUME UNCHANGED vms
      PROVE  Waiting' /\ Held' = Held /\ SlotOpened'
  BY <1>2, <1>6 DEF Waiting, Held, Before, SlotOpened, At, Top
<1>7. CASE (\E flag \in Breaks : DebuggerBreakOn(flag)) \/ DebuggerTraceClear
  <2>1. UNCHANGED <<vms, callstack>>
    BY <1>7 DEF DebuggerBreakOn, DebuggerTraceClear
  <2>. QED
    BY <1>6, <2>1, SameIsNewest DEF Same, Good, CallInv
<1>8. CASE DebuggerCallStackClear
  <2>1. UNCHANGED vms /\ CallStackEntryCount' = 0 /\ Held \in Seq(Frame)
    BY <1>8, HeldType DEF DebuggerCallStackClear, CallInv
  <2>. QED
    BY <1>6, <2>1, NewestNone DEF Newest, Good
<1>. QED
  BY <1>3, <1>5, <1>7, <1>8 DEF Command, DebuggerGo, DebuggerGoTil, DebuggerStepInto,
     DebuggerStepOver, DebuggerStepOut, Executing

LEMMA CallInvNext ==
  ASSUME CallInv, [Next]_vars
  PROVE  CallInv'
<1>1. HookType' /\ EntriesOK'
  BY HookTypeKept, EntriesKept DEF CallInv
<1>2. ASSUME plain' PROVE Good
  <2>1. plain
    BY <1>2, PlainStays
  <2>2. CASE VmStep
    BY <1>1, <1>2, <2>1, <2>2, VmStepGood
  <2>3. CASE Command
    BY <1>1, <2>1, <2>3, CommandGood
  <2>4. CASE BreakEventFunc \/ UNCHANGED vars
    <3>1. UNCHANGED <<vms, callstack>>
      BY <2>4 DEF BreakEventFunc, vars
    <3>2. Waiting' /\ Held' = Held /\ SlotOpened'
      BY <2>1, <3>1 DEF CallInv, Waiting, Held, Before, SlotOpened, At, Top, Executing, callstack
    <3>. QED
      BY <2>1, <3>1, <3>2, SameIsNewest DEF Same, Good, CallInv
  <2>. QED
    BY <2>2, <2>3, <2>4 DEF Next
<1>. QED
  BY <1>1, <1>2 DEF CallInv, Good

\* Between two instructions the call stack holds the newest frames of all VM
\* contexts, oldest first, and never shows a frame that has returned, however
\* deep the program's calls and its native code's calls back go: until a fatal
\* exception ends a context, or a thunk is entered by CALLEX.
THEOREM CallStackNewest == Spec => []CallStackIsNewest
<1>1. Init => CallInv
  <2>. SUFFICES ASSUME Init PROVE CallInv
    OBVIOUS
  <2>1. HookType
    BY HookTypeInit
  <2>2. EntriesOK
    BY EmptyEntries DEF Init, EntriesOK
  <2>3. Waiting /\ SlotOpened
    BY DEF Init, Waiting, SlotOpened, At
  <2>4. Newest(Held)
    <3>1. CallStackEntryCount = 0 /\ Held \in Seq(Frame)
      BY <2>1, HeldType DEF Init
    <3>. QED
      BY <3>1, NewestNone DEF Newest
  <2>. QED
    BY <2>1, <2>2, <2>3, <2>4 DEF CallInv
<1>2. CallInv /\ [Next]_vars => CallInv'
  BY CallInvNext
<1>3. CallInv => CallStackIsNewest
  <2>. SUFFICES ASSUME CallInv, plain, \A i \in 1..Len(vms) : vms[i].At # "mid"
                PROVE  Newest(AllFrames)
    BY DEF CallStackIsNewest, Newest, AreNewest
  <2>1. Held = AllFrames
    <3>1. CASE vms = <<>>
      BY <3>1, FramesOfNone DEF Held, AllFrames
    <3>2. CASE vms # <<>>
      <4>1. vms \in Seq(GoodContext) /\ Top.At # "mid"
        BY <3>2, TopGood DEF CallInv, HookType, ContextsOK, Top
      <4>. QED
        BY <3>2, <4>1, FramesLast DEF Held, AllFrames, Before, Shown, Top
    <3>. QED
      BY <3>1, <3>2
  <2>. QED
    BY <2>1 DEF CallInv
<1>. QED
  BY <1>1, <1>2, <1>3, PTL DEF Spec
=============================================================================

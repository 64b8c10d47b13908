------------------------------ MODULE EdbHook ------------------------------
(***************************************************************************)
(* The debugger's hooks in the EBC virtual machine (EdbHook.c), the        *)
(* instructions that call them (EbcExecute.c), and the commands that arm   *)
(* them: step over, step out, go til, break on CALL, CALLEX, RET, entry    *)
(* point, thunk and key (EdbCmdStep.c, EdbCmdGo.c, EdbCmdBreak.c), with    *)
(* the call stack and the branch trace the hooks record.                   *)
(*                                                                         *)
(* VM contexts form a stack: a native function called with CALLEX may call *)
(* EBC code back, which runs in a VM context of its own on a stack of its  *)
(* own.  All contexts share the one mDebuggerPrivate.  Breakpoints,        *)
(* symbols and the words of memory are left out (EdbBreakpoint), as are    *)
(* timer callbacks that run EBC code between two hooks, the parameters     *)
(* saved with a call-stack entry, and FeatureFlags' GT bit, which no code  *)
(* reads.                                                                  *)
(***************************************************************************)
EXTENDS Integers, Sequences

CONSTANTS
  Program,       \* code: the instruction [Op, Target] at each address
  Entries,       \* entry points of images and of thunks
  CallStackMax,  \* EFI_DEBUGGER_CALLSTACK_MAX
  TraceMax,      \* EFI_DEBUGGER_TRACE_MAX
  MaxVm,         \* bound on the nesting of VM contexts
  MaxDepth,      \* frames a VM stack has room for, STACK_POOL_SIZE
  Breaks,        \* the breaks the user may turn on and off
  GoTils,        \* the addresses the user may "go til"
  Uses           \* what the program does: "native" code that calls EBC back,
                 \* CALLEX to the "thunk" of EBC code, a "fault" (a fatal
                 \* exception of an instruction)

Addr == DOMAIN Program
Branches == {"CALL", "CALLEX", "RET", "JMP"}

ASSUME ProgramAssumption ==
  /\ Program \in Seq([Op : Branches \cup {"OTHER"}, Target : Addr])
  /\ Program # <<>> /\ Program[Len(Program)].Op = "RET"
  /\ Entries \subseteq Addr /\ GoTils \subseteq Addr
\* The two sizes are the same number in EdbCommon.h, and EdbHook.c takes one for
\* the other when it shifts the trace.
ASSUME BoundAssumption ==
  /\ TraceMax = CallStackMax
  /\ CallStackMax \in Nat \ {0} /\ TraceMax \in Nat \ {0}
  /\ MaxVm \in Nat \ {0} /\ MaxDepth \in Nat \ {0}
ASSUME UsesAssumption ==
  /\ Breaks \subseteq {"BOC", "BOCX", "BOR", "BOE", "BOT", "BOK"}
  /\ Uses \subseteq {"native", "thunk", "fault"}

VARIABLES
  vms,             \* stack of VM contexts, the running one last
  CallStackEntry, CallStackEntryCount,
  TraceEntry, TraceEntryCount,
  StepContext,     \* BreakAddress and FramePointer
  GoTilContext,    \* its BreakAddress
  FeatureFlags,    \* what may stop the program
  StatusFlags,     \* what stopped it
  asked,           \* history: the last step over or step out given
  plain            \* history: no context has been ended by a fatal exception,
                   \* or has entered a thunk's code by CALLEX

callstack == <<CallStackEntry, CallStackEntryCount>>
trace == <<TraceEntry, TraceEntryCount>>
history == <<asked, plain>>
vars == <<vms, callstack, trace, StepContext, GoTilContext, FeatureFlags,
          StatusFlags, history>>

-----------------------------------------------------------------------------
(* VM contexts.  A frame is what CALL pushes: the CALL instruction it       *)
(* returns after, and, for its reader, where it went.  A context is at      *)
(* "start" (HookExecuteStart is next), at "key" (its check for a key is     *)
(* next), at "fetch" (the instruction is next), at "hooked" (past the break *)
(* check of its first hook), at "mid" or, for CALLEX, "native" (between its *)
(* two hooks), at "end" (HookExecuteEnd is next), at "stack" (the check of  *)
(* its stack is next) or "done".  In a handler (Prompt) it goes on from     *)
(* there when the handler returns.  The first frame's RET empties Frames.   *)

Image == -1 \* the source the hooks record for an image's entry point
Thunk == -2 \* and for a thunk

Frame == [Source : Addr \cup {Image, Thunk}, Dest : Addr]
Place == {"start", "key", "fetch", "hooked", "mid", "native", "end", "stack",
          "done"}
VmContext == [Ip : Addr, Frames : Seq(Frame), Step : BOOLEAN, At : Place,
              Prompt : BOOLEAN, Stop : BOOLEAN]

Top == vms[Len(vms)]
SetTop(v) == vms' = [vms EXCEPT ![Len(vms)] = v]
AtPrompt == vms # <<>> /\ Top.Prompt
At(place) == vms # <<>> /\ ~Top.Prompt /\ Top.At = place
Executing(op) == Program[Top.Ip].Op = op

\* Code addresses and frame pointers are both numbers: here <<0, address>>,
\* and <<context, depth>> for the frame pointer a context has at this depth.
\* What a frame pointer points to is the caller's one, 0 in the first frame.
NoAddress == <<0, 0>>
Code(a) == <<0, a>>
FramePtrAt(depth) == IF depth > 0 THEN <<Len(vms), depth>> ELSE NoAddress
FramePtr == FramePtrAt(Len(Top.Frames))

\* A program ends with a RET, which nothing follows.
Following(a) == IF a + 1 \in Addr THEN a + 1 ELSE a

-----------------------------------------------------------------------------
(* Call stack and trace.  The newest source is kept in the slot after the   *)
(* last entry until its destination completes it.                          *)

NoEntry == [Source |-> 0, Dest |-> 0]
NoTrace == [Source |-> 0, Dest |-> 0, Type |-> "CALL"]

\* Mutant: the array is not shifted when it is full.
CompletedUnshifted(entries, n, max, dest) ==
  [entries EXCEPT ![IF n < max THEN n ELSE max - 1].Dest = dest]

\* The array with the entry in slot n completed, and the oldest one dropped
\* when there is no slot left.
Completed(entries, n, max, dest) ==
  IF n < max
  THEN [entries EXCEPT ![n].Dest = dest]
  ELSE [i \in 0..max |->
          IF i = max THEN entries[max]
          ELSE IF i = max - 1 THEN [entries[max] EXCEPT !.Dest = dest]
          ELSE entries[i + 1]]

\* Mutant: the count goes on when the array is full.
IncreasedBeyond(n, max) == n + 1

Increased(n, max) == IF n < max THEN n + 1 ELSE max

PushCallstackSource(source) ==
  /\ CallStackEntry' =
       [CallStackEntry EXCEPT ![CallStackEntryCount].Source = source]
  /\ UNCHANGED CallStackEntryCount

PushCallstackDest(dest) ==
  /\ CallStackEntry' = Completed(CallStackEntry, CallStackEntryCount,
                                 CallStackMax, dest)
  /\ CallStackEntryCount' = Increased(CallStackEntryCount, CallStackMax)

PushCallstack(source, dest) ==
  /\ CallStackEntry' =
       Completed([CallStackEntry EXCEPT ![CallStackEntryCount].Source = source],
                 CallStackEntryCount, CallStackMax, dest)
  /\ CallStackEntryCount' = Increased(CallStackEntryCount, CallStackMax)

\* Mutant: a full call stack is not popped.
PopCallstackBelowMax ==
  IF CallStackEntryCount \in {0, CallStackMax}
  THEN UNCHANGED callstack
  ELSE /\ CallStackEntryCount' = CallStackEntryCount - 1
       /\ CallStackEntry' =
            [CallStackEntry EXCEPT ![CallStackEntryCount - 1] = NoEntry]

PopCallstack ==
  IF CallStackEntryCount = 0
  THEN UNCHANGED callstack
  ELSE /\ CallStackEntryCount' = CallStackEntryCount - 1
       /\ CallStackEntry' =
            [CallStackEntry EXCEPT ![CallStackEntryCount - 1] = NoEntry]

\* Mutant: the type of the branch is not recorded.
PushTraceSourceEntryUntyped(source, type) ==
  /\ TraceEntry' = [TraceEntry EXCEPT ![TraceEntryCount].Source = source]
  /\ UNCHANGED TraceEntryCount

PushTraceSourceEntry(source, type) ==
  /\ TraceEntry' = [TraceEntry EXCEPT ![TraceEntryCount].Source = source,
                                      ![TraceEntryCount].Type = type]
  /\ UNCHANGED TraceEntryCount

PushTraceDestEntry(dest) ==
  /\ TraceEntry' = Completed(TraceEntry, TraceEntryCount, TraceMax, dest)
  /\ TraceEntryCount' = Increased(TraceEntryCount, TraceMax)

-----------------------------------------------------------------------------
(* Sessions.                                                               *)

\* EbcDebugSignalException up to the first command: the step flag is cleared,
\* and a fatal exception ends the context once its instruction is done.
SignalException(v, fatal) ==
  /\ SetTop([v EXCEPT !.Prompt = TRUE, !.Step = FALSE,
                      !.Stop = v.Stop \/ fatal])
  /\ asked' = [asked EXCEPT !.Live = FALSE]
  /\ plain' = (plain /\ ~fatal)

CheckHookFlag(flag, v) ==
  IF flag \in FeatureFlags
  THEN SignalException(v, FALSE) /\ StatusFlags' = flag
  ELSE SetTop(v) /\ UNCHANGED <<StatusFlags, history>>

NoStep == [BreakAddress |-> NoAddress, FramePointer |-> NoAddress]

\* Mutant: the frame pointer of the callee is recorded for a step over.
PushStepEntryCallee(ret, old, caller) ==
  /\ StepContext' =
       IF "STEPOUT" \in FeatureFlags
       THEN [BreakAddress |-> caller, FramePointer |-> old]
       ELSE IF "STEPOVER" \in FeatureFlags
       THEN [BreakAddress |-> ret,
             FramePointer |-> FramePtrAt(Len(Top.Frames) + 1)]
       ELSE StepContext
  /\ FeatureFlags' = FeatureFlags \ {"STEPOVER", "STEPOUT"}

\* A step over ends at the return address in the old frame, a step out, which
\* is recorded after it, in the caller's frame.
PushStepEntry(ret, old, caller) ==
  /\ StepContext' =
       IF "STEPOUT" \in FeatureFlags
       THEN [BreakAddress |-> caller, FramePointer |-> old]
       ELSE IF "STEPOVER" \in FeatureFlags
       THEN [BreakAddress |-> ret, FramePointer |-> old]
       ELSE StepContext
  /\ FeatureFlags' = FeatureFlags \ {"STEPOVER", "STEPOUT"}

-----------------------------------------------------------------------------
(* Starting and ending a context.                                          *)

StartVm(entry, source, flag) ==
  /\ Len(vms) < MaxVm
  /\ vms # <<>> => At("native") /\ "native" \in Uses
  /\ vms' = Append(vms, [Ip |-> entry,
                         Frames |-> <<[Source |-> source, Dest |-> entry]>>,
                         Step |-> FALSE, At |-> "start",
                         Prompt |-> flag \in FeatureFlags, Stop |-> FALSE])
  /\ IF flag \in FeatureFlags
     THEN StatusFlags' = flag /\ asked' = [asked EXCEPT !.Live = FALSE]
     ELSE UNCHANGED <<StatusFlags, asked>>
  /\ PushCallstack(source, entry)
  /\ UNCHANGED <<trace, StepContext, GoTilContext, FeatureFlags, plain>>

ExecuteEbcImageEntryPoint(entry) == StartVm(entry, Image, "BOE")

EbcInterpret(entry) == StartVm(entry, Thunk, "BOT")

ReturnFromVm ==
  /\ At("done")
  /\ vms' = SubSeq(vms, 1, Len(vms) - 1)
  /\ UNCHANGED <<callstack, trace, StepContext, GoTilContext, FeatureFlags,
                 StatusFlags, history>>

-----------------------------------------------------------------------------
(* The loop of EbcExecute.                                                 *)

\* Mutant: the frame is not looked at.
StepOverHitAnyFrame == StepContext.BreakAddress = Code(Top.Ip)

StepOverHit == /\ StepContext.BreakAddress = Code(Top.Ip)
               /\ StepContext.FramePointer = FramePtr
StepOutHit == StepContext.BreakAddress = FramePtr

\* One of its breaks at most is due before an instruction.  After a step over
\* or step out the code goes on to look for a key; after a go til it does not.
HookExecuteStart ==
  /\ At("start")
  /\ IF GoTilContext = Code(Top.Ip)
     THEN /\ StatusFlags' = "GT"
          /\ GoTilContext' = NoAddress
          /\ SignalException([Top EXCEPT !.At = "fetch"], FALSE)
          /\ UNCHANGED StepContext
     ELSE IF StepOverHit \/ StepOutHit
     THEN /\ StatusFlags' = IF StepOverHit THEN "STEPOVER" ELSE "STEPOUT"
          /\ StepContext' = NoStep
          /\ SignalException([Top EXCEPT !.At = "key"], FALSE)
          /\ UNCHANGED GoTilContext
     ELSE /\ SetTop([Top EXCEPT !.At = "key"])
          /\ UNCHANGED <<StatusFlags, StepContext, GoTilContext, history>>
  /\ UNCHANGED <<callstack, trace, FeatureFlags>>

\* A key stops the program only at TPL_APPLICATION; EBC code also runs at
\* raised TPL, from notification functions.
HookExecuteStartKey ==
  /\ At("key")
  /\ \/ /\ StatusFlags = "BOK"
        /\ SignalException([Top EXCEPT !.At = "fetch"], FALSE)
     \/ SetTop([Top EXCEPT !.At = "fetch"]) /\ UNCHANGED history
  /\ UNCHANGED <<callstack, trace, StepContext, GoTilContext, FeatureFlags,
                 StatusFlags>>

\* Any instruction without hooks.
ExecuteOther ==
  /\ At("fetch") /\ Executing("OTHER")
  /\ SetTop([Top EXCEPT !.Ip = Following(Top.Ip), !.At = "end"])
  /\ UNCHANGED <<callstack, trace, StepContext, GoTilContext, FeatureFlags,
                 StatusFlags, history>>

\* An opcode without a function is refused before any hook and ends the loop at
\* once.
InvalidOpcode ==
  /\ At("start") /\ Executing("OTHER")
  /\ SignalException([Top EXCEPT !.At = "done"], TRUE)

\* A fatal exception: for an invalid opcode; in an instruction without hooks, or
\* a jump, which is then given up; or after the first hook of CALL or RET, such
\* as the alignment check of RET, which goes on.
SignalFault ==
  /\ "fault" \in Uses /\ vms # <<>> /\ ~Top.Stop
  /\ \/ InvalidOpcode
     \/ /\ At("fetch") /\ (Executing("OTHER") \/ Executing("JMP"))
        /\ SignalException([Top EXCEPT !.At = "end"], TRUE)
     \/ /\ At("mid")
        /\ Executing("CALL") \/ (Executing("RET") /\ Len(Top.Frames) > 1)
        /\ SignalException(Top, TRUE)
  /\ UNCHANGED <<callstack, trace, StepContext, GoTilContext, FeatureFlags,
                 StatusFlags>>

\* HookExecuteEnd (*FramePtr is where a step out ends) and the step flag.
HookExecuteEnd ==
  /\ At("end")
  /\ StepContext' =
       IF "STEPOUT" \in FeatureFlags
       THEN [BreakAddress |-> FramePtrAt(Len(Top.Frames) - 1),
             FramePointer |-> FramePtr]
       ELSE StepContext
  /\ FeatureFlags' = FeatureFlags \ {"STEPOUT"}
  /\ IF Top.Step
     THEN SignalException([Top EXCEPT !.At = "stack"], FALSE)
     ELSE SetTop([Top EXCEPT !.At = "stack"]) /\ UNCHANGED history
  /\ UNCHANGED <<callstack, trace, GoTilContext, StatusFlags>>

\* The stack is checked, and the loop goes on unless the context is done.
CheckStack ==
  /\ At("stack")
  /\ IF Len(Top.Frames) > MaxDepth
     THEN SignalException([Top EXCEPT !.At = "done"], TRUE)
     ELSE /\ SetTop([Top EXCEPT !.At = IF Top.Stop THEN "done" ELSE "start"])
          /\ UNCHANGED history
  /\ UNCHANGED <<callstack, trace, StepContext, GoTilContext, FeatureFlags,
                 StatusFlags>>

-----------------------------------------------------------------------------
(* The instructions with hooks.                                            *)

\* The break check of the first hook of CALL, CALLEX and RET, which records
\* its source only after the session it may begin.
HookCheck(op, flag) ==
  /\ At("fetch") /\ Executing(op)
  /\ CheckHookFlag(flag, [Top EXCEPT !.At = "hooked"])
  /\ UNCHANGED <<callstack, trace, StepContext, GoTilContext, FeatureFlags>>

HookCALLStart ==
  \/ HookCheck("CALL", "BOC")
  \/ /\ At("hooked") /\ Executing("CALL")
     /\ PushCallstackSource(Top.Ip)
     /\ PushTraceSourceEntry(Top.Ip, "CALL")
     /\ SetTop([Top EXCEPT !.At = "mid"])
     /\ UNCHANGED <<StepContext, GoTilContext, FeatureFlags, StatusFlags,
                    history>>

HookCALLEnd(dest, ret, old, caller) ==
  /\ PushCallstackDest(dest)
  /\ PushTraceDestEntry(dest)
  /\ PushStepEntry(ret, old, caller)

ExecuteCALL ==
  LET dest == Program[Top.Ip].Target
      depth == Len(Top.Frames)
  IN  /\ At("mid") /\ Executing("CALL")
      /\ SetTop([Top EXCEPT
           !.Ip = dest, !.At = "end",
           !.Frames = Append(@, [Source |-> Top.Ip, Dest |-> dest])])
      /\ HookCALLEnd(dest, Code(Following(Top.Ip)), FramePtr,
                     FramePtrAt(depth - 1))
      /\ UNCHANGED <<GoTilContext, StatusFlags, history>>

HookCALLEXStart ==
  \/ HookCheck("CALLEX", "BOCX")
  \/ /\ At("hooked") /\ Executing("CALLEX")
     /\ PushTraceSourceEntry(Top.Ip, "CALLEX")
     /\ SetTop([Top EXCEPT !.At = "native"])
     /\ UNCHANGED <<callstack, StepContext, GoTilContext, FeatureFlags,
                    StatusFlags, history>>

\* Native code returns, or the callee was a thunk: then EBC code is entered
\* in this very context, with a frame but no entry of the call stack.
EbcLLCALLEX ==
  /\ At("native")
  /\ \/ /\ SetTop([Top EXCEPT !.Ip = Following(Top.Ip), !.At = "end"])
        /\ PushTraceDestEntry(Following(Top.Ip))
        /\ UNCHANGED plain
     \/ /\ "thunk" \in Uses
        /\ plain' = FALSE
        /\ \E entry \in Entries :
             /\ SetTop([Top EXCEPT
                  !.Ip = entry, !.At = "end",
                  !.Frames = Append(@, [Source |-> Top.Ip, Dest |-> entry])])
             /\ PushTraceDestEntry(entry)
  /\ UNCHANGED <<callstack, StepContext, GoTilContext, FeatureFlags,
                 StatusFlags, asked>>

HookRETStart ==
  \/ HookCheck("RET", "BOR")
  \/ /\ At("hooked") /\ Executing("RET")
     /\ PopCallstack
     /\ PushTraceSourceEntry(Top.Ip, "RET")
     /\ SetTop([Top EXCEPT !.At = "mid"])
     /\ UNCHANGED <<StepContext, GoTilContext, FeatureFlags, StatusFlags,
                    history>>

\* The first frame's RET ends the context and leaves its Ip alone.
ExecuteRET ==
  LET depth == Len(Top.Frames)
      last == depth = 1
      ip == IF last THEN Top.Ip ELSE Following(Top.Frames[depth].Source)
  IN  /\ At("mid") /\ Executing("RET")
      /\ SetTop([Top EXCEPT !.Ip = ip, !.At = "end", !.Stop = @ \/ last,
                            !.Frames = SubSeq(@, 1, depth - 1)])
      /\ PushTraceDestEntry(ip)
      /\ UNCHANGED <<callstack, StepContext, GoTilContext, FeatureFlags,
                     StatusFlags, history>>

HookJMPStart ==
  /\ At("fetch") /\ Executing("JMP")
  /\ PushTraceSourceEntry(Top.Ip, "JMP")
  /\ SetTop([Top EXCEPT !.At = "mid"])
  /\ UNCHANGED <<callstack, StepContext, GoTilContext, FeatureFlags,
                 StatusFlags, history>>

\* Taken or not; JMP8 records its own type and is not told apart.
ExecuteJMP ==
  /\ At("mid") /\ Executing("JMP")
  /\ \E ip \in {Program[Top.Ip].Target, Following(Top.Ip)} :
       /\ SetTop([Top EXCEPT !.Ip = ip, !.At = "end"])
       /\ PushTraceDestEntry(ip)
  /\ UNCHANGED <<callstack, StepContext, GoTilContext, FeatureFlags,
                 StatusFlags, history>>

-----------------------------------------------------------------------------
(* The timer, and the commands given at the prompt.                        *)

\* A key waits when the timer looks.
BreakEventFunc ==
  /\ "BOK" \in FeatureFlags
  /\ StatusFlags' = "BOK"
  /\ UNCHANGED <<vms, callstack, trace, StepContext, GoTilContext,
                 FeatureFlags, history>>

\* Mutant: the status is kept.
LeaveWithStatus(step) ==
  /\ AtPrompt
  /\ SetTop([Top EXCEPT !.Prompt = FALSE, !.Step = step])
  /\ StepContext' = NoStep
  /\ UNCHANGED <<StatusFlags, callstack, trace, plain>>

\* DeinitDebuggerPrivateData for every way to go on but Quit.
Leave(step) ==
  /\ AtPrompt
  /\ SetTop([Top EXCEPT !.Prompt = FALSE, !.Step = step])
  /\ StepContext' = NoStep
  /\ StatusFlags' = "none"
  /\ UNCHANGED <<callstack, trace, plain>>

DebuggerGo ==
  /\ Leave(FALSE)
  /\ UNCHANGED <<GoTilContext, FeatureFlags, asked>>

DebuggerGoTil(a) ==
  /\ Leave(FALSE)
  /\ GoTilContext' = Code(a)
  /\ UNCHANGED <<FeatureFlags, asked>>

DebuggerStepInto ==
  /\ Leave(TRUE)
  /\ UNCHANGED <<GoTilContext, FeatureFlags, asked>>

\* No step over or step out is still to be recorded, left over from a session
\* that ended before its instruction was executed.
NonePending == FeatureFlags \cap {"STEPOVER", "STEPOUT"} = {}

DebuggerStepOver ==
  /\ Leave(~Executing("CALL"))
  /\ IF Executing("CALL")
     THEN /\ FeatureFlags' = FeatureFlags \cup {"STEPOVER"}
          /\ asked' = [Kind |-> "over", Live |-> TRUE, Alone |-> NonePending,
                       Frame |-> FramePtr, Ret |-> Code(Following(Top.Ip))]
     ELSE UNCHANGED <<FeatureFlags, asked>>
  /\ UNCHANGED GoTilContext

\* What was asked for is to be back in the caller's frame.
DebuggerStepOut ==
  /\ Leave(Executing("RET"))
  /\ IF Executing("RET")
     THEN UNCHANGED <<FeatureFlags, asked>>
     ELSE /\ FeatureFlags' = FeatureFlags \cup {"STEPOUT"}
          /\ asked' = [Kind |-> "out", Live |-> TRUE, Alone |-> NonePending,
                       Frame |-> FramePtrAt(Len(Top.Frames) - 1),
                       Ret |-> NoAddress]
  /\ UNCHANGED GoTilContext

Emptied ==
  /\ CallStackEntry' = [i \in 0..CallStackMax |-> NoEntry]
  /\ CallStackEntryCount' = 0
  /\ TraceEntry' = [i \in 0..TraceMax |-> NoTrace]
  /\ TraceEntryCount' = 0

DebuggerQuit ==
  /\ AtPrompt
  /\ SetTop([Top EXCEPT !.Prompt = FALSE])
  /\ FeatureFlags' = {"BOE", "BOT"}
  /\ StepContext' = NoStep
  /\ StatusFlags' = "none"
  /\ Emptied
  /\ UNCHANGED <<GoTilContext, history>>

DebuggerBreakOn(flag) ==
  /\ AtPrompt
  /\ \/ FeatureFlags' = FeatureFlags \cup {flag}
     \/ FeatureFlags' = FeatureFlags \ {flag}
  /\ UNCHANGED <<vms, callstack, trace, StepContext, GoTilContext,
                 StatusFlags, history>>

DebuggerCallStackClear ==
  /\ AtPrompt
  /\ CallStackEntry' = [i \in 0..CallStackMax |-> NoEntry]
  /\ CallStackEntryCount' = 0
  /\ UNCHANGED <<vms, trace, StepContext, GoTilContext, FeatureFlags,
                 StatusFlags, history>>

DebuggerTraceClear ==
  /\ AtPrompt
  /\ TraceEntry' = [i \in 0..TraceMax |-> NoTrace]
  /\ TraceEntryCount' = 0
  /\ UNCHANGED <<vms, callstack, StepContext, GoTilContext, FeatureFlags,
                 StatusFlags, history>>

-----------------------------------------------------------------------------
Init ==
  /\ vms = <<>>
  /\ CallStackEntry = [i \in 0..CallStackMax |-> NoEntry]
  /\ CallStackEntryCount = 0
  /\ TraceEntry = [i \in 0..TraceMax |-> NoTrace]
  /\ TraceEntryCount = 0
  /\ StepContext = NoStep
  /\ GoTilContext = NoAddress
  /\ FeatureFlags = {"BOE", "BOT"}
  /\ StatusFlags = "none"
  /\ asked = [Kind |-> "none", Live |-> FALSE, Alone |-> FALSE,
              Frame |-> NoAddress, Ret |-> NoAddress]
  /\ plain = TRUE

VmStep ==
  \/ \E entry \in Entries :
       ExecuteEbcImageEntryPoint(entry) \/ EbcInterpret(entry)
  \/ ReturnFromVm
  \/ HookExecuteStart
  \/ HookExecuteStartKey
  \/ ExecuteOther
  \/ SignalFault
  \/ HookCALLStart
  \/ ExecuteCALL
  \/ HookCALLEXStart
  \/ EbcLLCALLEX
  \/ HookRETStart
  \/ ExecuteRET
  \/ HookJMPStart
  \/ ExecuteJMP
  \/ HookExecuteEnd
  \/ CheckStack

Command ==
  \/ DebuggerGo
  \/ \E a \in GoTils : DebuggerGoTil(a)
  \/ DebuggerStepInto
  \/ DebuggerStepOver
  \/ DebuggerStepOut
  \/ DebuggerQuit
  \/ \E flag \in Breaks : DebuggerBreakOn(flag)
  \/ DebuggerCallStackClear
  \/ DebuggerTraceClear

Next == VmStep \/ BreakEventFunc \/ Command

Spec == Init /\ [][Next]_vars

-----------------------------------------------------------------------------
(* Properties.                                                             *)

TypeOK ==
  /\ vms \in Seq(VmContext) /\ Len(vms) <= MaxVm
  /\ CallStackEntryCount \in 0..CallStackMax
  /\ TraceEntryCount \in 0..TraceMax
  /\ \A i \in 0..TraceMax : TraceEntry[i].Type \in Branches
  /\ FeatureFlags \subseteq {"BOC", "BOCX", "BOR", "BOE", "BOT", "BOK",
                             "STEPOVER", "STEPOUT"}
  /\ StatusFlags \in {"none", "BOC", "BOCX", "BOR", "BOE", "BOT", "BOK",
                      "STEPOVER", "STEPOUT", "GT"}

\* The frames of these contexts, oldest first.
FramesOf(contexts) ==
  LET first[n \in 0..Len(contexts)] ==
        IF n = 0 THEN <<>> ELSE first[n - 1] \o contexts[n].Frames
  IN  first[Len(contexts)]

AllFrames == FramesOf(vms)

\* Between two instructions the call stack holds the newest frames of all VM
\* contexts, oldest first, and never shows a frame that has returned.  (Plain:
\* a context that ends by a fatal exception pops nothing, and code entered by
\* CALLEX of a thunk pops what nobody has pushed.)
CallStackIsNewest ==
  LET frames == AllFrames
      rest == Len(frames) - CallStackEntryCount
  IN  plain /\ (\A i \in 1..Len(vms) : vms[i].At # "mid") =>
        /\ rest >= 0
        /\ \A i \in 1..CallStackEntryCount :
             CallStackEntry[i - 1] = frames[rest + i]

\* The second hook of an instruction finds the source its first hook left:
\* the assertion of PushTraceDestEntry.  (Plain: Quit in the session of a fault
\* between the two empties the trace.)
TraceTypeAgrees ==
  plain /\ (At("mid") \/ At("native")) =>
    TraceEntry[TraceEntryCount].Type = Program[Top.Ip].Op

Successors(a) ==
  CASE Program[a].Op = "CALL" -> {Program[a].Target}
    [] Program[a].Op = "CALLEX" -> {Following(a)}
    [] Program[a].Op = "JMP" -> {Program[a].Target, Following(a)}
    [] OTHER -> {a} \cup {Following(c) : c \in {b \in Addr :
                                           Program[b].Op = "CALL"}}

IsBranch(e) ==
  /\ Program[e.Source].Op = e.Type
  /\ e.Dest \in Successors(e.Source)

\* From a the program runs to b without a branch.
RunsTo(a, b) == a <= b /\ \A c \in a..b - 1 : Program[c].Op = "OTHER"

\* After the branch e, which may have ended a context, the program gets to a.
Follows(e, a) ==
  \/ RunsTo(e.Dest, a)
  \/ /\ e.Type = "RET" /\ e.Dest = e.Source
     /\ \E entry \in Entries : RunsTo(entry, a)

\* The trace is a path through the program: each entry is a branch with a
\* destination it can have, and between two entries the program only ran
\* forward through instructions that do not branch.  Neither dropping the
\* oldest entry nor a session inside a branch tears it.
TraceIsPath ==
  plain => \A i \in 0..TraceEntryCount - 1 :
    /\ IsBranch(TraceEntry[i])
    /\ i + 1 < TraceEntryCount => Follows(TraceEntry[i], TraceEntry[i + 1].Source)

\* A step over stops after the CALL it was given for, in the frame it was
\* given in, and never in a deeper activation of the same code; a step out
\* stops in the frame that called the one it was given in.  (Alone: no other
\* request was pending when it was given.)
StepStopsWhereAsked ==
  AtPrompt /\ asked.Alone /\ plain =>
    /\ StatusFlags = "STEPOVER" =>
         /\ asked.Kind = "over"
         /\ Code(Top.Ip) = asked.Ret /\ FramePtr = asked.Frame
    /\ StatusFlags = "STEPOUT" =>
         asked.Kind = "out" /\ FramePtr = asked.Frame

\* Where the last step over or step out is to stop.
WhereAsked ==
  /\ At("fetch") /\ FramePtr = asked.Frame
  /\ asked.Kind = "over" => Code(Top.Ip) = asked.Ret

\* Unless the program stops for another reason first, no instruction of the
\* place a step was to stop at is executed before it stops there.  (Plain: a
\* step out given where the stack has overflowed is left to the next context.)
StepNotMissed == plain /\ asked.Live /\ asked.Alone => ~WhereAsked

\* A key stops the program only while breaking on keys is on: turning it off
\* forgets a key the timer has seen.
KeyBreaksWhileOn ==
  ~AtPrompt /\ StatusFlags = "BOK" => "BOK" \in FeatureFlags
=============================================================================

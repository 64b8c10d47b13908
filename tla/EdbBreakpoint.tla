--------------------------- MODULE EdbBreakpoint ---------------------------
(***************************************************************************)
(* Software breakpoints of the EBC debugger: the list kept by the          *)
(* breakpoint commands (EdbCmdBreakpoint.c), the exception handler that    *)
(* patches and restores program memory around every debugging session      *)
(* (Edb.c), and the virtual machine that runs into the patches             *)
(* (ExecuteBREAK and the loop of EbcExecute in EbcExecute.c).              *)
(*                                                                         *)
(* VM contexts form a stack: native code called from EBC, or a timer       *)
(* callback, may enter EBC again through a thunk (EbcInterpret), even      *)
(* while the handler of an outer context waits for a command.  All of them *)
(* share the one mDebuggerPrivate and the one static mInitialized.         *)
(*                                                                         *)
(* Abstractions.  Memory is a ring of 16-bit code words, each one a whole  *)
(* instruction; the program does not modify itself and commands that write *)
(* memory or registers are left out.  Which hook condition holds is not    *)
(* modelled here (any may hold at any instruction), nor are symbols,       *)
(* FeatureFlags, StatusFlags and the step contexts.                        *)
(***************************************************************************)
EXTENDS Integers, Sequences

CONSTANTS
  LastAddr,   \* code words live at addresses 1..LastAddr
  Program,    \* the program as loaded: address -> 16-bit word
  BpMax,      \* EFI_DEBUGGER_BREAKPOINT_MAX
  MaxVm,      \* bound on the nesting of VM contexts
  Forgets     \* TRUE: the handler clears mInitialized on entry, as it does;
              \* FALSE: it keeps it, as its STATIC declaration provides for

Addr == 1..LastAddr
Word == 0..65535
BREAK3 == 768 \* 0x0300

ASSUME AddrAssumption == LastAddr \in Nat \ {0}
ASSUME ProgramAssumption == Program \in [Addr -> Word]
ASSUME BoundAssumption == BpMax \in Nat \ {0} /\ MaxVm \in Nat \ {0}
ASSUME ForgetsAssumption == Forgets \in BOOLEAN

VARIABLES
  mem,           \* program memory, with the debugger's patches
  vms,           \* stack of VM contexts, the running one last
  bp,            \* DebuggerBreakpointContext; slot BpMax is the current one
  count,         \* DebuggerBreakpointCount
  mInitialized   \* static variable of EdbExceptionHandler

vars == <<mem, vms, bp, count, mInitialized>>

Slot == 0..BpMax
Breakpoint ==
  [BreakpointAddress : {0} \cup Addr, OldInstruction : Word, State : BOOLEAN]
NoBreakpoint ==
  [BreakpointAddress |-> 0, OldInstruction |-> 0, State |-> FALSE]

\* Where a VM context is: about to execute, past an instruction with the step
\* flag set, or inside the exception handler, raised by BREAK 3, by
\* HookExecuteStart, by a hook within an instruction, or by the step flag.
Handling == {"inBreak", "inStart", "inMid", "inStep"}
VmContext ==
  [Ip : Addr, Step : BOOLEAN, At : {"running", "ended"} \cup Handling]

Top == vms[Len(vms)]
SetTop(v) == vms' = [vms EXCEPT ![Len(vms)] = v]

\* The word that follows a, the ring closing after the last one.
Following(a) == IF a = LastAddr THEN 1 ELSE a + 1
Preceding(a) == IF a = 1 THEN LastAddr ELSE a - 1

Enabled(i) == i < count /\ i < BpMax /\ bp[i].State
EnabledAt(a) == {i \in Slot : Enabled(i) /\ bp[i].BreakpointAddress = a}
Duplicated(a) == \E i \in Slot : i < count /\ bp[i].BreakpointAddress = a

-----------------------------------------------------------------------------
(* Patching and restoring.                                                 *)

\* Memory after the old instruction of every enabled breakpoint is put back.
Restored ==
  [a \in Addr |->
     IF EnabledAt(a) = {} THEN mem[a]
     ELSE bp[CHOOSE i \in EnabledAt(a) :
               \A j \in EnabledAt(a) : j <= i].OldInstruction]

EdbClearAllBreakpoint(NeedRemove) ==
  /\ mem' = Restored
  /\ count' = IF NeedRemove THEN 0 ELSE count
  /\ bp' = IF NeedRemove THEN [i \in Slot |-> NoBreakpoint] ELSE bp

\* Mutant: the loop stops one entry short.
EdbSetAllBreakpointShort ==
  /\ mem' = [a \in Addr |->
               IF \E i \in EnabledAt(a) : i < count - 1 THEN BREAK3
               ELSE mem[a]]
  /\ UNCHANGED <<bp, count>>

\* BREAK 3 in every enabled breakpoint, save the one the session stopped at.
EdbSetAllBreakpoint ==
  /\ mem' = [a \in Addr |->
               IF a = bp[BpMax].BreakpointAddress
               THEN bp[BpMax].OldInstruction
               ELSE IF EnabledAt(a) # {} THEN BREAK3 ELSE mem[a]]
  /\ UNCHANGED <<bp, count>>

\* The breakpoint EdbCheckBreakpoint finds for a context stopped at ip, and
\* the ip it leaves: the word before ip is looked up first, then ip itself.
EdbCheckBreakpoint(ip) ==
  LET First(a) == bp[CHOOSE i \in EnabledAt(a) :
                       \A j \in EnabledAt(a) : i <= j]
  IN  IF EnabledAt(Preceding(ip)) # {}
      THEN [current |-> First(Preceding(ip)), Ip |-> Preceding(ip)]
      ELSE IF EnabledAt(ip) # {}
           THEN [current |-> First(ip), Ip |-> ip]
           ELSE [current |-> NoBreakpoint, Ip |-> ip]

-----------------------------------------------------------------------------
(* Entering and leaving the handler.                                       *)

\* EdbExceptionHandler up to its command loop, for an exception raised by the
\* running context at ip; every one but the step exception is
\* EXCEPT_EBC_BREAKPOINT.
InitDebuggerPrivateData(at, ip) ==
  LET initialized == mInitialized /\ ~Forgets
      check == IF at = "inStep" THEN [current |-> bp[BpMax], Ip |-> ip]
                                ELSE EdbCheckBreakpoint(ip)
  IN  /\ mInitialized' = TRUE
      /\ \/ /\ ~initialized
            /\ count' = 0
            /\ bp' = [i \in Slot |-> NoBreakpoint]
            /\ mem' = mem
            /\ SetTop([Ip |-> ip, Step |-> FALSE, At |-> at])
         \/ /\ initialized
            /\ bp' = [bp EXCEPT ![BpMax] = check.current]
            /\ mem' = Restored
            /\ count' = count
            /\ SetTop([Ip |-> check.Ip, Step |-> FALSE, At |-> at])

\* DeinitDebuggerPrivateData, with the value mInitialized has by then.
DeinitDebuggerPrivateData(initialized) ==
  IF initialized THEN EdbSetAllBreakpoint ELSE EdbClearAllBreakpoint(TRUE)

\* Where the context goes on when the handler returns: after the BREAK (which
\* is stepped over by ExecuteBREAK), at the same instruction, after the
\* instruction the hook interrupted, or with the next instruction.
Resume(step) ==
  LET After(ip) == [Ip |-> ip, Step |-> step,
                    At |-> IF step THEN "ended" ELSE "running"]
  IN  CASE Top.At = "inBreak" -> SetTop(After(Following(Top.Ip)))
        [] Top.At = "inMid"   -> \E ip \in Addr : SetTop(After(ip))
        [] OTHER -> SetTop([Ip |-> Top.Ip, Step |-> step, At |-> "running"])

-----------------------------------------------------------------------------
(* The virtual machine.                                                    *)

\* EbcInterpret: a thunk is called, from native code or from a timer callback.
EbcInterpret(entry) ==
  /\ Len(vms) < MaxVm
  /\ vms' = Append(vms, [Ip |-> entry, Step |-> FALSE, At |-> "running"])
  /\ UNCHANGED <<mem, bp, count, mInitialized>>

\* GoTil, StepOver, StepOut or a key stops the context before it executes.
HookExecuteStart ==
  /\ Top.At = "running"
  /\ InitDebuggerPrivateData("inStart", Top.Ip)

\* Break on CALL, CALLEX or RET stops it within the instruction.
HookInInstruction ==
  /\ Top.At = "running"
  /\ mem[Top.Ip] # BREAK3
  /\ InitDebuggerPrivateData("inMid", Top.Ip)

\* The exception is raised before the instruction pointer advances.
ExecuteBREAK ==
  /\ Top.At = "running"
  /\ mem[Top.Ip] = BREAK3
  /\ InitDebuggerPrivateData("inBreak", Top.Ip)

\* Any other instruction, wherever it leads.
ExecuteFunction(ip) ==
  /\ Top.At = "running"
  /\ mem[Top.Ip] # BREAK3
  /\ SetTop([Ip |-> ip, Step |-> Top.Step,
             At |-> IF Top.Step THEN "ended" ELSE "running"])
  /\ UNCHANGED <<mem, bp, count, mInitialized>>

\* The step flag is looked at once the instruction is done.
SignalStep ==
  /\ Top.At = "ended"
  /\ InitDebuggerPrivateData("inStep", Top.Ip)

\* RET at the bottom of the context's stack ends it.
ReturnFromVm ==
  /\ Len(vms) > 1
  /\ Top.At = "running"
  /\ mem[Top.Ip] # BREAK3
  /\ vms' = SubSeq(vms, 1, Len(vms) - 1)
  /\ UNCHANGED <<mem, bp, count, mInitialized>>

-----------------------------------------------------------------------------
(* The commands, given at the prompt of the innermost handler.             *)

AtPrompt == Top.At \in Handling

\* Mutants: each leaves out one of the three checks, or the saved word.
DebuggerBreakpointAddTwice(a) ==
  /\ AtPrompt /\ mem[a] # BREAK3 /\ count < BpMax
  /\ bp' = [bp EXCEPT ![count] = [BreakpointAddress |-> a,
                                  OldInstruction |-> mem[a],
                                  State |-> TRUE]]
  /\ count' = count + 1
  /\ UNCHANGED <<mem, vms, mInitialized>>

DebuggerBreakpointAddBeyond(a) ==
  /\ AtPrompt /\ mem[a] # BREAK3 /\ ~Duplicated(a) /\ count <= BpMax
  /\ bp' = [bp EXCEPT ![count] = [BreakpointAddress |-> a,
                                  OldInstruction |-> mem[a],
                                  State |-> TRUE]]
  /\ count' = count + 1
  /\ UNCHANGED <<mem, vms, mInitialized>>

DebuggerBreakpointAddUnsaved(a) ==
  /\ AtPrompt /\ mem[a] # BREAK3 /\ ~Duplicated(a) /\ count < BpMax
  /\ bp' = [bp EXCEPT ![count] = [BreakpointAddress |-> a,
                                  OldInstruction |-> 0,
                                  State |-> TRUE]]
  /\ count' = count + 1
  /\ UNCHANGED <<mem, vms, mInitialized>>

DebuggerBreakpointAdd(a) ==
  /\ AtPrompt
  /\ ~Duplicated(a)
  /\ mem[a] # BREAK3
  /\ count < BpMax
  /\ bp' = [bp EXCEPT ![count] = [BreakpointAddress |-> a,
                                  OldInstruction |-> mem[a],
                                  State |-> TRUE]]
  /\ count' = count + 1
  /\ UNCHANGED <<mem, vms, mInitialized>>

DebuggerBreakpointDel(index) ==
  /\ AtPrompt
  /\ index < count /\ index < BpMax
  /\ bp' = [i \in Slot |-> IF index <= i /\ i < count - 1 THEN bp[i + 1]
                           ELSE IF i = count - 1 THEN NoBreakpoint
                           ELSE bp[i]]
  /\ count' = count - 1
  /\ UNCHANGED <<mem, vms, mInitialized>>

DebuggerBreakpointClearAll ==
  /\ AtPrompt
  /\ count' = 0
  /\ bp' = [i \in Slot |-> NoBreakpoint]
  /\ UNCHANGED <<mem, vms, mInitialized>>

\* Enable or disable the breakpoints with these indices: one, or all of them.
DebuggerBreakpointSetState(indices, state) ==
  /\ AtPrompt
  /\ bp' = [i \in Slot |-> IF i \in indices /\ i < count /\ i < BpMax
                           THEN [bp[i] EXCEPT !.State = state]
                           ELSE bp[i]]
  /\ UNCHANGED <<mem, vms, count, mInitialized>>

\* Go, and the step commands that leave the step flag alone.
DebuggerGo ==
  /\ AtPrompt
  /\ DeinitDebuggerPrivateData(mInitialized)
  /\ Resume(FALSE)
  /\ UNCHANGED mInitialized

DebuggerStepInto ==
  /\ AtPrompt
  /\ DeinitDebuggerPrivateData(mInitialized)
  /\ Resume(TRUE)
  /\ UNCHANGED mInitialized

DebuggerQuit ==
  /\ AtPrompt
  /\ mInitialized' = FALSE
  /\ DeinitDebuggerPrivateData(FALSE)
  /\ Resume(FALSE)

-----------------------------------------------------------------------------
Init ==
  /\ mem = Program
  /\ \E entry \in Addr :
       vms = <<[Ip |-> entry, Step |-> FALSE, At |-> "running"]>>
  /\ bp = [i \in Slot |-> NoBreakpoint]
  /\ count = 0
  /\ mInitialized = FALSE

VmStep ==
  \/ \E a \in Addr : EbcInterpret(a) \/ ExecuteFunction(a)
  \/ HookExecuteStart
  \/ HookInInstruction
  \/ ExecuteBREAK
  \/ SignalStep
  \/ ReturnFromVm

Command ==
  \/ \E a \in Addr : DebuggerBreakpointAdd(a)
  \/ \E i \in Slot : DebuggerBreakpointDel(i)
  \/ DebuggerBreakpointClearAll
  \/ \E state \in BOOLEAN :
       \/ DebuggerBreakpointSetState(Slot, state)
       \/ \E i \in Slot : DebuggerBreakpointSetState({i}, state)
  \/ DebuggerGo
  \/ DebuggerStepInto
  \/ DebuggerQuit

Next == VmStep \/ Command

Spec == Init /\ [][Next]_vars

-----------------------------------------------------------------------------
(* Properties.                                                             *)

TypeOK ==
  /\ mem \in [Addr -> Word]
  /\ vms \in Seq(VmContext)
  /\ Len(vms) \in 1..MaxVm
  /\ bp \in [Slot -> Breakpoint]
  /\ count \in 0..BpMax
  /\ mInitialized \in BOOLEAN

\* Patching, restoring, forgetting and nested sessions may leave a BREAK 3
\* behind, but no word of the program is ever replaced by anything else: what
\* a breakpoint saved at DebuggerBreakpointAdd is still the right word
\* whenever EdbClearAllBreakpoint or EdbSetAllBreakpoint writes it back.
MemoryIsProgramOrBreak ==
  \A a \in Addr : mem[a] \in {Program[a], BREAK3}

\* No address is in the list twice, so no breakpoint saved another one's
\* BREAK 3 as its old instruction, and deleting one never leaves a twin.
BreakpointsDistinct ==
  \A i, j \in Slot :
    i < count /\ j < count /\ i # j =>
      bp[i].BreakpointAddress # bp[j].BreakpointAddress

SessionActive == \E i \in 1..Len(vms) : vms[i].At \in Handling

\* Whenever no handler is active, every enabled breakpoint of the list is in
\* memory, except the one the last session stopped at (slot BpMax).
EnabledAreArmed ==
  ~SessionActive =>
    \A i \in Slot : Enabled(i) =>
      \/ mem[bp[i].BreakpointAddress] = BREAK3
      \/ bp[i].BreakpointAddress = bp[BpMax].BreakpointAddress

\* While the user is at a prompt, the program shows no breakpoint of the
\* debugger: every session takes all of them out, whatever the one before
\* left ("clear all breakpoint to let user see a clean memory",
\* EdbCheckBreakpoint in Edb.c).
CleanMemoryAtPrompt == SessionActive => mem = Program

\* A context that ran into a breakpoint of the debugger goes on with the
\* instruction the breakpoint replaced ("Roll back IP for breakpoint
\* instruction", EdbCheckBreakpoint in Edb.c).
NoInstructionSkipped ==
  [][(Top.At = "inBreak" /\ Program[Top.Ip] # BREAK3
        /\ Len(vms') = Len(vms) /\ Top'.At \notin Handling)
      => Top'.Ip = Top.Ip]_vars
=============================================================================

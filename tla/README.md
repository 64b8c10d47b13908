# The EBC interpreter and its debugger in TLA+

This directory models the EFI Byte Code (EBC) interpreter of this repository and
the source-level debugger built into it: what the debugger does to the program it
debugs, what its hooks record, how the driver hands out stacks, contexts and thunks,
what every instruction does to registers, memory and stack, how the disassembler
follows it, and how the Arm port tracks what is on the stack. The modules are checked
with TLC on small instances; the central safety properties are proved with TLAPS for
every value of the constants.

## The system

An EBC driver publishes the EBC protocol. The firmware asks it for a *thunk* to the
entry point of each EBC image; native code that calls a thunk enters the interpreter
in a new *VM context* on a stack of a small pool. The interpreter runs one
instruction at a time and calls the debugger's *hooks* around each instruction and
around calls, returns and jumps. A hook, a BREAK 3, a fault or the step flag raises
an *exception*, whose handler is the debugger: it shows a prompt and runs commands
until one of them resumes the program. CALLEX calls native code, which may call a
thunk again, so contexts nest; timers may interrupt a context and do the same.
Everything the debugger knows is one global structure, `mDebuggerPrivate`, shared by
all contexts.

| Component | State | Operations | Correct when |
|---|---|---|---|
| Exception handler (`EbcDebugger/Edb.c`) | `mInitialized`, the breakpoint patches in program memory | start a session, run commands, resume | sessions show clean memory; what is restored is what was saved |
| Breakpoint commands (`EdbCmdBreakpoint.c`) | breakpoint list, 16 entries and a current one | set, clear, disable, enable, list | no address twice, no patch without its entry, every enabled entry armed while the program runs |
| Execution commands (`EdbCmdGo.c`, `EdbCmdStep.c`, `EdbCmdQuit.c`, `EdbCmdBreak.c`, `EdbCmdBranch.c`) | feature flags, go-til context | go, go til, step into, over, out, quit, break on CALL, CALLEX, RET, entry point, thunk, key; clear call stack and trace | a step stops where it was asked to, in the frame it was asked in |
| Hooks (`EdbHook.c`) | call stack, trace, step context, status flags | start and end of each instruction, start and end of CALL, CALLEX, RET, JMP, JMP8, entry points, thunks, key timer | the call stack is the real one cut to its capacity; the trace is a path of the program |
| Interpreter (`EbcExecute.c`) | VM context: registers, IP, flags, frame pointer, stop flags | the loop, one function per opcode, memory access | instructions do what the EBC specification says; exceptions and hooks happen at the right instruction |
| Driver (`EbcInt.c`) | stack pool, image and thunk lists, callbacks, `mVmPtr` | start-up, create thunk, unload image, register callbacks, exceptions, periodic timer | a stack has one owner, thunks live as long as their image, the periodic callback gets the interrupted context |
| x64 support (`x64/EbcSupport.c`, `EbcLowLevel.asm`) | none of its own | enter an image, enter a thunk, build a thunk, CALLEX | stacks taken are returned, thunks listed |
| Other architectures (`Ia32/`, `Arm/`, `AArch64/`, `Ipf/`) | Arm: packed stack of argument sizes (`Arm/EbcStackTracker.c`) | the same, and on Arm tracking what CALL signatures put on the stack | the packed stack is a stack |
| Symbols (`EdbSymbol.c`, `EdbCmdSymbol.c`) | a table of up to 32 objects with arrays of up to 512 entries, lists of source buffers | load and unload map and .cod files, find the base, look up by name and address | the table is what was loaded; no source is freed twice or lost |
| Disassembler (`EdbDisasm*.c`) | none | print, length of an instruction | advances by what the interpreter advances by |
| Memory, register, I/O, PCI, help commands; strings, console, files | none of their own | parse, read or write once, print | - |
| Configuration application (`EbcDebuggerConfig.c`) | feature flags, through a protocol | show and set the break flags | - |

What is hard here: contexts nest and share one debugger, so every global that is
written before a native call or a session and read after it is exposed (the open slot
of the trace, pending step flags, the breakpoint list, `mVmPtr`); a session may begin
in the middle of an instruction and empty what the instruction's first hook recorded;
lists and arrays run at their capacity; a context may disappear without its clean-up
when an image calls `gBS->Exit`; failures of allocation are ignored in places.
`PROJECT.json` lists these hazards at their lines.

## Modules

| Module | Models |
|---|---|
| `EdbBreakpoint` | the handler and the breakpoint commands on program memory, for nested contexts |
| `EdbHook` | the hooks, the instructions that call them, and the commands that arm them |
| `OwnedStacks` | what the stack pool promises, whatever it remembers |
| `EbcInt` | stack pool, contexts, thunk lists, unloading, `mVmPtr`; implements `OwnedStacks` |
| `EdbSymbol` | the table of symbol files, their code, and the two look-ups |
| `EbcIsa` | the instruction set as data: opcodes, bits of instructions, integers of a width, indexes |
| `EbcExecute` | the interpreter on registers and memory: every instruction, the loop, the stack check |
| `EdbDisasm` | the disassembler: the length of each instruction and of each piece of its text |
| `EdbListing` | both over the same program |
| `StackSlots` | what a stack tracker promises, whatever it stores |
| `EbcStackTracker` | the packed tracker of Arm, which implements `StackSlots` |
| `MCEdbBreakpoint`, `MCEdbHook`, `MCEbcInt`, `MCEdbSymbol`, `MCEbcExecute`, `MCEbcStackTracker` | instances for TLC: programs, numbers, symmetry |
| `EdbBreakpoint_proofs`, `EdbHook_proofs`, `EbcInt_proofs`, `EdbSymbol_proofs`, `EbcExecute_proofs`, `EbcLaws_proofs`, `EbcStackTracker_proofs` | theorems |
| `EbcMemory_proofs` | lemmas about words and memory for `EbcExecute_proofs` |

Names are those of the code (`EdbCheckBreakpoint`, `PushTraceDestEntry`,
`GetEBCStack`, ...); the prefixes `EbcDebugger` and `EbcDebug` of hook names are
dropped. The mutated forms of some operators (`... Mutant:` in the comment above
them) are used by no specification; they are what a property is tried against.

### EdbBreakpoint

Memory is a ring of 16-bit words, each one an instruction, so that the words before
and after an address exist as they do in a real image. A context is at the
instruction it will execute, past one with the step flag set, or in the handler, and
the four reasons for being in the handler differ in how it goes on. All hooks that
can start a session are there, without the conditions under which they do. The
handler is two actions, entry (`InitDebuggerPrivateData`) and resumption
(`DeinitDebuggerPrivateData` with `Resume`), and the commands run between them, so
other contexts may nest at the prompt.

`Forgets` is the one parameter that is not a size. The handler declares
`mInitialized` static and then assigns FALSE to it on every entry (`Edb.c:492`),
which makes the branch "Already initialized, just check Breakpoint here" dead.
`Forgets = TRUE` is the code. `Forgets = FALSE` leaves out that assignment, to check
the rest of the handler as it was meant to be used. The runs are of the code; the
proofs hold for both.

Left out: memory, register and symbol commands, self-modifying programs, which hook
condition holds, the feature flags, the status flags and the step contexts.

### EdbHook

A program is a sequence of instructions CALL, CALLEX, RET, JMP or OTHER with a
target, the last of which is a RET, so that something follows every CALL. Contexts
form a stack; each has an IP, frames, the step flag and a place in
the loop of `EbcExecute`. The two hooks of an instruction are separate steps where
something can happen between them: a session (the break check of the first hook
comes before it records anything), native code that enters EBC again, or a fault. An
opcode without a function is refused before the first hook and ends the context
(`InvalidOpcode`); faults of other instructions go on to the last hook.
The trace and the call stack have one size, as in `EdbCommon.h`, where both are 0x10:
`EbcDebuggerPushTraceDestEntry` shifts the trace by the size of the call stack
(`EdbHook.c:241`), which is right only as long as they are the same (`BoundAssumption`).
Code addresses and frame pointers are pairs that cannot be confused. `Uses` says
which of native callbacks, CALLEX of a thunk and faults the program makes. Two
history variables stand for what the code does not keep: `asked` remembers where the
last step over or step out was to stop, and `plain` says that no context has been
ended by a fatal exception, which leaves frames behind in the call stack, and that
none has entered EBC code by CALLEX of a thunk. That code leaves by RET, which pops a
call-stack entry, but no entry was pushed for it (`EdbHook.c:712`), so each such call
costs the call stack one entry of a live frame; `CallStackIsNewest`, `TraceIsPath`,
`TraceTypeAgrees` and the properties of steps speak of plain executions. A step out
given in the session of a stack that has overflowed is one more reason: that context
ends without another instruction, and the flag arms the next context of the program
instead (`EdbHook.c:630`).

`StepStopsWhereAsked` says that a step never stops the program in the wrong place, and
`StepNotMissed` that it does not pass the right one; neither alone would be worth much.
`TraceIsPath` relates each entry of the trace to the next: from where a branch went,
only instructions that do not branch lead to where the next one came from.

Left out: breakpoints and memory (`EdbBreakpoint`), timer callbacks that run EBC code
between two hooks, the parameters saved with a call-stack entry, and the GT bit of
the feature flags, which nothing reads.

### EbcInt

Contexts stand in the order of the native stack. A context has the image handle it
was made with (none under `EbcInterpret`), the index of its stack and the images in
whose code it is, because CALLEX of a thunk enters another image's code in the same
context. `mVmPtr` is a position in this order. The list of image handles is a
function from handles to sets of thunks; `code` says which image a thunk enters, and
`services` which thunks an image has made with BREAK 5 and hands out.

The firmware is external: it loads, starts and unloads images, calls thunks from
native code or from a timer at any moment, and unwinds the native stack at
`gBS->Exit`. It does not unload an image while it runs, and loads, starts, unloads
and exits happen only at TPL_APPLICATION. `Uses` says which of CALLEX of a thunk,
`gBS->Exit` and a failing addition to the thunk list occur. Four history variables
keep the accounts that the properties are about: `unwound`, the stacks of contexts
that `gBS->Exit` made disappear, until they are returned; `dangling`, that `mVmPtr`
points to such a context; `unlisted`, the thunks whose addition failed; and `orphans`,
the thunks that EBC code makes with BREAK 5 in a context of `EbcInterpret`. Such a
context has no image handle, so these go to the list of the null handle and stay for
good: no code path frees that list. `NoThunkLost` says that every other thunk that was
listed is in the list of an image still loaded, whose unloading frees it, and that no
thunk but those is in the list of the null handle. It does not say that the image is
the one that made the thunk, which CALLEX of a thunk makes false.

`OwnedStacks` is the pool without handles: the stacks that are taken and those of the
contexts alive. The driver maps to it by the stacks whose `mStackBufferIndex` is not
NULL and the `StackIndex` of each context (`ImplementsPool`). A context begins on a
stack nobody has; the newest ends, and only its stack is free again; `gBS->Exit`
leaves stacks taken; and only such a stack can be reclaimed later. This is where the
search by handle in `ReturnEBCStackByHandle` could go wrong: a handle names several
stacks, and the first of them need not be the one that is meant.

### EdbSymbol

The table is one record, `sym`, with the fields of `EFI_DEBUGGER_SYMBOL_CONTEXT`, and
the functions of `EdbSymbol.c` are operators from tables to tables, which the commands
compose as the code does. The arrays of entries and the list of sources of a slot
always move together, so an object has one `Arrays` for both pointers. `Pool` says
which .cod file an allocated buffer holds the text of, which is how the properties
tell the right text from a wrong or a freed one. A map file is a sequence of lines,
each of the kind its first word makes it, and is parsed by a fold with the states of
the parser; of the text of a .cod file only the set of its functions remains. A
command that goes through the directory takes a step for each .cod file, which may
fail to be read. `loaded` is a history of what the user has loaded. `intact` is a
history as well: `EdbUnloadSymbol` empties the arrays of the first object whichever
file is named, and a new session forgets the table without emptying anything
(`Edb.c:334`, reached at every session for the reason given above); after either,
entries and sources may be wrong, lost or shared, and only the properties that do not
mention `intact` are left. They are not weak: `SourcesListedOnce` says that even then
nothing is freed twice.

The parser does not check what it reads: a line that belongs to another section changes
its state, and the entries it makes are then without a name or an object file.
`LinkerAssumption` says that a map file has its lines in the order the Microsoft linker
writes them in, which the parser follows state by state (`EdbSymbol.c:365`), and no more.
Searches that stop at the first match (`GetMapfileSymbolContext...`, the deletion of a
source) are written as a choice of the least index. Addresses are added modulo
`MaxAddress + 1`, as pointers are. `SymbolUnique` excepts the name of a symbol at
address 0, because the look-up returns 0 both for it and for none.

Left out: line numbers and the printing of source, the search of the image table
(every base a map file may have is tried), the display switches, `HookUnload`, and
words such as "Address" or "entry" as names of symbols, which would confuse the
parser.

### EbcIsa and EbcExecute

`EdbHook` and `EbcInt` abstract from what instructions compute; `EbcExecute` models
just that and abstracts from the debugger. Each function of `EbcExecute.c` that
implements instructions is an operator from a context and an instruction to the
context it leaves, with the exception it raises in `LastException` and the status it
returns in `Status`. `Dispatch` is `mVmOpcodeTable`, and `Execute`, `InvalidOpcode` and
`ProcessorTrap` are the loop. Memory is part of the context. Unaligned accesses fall
into the halves and bytes of the code, each at an address of its own, and addresses
wrap at a natural.

A byte of data has `BYTE` bits. The code never uses the value of that width except in
sizes and shifts, and with `BYTE = 2` words of eight bytes have 16 bits, which TLC
can enumerate the edges of; the two bytes of an instruction and the 16 bits of an
index are real ones. Indexes of 32 and 64 bits are records of their fields. `NATURAL`
is 4 or 8. Instructions stand at code addresses that are apart from data, so programs
do not modify themselves; the bytes that follow the first two of an instruction are
kept as the values they encode. What C leaves undefined is a choice: a shift by the
width or more takes its count modulo the width or shifts everything out (`masks`),
and the narrow division of the least integer by -1 traps (`ProcessorTrap`). BREAK 5
may fail (`fails`). Native code called by CALLEX returns and changes R7 only.

The memory functions are generic in the width, the shape of an instruction is not: what
is decoded from it depends on the bits of its first two bytes. `WellFormed` is what is
assumed of programs: the first two bytes are bytes, and there is one datum of the kind
and range those bits call for (`Kinds`) for each that is read. Of the values a context
begins with, `ContextAssumption` gives nothing but their types, and that a tracker exists
only where a natural has four bytes.

`calls` is a history: what the calls not returned from must restore, and whether
any byte of their frames has been written over. `parity` counts instructions modulo two, so
that an instruction that changes nothing is still a step, and `WF_parity(Fetch)` says
that the loop goes on. That is the only fairness in this project, and it is what the
code guarantees: `EbcExecute` is a `while` loop that waits for nothing but the
debugger, which is not registered here.

The stack tracker appears as the interpreter sees it: the number of bytes it counts
(`Tracker`). `TrackerFollowsR0` is about the calls the instructions make to it. CALL
and RET do not call it, POP and STORESP may assign R0 behind its back; these are
excepted by name (`Untracked`). The proof found three cases more, none of them in the
instances TLC had been given: a MOV of R0 to itself that is narrower than a natural cuts
R0, and one whose index is *overlong*, with natural bits that reach into the field of
their number, moves R0 by a sum that wraps; both are excepted as well. And a tracker with
nothing on the stack (`Height = 0`) cannot remember that R0 left the pool, so that what
it is told next it takes for the program's own stack; the property asks of that case
that R0 stays in the pool.

What the code does that one may not expect:

* JMP64 without its datum, BREAK 5 that fails, and a MOV to R0 that the tracker
  refuses return an error with Ip where it was. The loop ignores the status
  (`EbcExecute.c:1551`), so they are executed for ever. `EveryProgramEnds` says that
  all other programs that do not jump backward come to an end; `Retries` names these
  three.
* CMPI with a bad encoding advances without its immediate number, which is then
  executed as an instruction; the context has been stopped by the exception in all
  cases but where a debugger clears it.
* CMPI extends its immediate number by the order it compares with. A 64-bit EQ, LTE or
  GTE takes it with its sign; ULTE and UGTE cut it to a UINT32 (`EbcExecute.c:3593`,
  `:3599`), so that a negative number is compared as 2^32 plus that number, although the
  comments at `:3553` and `:3560` say "sign extended" and "Sign extend always". CMP with
  a register that holds the same number sign-extended can therefore give another result,
  and `ComparisonLaw` states the agreement that there is: for each order, with the
  register that holds the number as CMPI extends it.
* The comment on indexes at `EbcExecute.c:57` gives another formula than the code for
  the number of natural bits. `IndexesAgree` compares the decoding of the interpreter
  with that of the debugger; they differ for the overlong indexes of 16 bits, whose field
  is 7, because 14 natural bits do not fit into 12, and those are excepted (`Overlong`).

### EdbDisasm and EdbListing

An operator for each function of `EdbDisasm.c` gives the length it returns, 0 when it
takes the instruction for a bad one, and the lengths of the pieces it prints into the
name field (10 characters) and the content field (30), at the largest number that may
stand there. `EdbShowDisasm` is the address of the next line. `EdbListing` puts both
over the same program: `ListedIsExecuted` relates what a session lists to the step
that follows, and a listing ends (0) where the disassembler finds a bad instruction.
It finds some that the interpreter executes: RET with an operand, BREAK above 6, and
CMPI with reserved operand bits; and it never raises the faults the interpreter does.
The name of a JMP gets its condition from the opcode byte (`EdbDisasm.c:197`), while
the interpreter takes it from the operand byte, so a listing may name the wrong
condition; letters are not modelled. The 64-bit indexes of MOVqq can take a line past its
30 characters, which `EdbSupportUI.c:753` asserts against; `TextInField` excepts it.
The table has 58 entries but is read below `OPCODE_MAX`, which is 0x40; what lies
behind it is not modelled and no property is about it.

### StackSlots and EbcStackTracker

`StackSlots` is the abstract specification: the slots between R0 and the top of the
stack, each a natural or up to eight constant bytes, moved by PUSH, POP, arithmetic on
R0, and by switching to another stack and back. `EbcStackTracker` is the code:
two-bit codes packed four to a byte in a buffer that grows by reallocation, which may
fail; entries of one or two codes; deletion by blocks, by entries, and by splitting an
entry. `Abstract == INSTANCE StackSlots WITH slots <- Slots, ...` decodes the codes,
and `ImplementsSlots`, a PROPERTY, is the abstract specification. `LayoutOfSlots` is
what the tracker is for: the layout that CALLEX hands to native code is that of the
newest slots. A reallocation may fail, so each operator returns the set of trackers it
may leave; a loop is a function of the number of its iterations, whose value is the set
of trackers after so many. `NATURAL` is 4: the file is built for Arm alone. The other
assumptions on constants fix their types, say that the pool gives the tracker at least
four bytes (`PoolAssumption`), that no update has natural and constant units of opposite
signs, which the interpreter refuses before it calls the tracker (`UpdatesAssumption`),
and that R0 is set to addresses of the pool or to one outside it (`AddressAssumption`).

A program is followed up to its first failed update, because PUSH and POP ignore the
status and go on with a buffer that is NULL. `Apart` says that the program leaves its
stack only where the last code ends a byte or is a whole entry, and returns to it
before it sets R0 to anything else: the rounding of the index (line 617) does not
write the codes it skips, an `OrgIndex` of 0 means home, and the condition for the way
back (line 621) has `||` where both bounds are meant, so that any value counts as the
return. Deletion of whole blocks tests the wrong byte (lines 494, 502); the run
`EbcStackTrackerBlocks` shows it with `HeightTracked`, and the updates of the other run
stay below the size of such a block.

`SizeBelowLimit` is the ASSERT of lines 266 and 326, that the buffer stays within
`STACK_TRACKER_SIZE_MAX`. It depends on how much is pushed at once: `AddStackTrackerBytes`
compares an index in codes with a size in bytes (line 320), so that a block of naturals
gets a buffer of at least four times the bytes it needs. One move of R0 by half the pool of
Arm (130560 naturals) asks for twice the limit. The instance stays below it, by its
bound on the stack.

## Runs

Every run is one .cfg with its module's MC module. Bounds on the nesting of contexts
(`MaxVm`), on depth (`MaxDepth`) and on capacities are small: every hazard above
needs at most two nested contexts, a full array needs a capacity of one or two
entries, and a step has to tell the frames of a recursion apart, which it must at
depth three. The driver's run has more: three stacks and three contexts
that can hold them while a fourth asks for one, two images and three thunks. The run
of `EdbSymbol` has three map files for two objects, one of them with more symbols than
an object has entries, and two source buffers, so that reads fail for want of memory.

| Run | Checks | Shows |
|---|---|---|
| `EdbBreakpoint` | `TypeOK`, `MemoryIsProgramOrBreak`, `BreakpointsDistinct`, `EnabledAreArmed` | breakpoints set, deleted, disabled and hit in two nested contexts never corrupt the program; enabled breakpoints are armed when no session is active |
| `EdbBreakpointClean` (violated) | `CleanMemoryAtPrompt` | with the code as it is, the second session shows the stale patches of the first |
| `EdbBreakpointSkip` (violated) | `NoInstructionSkipped` | the instruction under a breakpoint is never executed |
| `EdbHook` | `TraceTypeAgrees`, `TraceIsPath`, `StepStopsWhereAsked`, `StepNotMissed`, `KeyBreaksWhileOn` | in one context of a program with a recursive function and a call of native code, with sessions inside branches and a full trace, the trace is a path, steps stop where asked, and keys stop the program only while that is on |
| `EdbHookNested` | `TypeOK`, `CallStackIsNewest` | with native code that calls EBC back, CALLEX of thunks and faults, counts stay within their arrays and the call stack is the newest frames of all contexts |
| `EdbHookTraceAssert` (violated) | `TraceTypeAgrees` | a nested context overwrites the trace slot that a CALLEX left open: the ASSERT of `EdbHook.c:230` fails |
| `EbcInt` | `TypeOK`, `ContextsOwnStacks`, `ListedOnce`, `NoStackLost`, `NoThunkLost`, `PeriodicContext`, `ImplementsPool` | with CALLEX of thunks, timers, exits and failures: no two contexts share a stack, nothing is freed twice, no stack is lost but to `gBS->Exit`, no thunk but to a failure or, made in a context of `EbcInterpret`, to the list of the null handle, `mVmPtr` follows the contexts, and the pool implements `OwnedStacks` |
| `EdbSymbol` | `TypeOK`, `TableAsLoaded`, `SourcesListedOnce`, `NoSourceLost`, `SymbolUnique`, `NearestSymbol` | no source is freed twice, look-ups name the right symbols, and as long as only the first file is taken out the table is what was loaded |
| `EdbSymbolUnload` (violated) | `UnloadsNamedOnly` | unloading the second file empties the entries of the first |
| `EbcExecute` | `TypeOK`, `StackIntactWhileRunning`, `StoreThenLoad`, `DivisionLaw`, `ComparisonLaw`, `IndexesAgree`, `TextInField`, `ReturnRestores`, `TrackerFollowsR0`, `RefusedLeavesNoTrace`, `ListedIsExecuted`, `EveryProgramEnds` | what instructions do to registers, memory, stack and tracker, that the listing is what is executed, and that programs end |
| `EbcStackTracker` | `TypeOK`, `SizeBelowLimit`, `LayoutOfSlots`, `ImplementsSlots` | the packed codes implement a stack of slots, across a switch of stacks and failed allocations, in a buffer that grows and stays below its limit |
| `EbcStackTrackerBlocks` (violated) | `HeightTracked` | popping four naturals after 32 constant bytes deletes the constants |

`CHECK_DEADLOCK FALSE` in `EbcInt`: when every buffer for thunks
has leaked and every image has been started, nothing is left to do. The two nested
contexts of `EdbBreakpoint` and the breakpoint limit of the instance (`BpMax`) make
the list full and force hits while an outer session waits.

`EbcExecute` runs every opcode with every combination of its modifier bits on a choice
of operands (registers 0 and 1 first, four second, each direct and indirect), from two
sets of registers that hold addresses of every alignment and the numbers at the ends of
the signed and unsigned ranges; and programs of several instructions for calls at three
alignments of the stack, recursion into the stack gap, a store over the magic word, a
switch of stacks and the step flag. The laws are invariants, so they are evaluated on
whatever registers those programs leave. `CHECK_DEADLOCK FALSE` there: a program ends.
`NATURAL = 4` is the reduced run, since the tracker exists only on a 32-bit host; the
theorems are for both. `EbcStackTracker` bounds the program by 56 bytes on its stack
(`Lowest`) and 8 on one of its own (`ForeignSize`): enough for the buffer to grow twice,
for entries at every place in a byte, and for a slot to be split and filled up again.

Only `EbcExecute` states fairness and liveness. The debugger has none to state: a
session may wait for its user for ever, and so may native code.

## What is proved

All theorems hold for every program, capacity and nesting bound allowed by the named
assumptions of the modules. They fix the types of the constants, and two say a little more
of the input: `LinkerAssumption` of map files and `ProgramAssumption` of instructions.

* `EdbBreakpoint_proofs`: `TypeCorrect`, `MemoryIntact`, `ListDistinct`, `Armed`.
  The inductive invariant joins the type invariant, `MemoryIsProgramOrBreak`,
  `BreakpointsDistinct` and `SavedWords`: every word saved in the list, the current
  one included, is the program's own at its address. `SavedWords` is what makes
  writing back harmless, and it needs memory to be intact when a breakpoint is set
  on a word that is not BREAK 3; neither is inductive alone. `EnabledAreArmed` is then
  inductive relative to it: sessions end by arming, and lists change only inside
  sessions.
* `EdbHook_proofs`: `KeyBreaks` and `TypeCorrect`. The first is inductive: VM steps are
  taken without a prompt and neither clear the flag nor record a key, and every command
  that resumes clears the status. Types are inductive with two facts about frames that
  the code uses and never checks (`GoodContext`): a context has a frame until its last
  RET, which stops it, and all its frames but the first return to an instruction.
* `EdbHook_proofs`, on the trace: `TraceAgrees` and `TracePath`, for programs of one context
  (`Uses = {}`). With native callbacks both are false, as the run `EdbHookTraceAssert`
  shows. `Effects` puts the steps of the machine into nine kinds by what they do to the
  context, the trace and the requests; everything below is argued about those kinds.
  `BaseInv` says that a context that has stopped stands at the RET that ended it, and
  that sessions begin only before the first hook of an instruction records its source.
  The invariant of the trace (`TraceInv`) follows its newest entry to where the program
  is: outside a branch, the program has run straight on from the entry's destination;
  inside one, the open slot is the branch's own, so the entry that is completed continues
  the path, and dropping the oldest one leaves a path.
* `EdbHook_proofs`, on steps: `StepStops` and `StepMet`, for the same programs. The invariant
  `StepInv` says, of a request given while no other was pending, which of four things it
  is: forgotten, a step over that the CALL under the program will record, a step out that
  the end of this instruction will record, or recorded for a frame of depth n that is
  still below the program, or is its frame again with the next `HookExecuteStart` due.
  For a step over it also says that the frame above depth n returns to the address
  asked for. That frame pointers differ at every depth is why a recursion does not stop
  it early; and a RET that reaches depth n is always followed by that hook.
* `EdbHook_proofs`, on the call stack: `CallStackNewest`, with native callbacks, CALLEX of thunks and
  faults. `CallStackIsNewest` compares the array with the frames of all contexts one
  after the other, but says so only between instructions; it is not inductive, because
  a hook and its instruction are two steps. `CallInv` covers what is between them: the
  hook before a CALL has left the call's address in the slot after the last entry
  (`SlotOpened`), the hook before a RET has already popped the frame that RET will remove
  (`Shown`), and every context below the running one waits in native code, where none
  of its frames moves (`Waiting`). Each hook is then the same change to the array and
  to the sequence: add at the end and forget the oldest when the array is full, or
  remove the last. The concatenation is recursive over the contexts; that it can be
  unfolded is shown from well-founded induction over the naturals by a least
  counterexample (`NatBySet`), which needs no induction theorem with an operator
  parameter.
* `EbcInt_proofs`: `TypeCorrect`, `StacksOwned`, `ThunksListedOnce`, `StacksNotLost`,
  `PeriodicContextAlive`, `ThunksListed`, `PoolImplemented`. `ContextsOwnStacks` is
  inductive with the types because a stack is taken for the handle of its context, and
  `EbcUnloadImage` returns one by handle only when no live context has that handle.
  `StacksNotLost` and `PeriodicContextAlive` share a second invariant, relative to the
  first: a taken stack belongs to a live context or to one that `gBS->Exit` unwound, and
  `mVmPtr`, unless it is NULL or dangles, is the newest context that has begun to
  execute. The step that has to be argued is `Exit`, where the context of `mVmPtr` waits
  in native code like all others, so that it is the newest and among those unwound.
  `ThunksListed` says of every thunk where it is: lost to a failed addition, in the list
  of an image still loaded, or, exactly for those BREAK 5 made in a context of
  `EbcInterpret`, in the list of the null handle. It needs two more facts. The images
  whose contexts are alive are loaded (`RunningLoaded`), so that a thunk made by BREAK 5
  is not listed for an image that is already gone; and what BREAK 5 made without an
  image stays allocated (`OrphansKept`), because no unloading frees a list it may be in,
  so that no thunk made later takes its place. `PoolImplemented` is the refinement of
  `OwnedStacks`: each action of the driver is one of the pool or changes neither its
  stacks nor its contexts, and that unloading reclaims no stack of a live context
  follows from `ContextsOwnStacks`.
* `EdbSymbol_proofs`: `TypeCorrect`, `SourcesDistinct`, `SourcesKept`, `NamesUnique`,
  `NearestFound`, `LoadedFaithful`, for all map files in linker order, .cod files and
  sizes of the table. Types need the fact that an entry with an object file has a name,
  which the reader of .cod files uses without a check. `SourceInv` says of the arrays,
  whatever was unloaded, that no two objects share one and that every buffer listed is
  allocated and listed once; this is what `EdbUnloadSymbol` keeps when it empties the
  arrays of the wrong object, so that `SourcesDistinct` does not depend on `intact`.
  `SourcesKept` and `LoadedFaithful` do: as long as nothing but the first file has been
  taken out, the table holds what was loaded (`LoadedInv`): each object's entries
  are what its map file says, cut to the capacity, and each entry of a function has the
  text of its .cod file exactly if that file was read. The parser is a recursive function
  over lines; that its result is a sequence of named entries is shown by the same
  induction over a set of naturals. The two theorems about look-ups follow the search
  over objects and entries to the first, or the nearest, that matches.
* `EbcExecute_proofs`, in two parts. The first holds whatever registers and memory are:
  `StackIntact`, `RefusedNoTrace`, `ListedExecuted`. One predicate, `After(c, d, ip)`,
  says that a context `d` is what `c` became without an exception, with Ip at `ip`; the
  pieces instructions are made of (a register set, memory written, the tracker told) keep
  it, and each function of `EbcExecute.c` is shown to advance by the length `EdbDisasm`
  gives, or to refuse with registers, memory and the flag as they were.
  `DispatchExecutes` joins them over the two tables. The inductive invariant adds to
  `StackIntactWhileRunning` that a corrupted stack has ended the context: without it the
  check, which the code makes only once, could be skipped.
* The second part is about what is computed. `TypeCorrect` shows of each instruction that
  it leaves words in registers, bytes in memory and natural addresses in Ip and the frame
  pointer (`Typed`); every other theorem rests on it. `StoresLoaded` says that
  the unaligned pieces of a store add up to one word written at consecutive addresses,
  modulo a natural, and that the load of that width reads it back. `CallsReturn` adds
  `FrameInv`: a frame no byte of which has been written since its CALL holds the return
  address and the frame pointer of that call.
* `EbcLaws_proofs` builds on both parts. `TrackerFollows` goes through the functions a
  third time (`Followed`): what each adds to R0 and what it tells the tracker agree
  modulo a natural. It rests on `IndexWhole`, that an index that is not overlong is
  decoded to an offset equal to the sum of its units; `IndexesShown` is the debugger's
  side of the same. `ComparisonsOrder` covers the five orders of CMP and of CMPI, the
  unsigned 64-bit ones with the zero-extended number. It and `DivisionFits` evaluate
  instructions as their functions do, from the bytes of the instruction to the register
  or flag written, and reduce them to arithmetic of words that agree modulo the width.
  `TextKept` is about the listing: where each piece of a line begins is the sum of the
  lengths of those before it. The longest index is written in 10, 15 or 25 characters by
  its width, and for every instruction but MOVqq the pieces that precede the last leave
  room for it. The sum is recursive over the pieces; it is unfolded as the others are,
  by induction over a set of naturals.
* `EbcStackTracker_proofs`: `SlotsTracked`, `TypeCorrect`, `LayoutFollows`,
  `HeightFollows`, `SizeKept`, `SlotsImplemented`, for stacks, addresses and updates of
  any size, under two hypotheses. `BelowBlocks` says that no update deletes four naturals
  or 32 bytes at once, since `EbcStackTrackerBlocks` shows that the slots are lost
  otherwise; `Apart` is the one above. `Holds(d, b, top, q)` says that there are places
  between `b` and `top` that cut the codes of `d` into entries, one for each slot of `q`.
  The invariant `Tracked` is that the codes from the base to the index hold the slots
  pushed on the current stack (`AtHome`), and while R0 is away those below hold the slots
  left behind and end in a whole entry (`Abroad`), which keeps the first push abroad from
  being packed with them. That each loop computes what one update of `StackSlots` says is
  an invariant of its iterations: what is added or taken so far, and the units left, make
  up the whole. The number of iterations that the functions are given is enough because
  each takes a unit or a byte. An entry always reads back as it was added, even behind
  constant bytes of the same byte, and decoding is unique, so that `Decoded` yields the
  slots held. `SizeKept` needs a third hypothesis, `Small`: two codes for every byte
  of stack, in a buffer at most doubled, fit the limit for programs that use about a
  thirty-second of the pool. The instance for TLC does not meet it; there the size
  is checked by enumeration.
* `EbcMemory_proofs` holds the lemmas of words and memory, among them that `UInt` and
  `SInt` are the remainder and its signed form at any width, for powers of a symbolic
  base.

Only model-checked: the steps and the trace in programs whose native code calls back,
where two properties fail in fact (`EdbHookTraceAssert`) and the others have hypotheses
about histories the proofs do not follow; `EveryProgramEnds`, because liveness is out of the prover's
reach; and `SizeBelowLimit` for the programs of the instance, which use more of their
small pool than `Small` allows. Every other invariant of a passing run is a theorem. Nothing is said of
trackers whose program deletes whole blocks, or leaves and returns other than `Apart`
allows: with the code as it is, the slots are lost there.

## Not modelled, and the plan

Still worth doing, in this order:

1. An abstract specification of the debugger (a program with a set of armed
   addresses, never changed by the debugger) implemented by `EdbBreakpoint` with
   `Forgets = FALSE`.
2. Proofs: the steps and the trace in programs of several contexts that are not
   interrupted between two hooks.
3. The configuration application, as one more actor that sets break flags outside
   sessions: it has the same switches as the commands of `EdbCmdBreak.c`.
4. The registration of exception and periodic callbacks (`EbcDebugRegister...`).

Start-up (`InitializeEbcDriver`) is not modelled: it runs once, and nothing else runs
then. Reading it shows that its error exit overwrites `Status` while it cleans up and
may report success for a driver it has just uninstalled; that an allocation which
fails goes there, although the comment says "This is recoverable, so free the memory and
continue" (`EbcInt.c:486`); that the EBC protocol installed last stays installed, and
freed, when `LocateHandleBuffer` fails in that exit; and that protocols found at
start-up are uninstalled by it too.

Two consequences of the driver's design are visible in `EbcInt` and no property is
stated against them: after `gBS->Exit` the periodic timer finds `mVmPtr` pointing to a
context that was unwound (`dangling`), and a thunk that BREAK 5 makes while an image's
code runs in another image's context is listed under, and freed with, the other image.

Left out for good: printing, parsing, console and file access, help, PCI and I/O
access, the letters of the disassembly, `EbcExecuteInstructions`, the warnings about
unaligned code, the 32-bit and other 64-bit entry points, and the vendored code under `Missing/`, because
they keep no state the debugger or the interpreter depends on.

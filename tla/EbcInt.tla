------------------------------- MODULE EbcInt -------------------------------
(***************************************************************************)
(* The EBC driver (EbcInt.c with EbcExecute and x64/EbcSupport.c): the     *)
(* pool of VM stacks, the contexts that run on them, the thunks through    *)
(* which native code enters EBC code, the list that says which image each  *)
(* thunk is to be freed with, and the context the periodic callback of the *)
(* debug support protocol is given.                                        *)
(*                                                                         *)
(* Around it stands the firmware, which is external: it loads, starts and  *)
(* unloads images, unwinds the native stack when an image calls Exit, and  *)
(* calls thunks, directly or from the notify function of a timer, which    *)
(* may interrupt a context between any two steps.  An image is not         *)
(* unloaded while it runs, and loads, starts, unloads and exits happen     *)
(* only when no context has been interrupted (TPL_APPLICATION).            *)
(***************************************************************************)
EXTENDS Integers, Sequences, FiniteSets

CONSTANTS
  Images,       \* image handles
  NullHandle,   \* no handle
  ThunkHandle,  \* (EFI_HANDLE) -1, for which EbcInterpret takes its stack
  Thunks,       \* the addresses AllocatePool has for the buffer of a thunk
  MaxStackNum,  \* stacks in the pool: MAX_STACK_NUM, if none failed
  MaxVm,        \* bound on the nesting of contexts
  MaxDepth,     \* bound on the images whose code one context is in
  Uses          \* what happens: "callex" of a thunk, "exit" of an image, a
                \* "failure" to add a thunk to the list

Stacks == 0..MaxStackNum - 1

ASSUME HandleAssumption ==
  NullHandle \notin Images /\ ThunkHandle \notin Images
  /\ NullHandle # ThunkHandle
ASSUME SizeAssumption ==
  /\ MaxStackNum \in Nat \ {0}
  /\ MaxVm \in Nat \ {0} /\ MaxDepth \in Nat \ {0}
ASSUME UsesAssumption == Uses \subseteq {"callex", "exit", "failure"}

VARIABLES
  vms,                \* contexts alive, in the order of the native stack
  mVmPtr,             \* place on the native stack of the context pointed to,
                      \* 0 for NULL
  mStackBufferIndex,  \* the handle each stack is taken for
  mEbcImageList,      \* for each image handle in the list, its thunks
  code,               \* for each allocated thunk, the image it enters
  services,           \* the thunks made by each image's own code, as long as
                      \* it is loaded
  state,              \* what the firmware has done with each image
  unwound,            \* history: the stacks of contexts that Exit unwound,
                      \* until they are returned
  dangling,           \* history: mVmPtr points to a context Exit unwound
  unlisted,           \* history: the thunks whose addition has failed
  orphans             \* history: the thunks that BREAK 5 made in a context of
                      \* EbcInterpret, which has no image

vars == <<vms, mVmPtr, mStackBufferIndex, mEbcImageList, code, services,
          state, unwound, dangling, unlisted, orphans>>
lists == <<mEbcImageList, code, services, unlisted, orphans>>
exits == <<unwound, dangling>>

-----------------------------------------------------------------------------
(* A context: the image handle it has (none under EbcInterpret), the stack  *)
(* it took, the images it is in the code of (EbcLLCALLEX of a thunk stays   *)
(* in the context), and where it is: before EbcExecute ("entry"), in its    *)
(* loop, in native code, or after it ("done").                              *)

VmContext ==
  [ImageHandle : Images \cup {NullHandle}, StackIndex : Stacks,
   In : Seq(Images) \ {<<>>}, At : {"entry", "loop", "native", "done"}]

\* The handle a context takes its stack for.
StackHandle(v) ==
  IF v.ImageHandle = NullHandle THEN ThunkHandle ELSE v.ImageHandle

Top == vms[Len(vms)]
SetTop(v) == vms' = [vms EXCEPT ![Len(vms)] = v]
At(place) == vms # <<>> /\ Top.At = place
RunningCode == Top.In[Len(Top.In)]

\* No context has been interrupted: each waits for the native code it called.
AtApplicationTpl == \A i \in 1..Len(vms) : vms[i].At = "native"

IsRunning(image) ==
  \E i \in 1..Len(vms) : \/ vms[i].ImageHandle = image
                         \/ \E d \in 1..Len(vms[i].In) : vms[i].In[d] = image

-----------------------------------------------------------------------------
(* The pool of stacks.                                                     *)

FreeStacks == {i \in Stacks : mStackBufferIndex[i] = NullHandle}
IsFirst(i, S) == i \in S /\ \A j \in S : i <= j

\* Mutant: that no stack was found is not checked.
GetEBCStackBeyond(v) ==
  \E index \in Stacks \cup {MaxStackNum} :
    /\ IF FreeStacks = {} THEN index = MaxStackNum
                          ELSE IsFirst(index, FreeStacks)
    /\ vms' = Append(vms, [v EXCEPT !.StackIndex = index])
    /\ mStackBufferIndex' = [i \in Stacks |->
         IF i = index THEN StackHandle(v) ELSE mStackBufferIndex[i]]

\* Scanned at TPL_HIGH_LEVEL, so that no timer's context takes the same one.
GetEBCStack(v) ==
  \E index \in Stacks :
    /\ IsFirst(index, FreeStacks)
    /\ vms' = Append(vms, [v EXCEPT !.StackIndex = index])
    /\ mStackBufferIndex' =
         [mStackBufferIndex EXCEPT ![index] = StackHandle(v)]

\* Mutant: the first stack that is taken is returned, whatever its handle.
ReturnEBCStackByHandleTaken(handle) ==
  \/ FreeStacks = Stacks /\ UNCHANGED mStackBufferIndex
  \/ \E index \in Stacks :
       /\ IsFirst(index, Stacks \ FreeStacks)
       /\ mStackBufferIndex' =
            [mStackBufferIndex EXCEPT ![index] = NullHandle]

ReturnEBCStackByHandle(handle) ==
  LET taken == {i \in Stacks : mStackBufferIndex[i] = handle}
  IN  \/ taken = {} /\ UNCHANGED mStackBufferIndex
      \/ \E index \in Stacks :
           /\ IsFirst(index, taken)
           /\ mStackBufferIndex' =
                [mStackBufferIndex EXCEPT ![index] = NullHandle]

-----------------------------------------------------------------------------
(* Thunks.                                                                 *)

\* Mutant: the thunk takes the place of the image's list.
EbcAddImageThunkAlone(handle, thunk) ==
  /\ mEbcImageList' = [h \in DOMAIN mEbcImageList \cup {handle} |->
                         IF h = handle THEN {thunk} ELSE mEbcImageList[h]]
  /\ UNCHANGED unlisted

\* The thunk is put in the list of the image, and the image in the list of
\* images; EbcCreateThunks does not look at the status when either allocation
\* or the flush of the instruction cache has failed.
EbcAddImageThunk(handle, thunk) ==
  LET listed == IF handle \in DOMAIN mEbcImageList
                THEN mEbcImageList[handle] ELSE {}
      WithList(list) ==
        mEbcImageList' = [h \in DOMAIN mEbcImageList \cup {handle} |->
                            IF h = handle THEN list ELSE mEbcImageList[h]]
  IN  \/ /\ WithList(listed \cup {thunk})
         /\ UNCHANGED unlisted
      \/ /\ "failure" \in Uses
         /\ WithList(listed) \/ UNCHANGED mEbcImageList
         /\ unlisted' = unlisted \cup {thunk}

\* A thunk to the code of an image, made for the image with this handle.
EbcCreateThunks(handle, thunk, image) ==
  /\ code[thunk] = NullHandle
  /\ code' = [code EXCEPT ![thunk] = image]
  /\ EbcAddImageThunk(handle, thunk)

-----------------------------------------------------------------------------
(* Contexts.                                                               *)

\* The image's entry point is called once; without a stack it returns the
\* error, and what is left to do with the image is to unload it.
ExecuteEbcImageEntryPoint(image) ==
  /\ AtApplicationTpl /\ Len(vms) < MaxVm
  /\ state[image] = "loaded"
  /\ state' = [state EXCEPT ![image] = "started"]
  /\ \/ GetEBCStack([ImageHandle |-> image, StackIndex |-> 0,
                     In |-> <<image>>, At |-> "entry"])
     \/ FreeStacks = {} /\ UNCHANGED <<vms, mStackBufferIndex>>
  /\ UNCHANGED <<mVmPtr, lists, exits>>

\* Native code, or a timer, calls a thunk; without a stack nothing happens.
EbcInterpret(thunk) ==
  /\ Len(vms) < MaxVm
  /\ \E image \in Images : thunk \in services[image]
  /\ code[thunk] # NullHandle
  /\ GetEBCStack([ImageHandle |-> NullHandle, StackIndex |-> 0,
                  In |-> <<code[thunk]>>, At |-> "entry"])
  /\ UNCHANGED <<mVmPtr, lists, state, exits>>

EbcExecute ==
  /\ At("entry")
  /\ mVmPtr' = Len(vms)
  /\ dangling' = FALSE
  /\ SetTop([Top EXCEPT !.At = "loop"])
  /\ UNCHANGED <<mStackBufferIndex, lists, state, unwound>>

\* Mutant: mVmPtr is left.
EbcExecuteDoneStale ==
  /\ At("loop")
  /\ SetTop([Top EXCEPT !.At = "done"])
  /\ UNCHANGED <<mVmPtr, mStackBufferIndex, lists, state, exits>>

\* The last RET, or a fatal exception in whatever code.
EbcExecuteDone ==
  /\ At("loop")
  /\ mVmPtr' = 0
  /\ dangling' = FALSE
  /\ SetTop([Top EXCEPT !.At = "done"])
  /\ UNCHANGED <<mStackBufferIndex, lists, state, unwound>>

\* Mutant: the stack is not returned.
ReturnEBCStackKept ==
  /\ At("done")
  /\ vms' = SubSeq(vms, 1, Len(vms) - 1)
  /\ UNCHANGED <<mStackBufferIndex, mVmPtr, lists, state, exits>>

\* Mutant: the stack is looked for by its handle.
ReturnEBCStackFirst ==
  /\ At("done")
  /\ ReturnEBCStackByHandle(StackHandle(Top))
  /\ vms' = SubSeq(vms, 1, Len(vms) - 1)
  /\ UNCHANGED <<mVmPtr, lists, state, exits>>

ReturnEBCStack ==
  /\ At("done")
  /\ mStackBufferIndex' =
       [mStackBufferIndex EXCEPT ![Top.StackIndex] = NullHandle]
  /\ vms' = SubSeq(vms, 1, Len(vms) - 1)
  /\ UNCHANGED <<mVmPtr, lists, state, exits>>

\* CALLEX: native code is called, or the callee is a thunk and its EBC code
\* is entered in this context.
EbcLLCALLEX ==
  /\ At("loop")
  /\ \/ SetTop([Top EXCEPT !.At = "native"])
     \/ /\ "callex" \in Uses /\ Len(Top.In) < MaxDepth
        /\ \E image \in Images : \E thunk \in services[image] :
             /\ code[thunk] # NullHandle
             /\ SetTop([Top EXCEPT !.In = Append(@, code[thunk])])
  /\ UNCHANGED <<mVmPtr, mStackBufferIndex, lists, state, exits>>

EbcLLCALLEXNative ==
  /\ At("native")
  /\ SetTop([Top EXCEPT !.At = "loop"])
  /\ UNCHANGED <<mVmPtr, mStackBufferIndex, lists, state, exits>>

\* The RET from code entered by CALLEX.
ExecuteRET ==
  /\ At("loop") /\ Len(Top.In) > 1
  /\ SetTop([Top EXCEPT !.In = SubSeq(@, 1, Len(@) - 1)])
  /\ UNCHANGED <<mVmPtr, mStackBufferIndex, lists, state, exits>>

\* BREAK 5 makes a thunk to the code that runs, for the image the context has.
ExecuteBREAK5(thunk) ==
  /\ At("loop")
  /\ EbcCreateThunks(Top.ImageHandle, thunk, RunningCode)
  /\ orphans' = IF Top.ImageHandle = NullHandle THEN orphans \cup {thunk} ELSE orphans
  /\ services' = [services EXCEPT ![RunningCode] = @ \cup {thunk}]
  /\ UNCHANGED <<vms, mVmPtr, mStackBufferIndex, state, exits>>

-----------------------------------------------------------------------------
(* The firmware.                                                           *)

\* The loader makes a thunk to the image's entry point.
EbcCreateThunk(image, thunk) ==
  /\ AtApplicationTpl
  /\ state[image] = "unloaded"
  /\ state' = [state EXCEPT ![image] = "loaded"]
  /\ EbcCreateThunks(image, thunk, image)
  /\ UNCHANGED <<vms, mVmPtr, mStackBufferIndex, services, orphans, exits>>

\* Mutant: the image's element stays in the list.
FreedListedStill(image) ==
  /\ UNCHANGED mEbcImageList
  /\ code' = [t \in Thunks |->
                IF image \in DOMAIN mEbcImageList /\ t \in mEbcImageList[image]
                THEN NullHandle ELSE code[t]]

\* The image leaves the list, and its thunks are freed.
Freed(image) ==
  /\ mEbcImageList' =
       [h \in DOMAIN mEbcImageList \ {image} |-> mEbcImageList[h]]
  /\ code' = [t \in Thunks |->
                IF image \in DOMAIN mEbcImageList /\ t \in mEbcImageList[image]
                THEN NullHandle ELSE code[t]]

EbcUnloadImage(image) ==
  /\ AtApplicationTpl
  /\ state[image] # "unloaded" /\ ~IsRunning(image)
  /\ state' = [state EXCEPT ![image] = "unloaded"]
  /\ services' = [services EXCEPT ![image] = {}]
  /\ ReturnEBCStackByHandle(image)
  /\ unwound' = {s \in unwound : mStackBufferIndex'[s] # NullHandle}
  /\ Freed(image)
  /\ UNCHANGED <<vms, mVmPtr, dangling, unlisted, orphans>>

\* The image started last calls gBS->Exit: its context and the newer ones are
\* gone, the driver is not told.
Exit ==
  /\ "exit" \in Uses
  /\ AtApplicationTpl
  /\ \E i \in 1..Len(vms) :
       /\ vms[i].ImageHandle # NullHandle
       /\ \A j \in i + 1..Len(vms) : vms[j].ImageHandle = NullHandle
       /\ vms' = SubSeq(vms, 1, i - 1)
       /\ unwound' = unwound \cup {vms[j].StackIndex : j \in i..Len(vms)}
       /\ dangling' = (dangling \/ mVmPtr >= i)
  /\ UNCHANGED <<mVmPtr, mStackBufferIndex, lists, state>>

-----------------------------------------------------------------------------
Init ==
  /\ vms = <<>>
  /\ mVmPtr = 0
  /\ mStackBufferIndex = [i \in Stacks |-> NullHandle]
  /\ mEbcImageList = [h \in {} |-> {}]
  /\ code = [t \in Thunks |-> NullHandle]
  /\ services = [h \in Images |-> {}]
  /\ state = [h \in Images |-> "unloaded"]
  /\ unwound = {} /\ dangling = FALSE /\ unlisted = {} /\ orphans = {}

Next ==
  \/ \E image \in Images, thunk \in Thunks : EbcCreateThunk(image, thunk)
  \/ \E image \in Images : ExecuteEbcImageEntryPoint(image)
  \/ \E thunk \in Thunks : EbcInterpret(thunk)
  \/ EbcExecute
  \/ EbcExecuteDone
  \/ ReturnEBCStack
  \/ EbcLLCALLEX
  \/ EbcLLCALLEXNative
  \/ ExecuteRET
  \/ \E thunk \in Thunks : ExecuteBREAK5(thunk)
  \/ \E image \in Images : EbcUnloadImage(image)
  \/ Exit

Spec == Init /\ [][Next]_vars

-----------------------------------------------------------------------------
(* Properties.                                                             *)

TypeOK ==
  /\ vms \in Seq(VmContext) /\ Len(vms) <= MaxVm
  /\ mVmPtr \in 0..MaxVm
  /\ mStackBufferIndex \in [Stacks -> Images \cup {NullHandle, ThunkHandle}]
  /\ DOMAIN mEbcImageList \subseteq Images \cup {NullHandle}
  /\ \A h \in DOMAIN mEbcImageList : mEbcImageList[h] \subseteq Thunks
  /\ code \in [Thunks -> Images \cup {NullHandle}]
  /\ services \in [Images -> SUBSET Thunks]
  /\ state \in [Images -> {"unloaded", "loaded", "started"}]
  /\ unwound \subseteq Stacks /\ dangling \in BOOLEAN
  /\ unlisted \subseteq Thunks /\ orphans \subseteq Thunks

\* No two contexts alive run on the same stack, and the pool holds the stack
\* of each as taken by it: no return of a stack by index or by handle, in
\* whatever order images start, exit and are unloaded, gives away the stack
\* of a context that is still to run (GetEBCStack, ReturnEBCStack,
\* ReturnEBCStackByHandle).
ContextsOwnStacks ==
  \A i \in 1..Len(vms) :
    /\ mStackBufferIndex[vms[i].StackIndex] = StackHandle(vms[i])
    /\ \A j \in 1..Len(vms) :
         vms[i].StackIndex = vms[j].StackIndex => i = j

\* A stack is taken for a context that is alive, or that gBS->Exit has
\* unwound: however contexts nest and end, nothing else runs the pool dry.
NoStackLost ==
  \A s \in Stacks \ FreeStacks :
    s \in unwound \/ \E i \in 1..Len(vms) : vms[i].StackIndex = s

\* Every thunk listed for an image is allocated and listed for no other:
\* EbcUnloadImage frees no buffer twice.
ListedOnce ==
  \A h \in DOMAIN mEbcImageList : \A t \in mEbcImageList[h] :
    /\ code[t] # NullHandle
    /\ \A g \in DOMAIN mEbcImageList : t \in mEbcImageList[g] => g = h

\* Unless adding it failed, a thunk that is allocated is listed.  The list is
\* that of an image still loaded, which frees it when it is unloaded, but for
\* the thunks made by BREAK 5 in a context of EbcInterpret: those, and no
\* others, are in the list of the null handle, which no unloading frees.
NoThunkLost ==
  /\ \A t \in Thunks \ unlisted : code[t] # NullHandle =>
       \E h \in DOMAIN mEbcImageList : t \in mEbcImageList[h]
  /\ \A h \in DOMAIN mEbcImageList \ {NullHandle} : state[h] # "unloaded"
  /\ \A h \in DOMAIN mEbcImageList : \A t \in mEbcImageList[h] :
       h = NullHandle <=> t \in orphans

\* The context the timer finds in mVmPtr (EbcPeriodicNotifyFunction), unless
\* Exit unwound it, is alive and is the newest that has begun to execute.
PeriodicContext ==
  mVmPtr # 0 /\ ~dangling =>
    /\ mVmPtr <= Len(vms)
    /\ vms[mVmPtr].At \in {"loop", "native"}
    /\ \A i \in mVmPtr + 1..Len(vms) : vms[i].At = "entry"

\* The pool by handles keeps the promise of OwnedStacks: a stack passes from
\* free to taken and back only with the context that has it, or, by handle,
\* when no context is left on it.
Pool == INSTANCE OwnedStacks WITH
  taken <- Stacks \ FreeStacks,
  live  <- [i \in 1..Len(vms) |-> vms[i].StackIndex]

ImplementsPool == Pool!Spec
=============================================================================

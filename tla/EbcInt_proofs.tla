--------------------------- MODULE EbcInt_proofs ---------------------------
(***************************************************************************)
(* Proofs about the EBC driver, for every set of images and thunks, every  *)
(* number of stacks and every nesting of contexts.                         *)
(***************************************************************************)
EXTENDS EbcInt, SequenceTheorems, TLAPS

IInv == TypeOK /\ ContextsOwnStacks /\ ListedOnce

\* What each step does to the contexts is one of three things: the newest
\* goes on, older ones alone are left, or a new one takes a stack.

\* The newest context goes on, on its stack and for its image.
LEMMA SetTopKeeps ==
  ASSUME IInv, vms # <<>>, NEW v \in VmContext, SetTop(v),
         v.StackIndex = Top.StackIndex, v.ImageHandle = Top.ImageHandle,
         UNCHANGED mStackBufferIndex
  PROVE  /\ vms' \in Seq(VmContext) /\ Len(vms') = Len(vms)
         /\ ContextsOwnStacks'
<1>1. /\ vms' \in Seq(VmContext) /\ Len(vms') = Len(vms)
      /\ Len(vms) \in 1..Len(vms)
      /\ vms'[Len(vms)] = v
      /\ \A i \in 1..Len(vms) : i # Len(vms) => vms'[i] = vms[i]
  BY DEF IInv, TypeOK, SetTop
<1>2. ASSUME NEW i \in 1..Len(vms)
      PROVE  /\ vms'[i].StackIndex = vms[i].StackIndex
             /\ StackHandle(vms'[i]) = StackHandle(vms[i])
  BY <1>1 DEF Top, StackHandle
<1>. QED
  BY <1>1, <1>2 DEF IInv, ContextsOwnStacks

\* The context runs and its record is one.
LEMMA TopType ==
  ASSUME IInv, vms # <<>>
  PROVE  /\ Top \in VmContext /\ Len(vms) \in 1..Len(vms)
         /\ Len(Top.In) \in Nat \ {0} /\ RunningCode \in Images
<1>1. Top \in VmContext /\ Len(vms) \in 1..Len(vms)
  BY DEF IInv, TypeOK, Top
<1>2. Top.In \in Seq(Images) /\ Top.In # <<>>
  BY <1>1 DEF VmContext
<1>. QED
  BY <1>1, <1>2 DEF RunningCode

\* After a RET it is still in the code of some image.
LEMMA CallerCode ==
  ASSUME IInv, vms # <<>>, Len(Top.In) > 1
  PROVE  SubSeq(Top.In, 1, Len(Top.In) - 1) \in Seq(Images) \ {<<>>}
<1>1. Top.In \in Seq(Images) /\ Len(Top.In) - 1 \in 1..Len(Top.In)
  BY TopType DEF VmContext
<1>. DEFINE rest == SubSeq(Top.In, 1, Len(Top.In) - 1)
<1>2. rest \in Seq(Images) /\ Len(rest) = Len(Top.In) - 1
  BY <1>1
<1>3. Len(rest) # 0
  BY <1>1, <1>2
<1>. HIDE DEF rest
<1>4. rest # <<>>
  BY <1>3
<1>. QED
  BY <1>2, <1>4 DEF rest

\* Every context alive is one.
LEMMA ContextType ==
  ASSUME IInv, NEW i \in 1..Len(vms)
  PROVE  vms[i] \in VmContext /\ vms[i].StackIndex \in Stacks
<1>1. vms[i] \in VmContext
  BY DEF IInv, TypeOK
<1>. QED
  BY <1>1 DEF VmContext

\* What is left when the newer contexts are gone.
LEMMA PrefixElements ==
  ASSUME IInv, NEW n \in 0..Len(vms), vms' = SubSeq(vms, 1, n)
  PROVE  /\ vms' \in Seq(VmContext) /\ Len(vms') = n
         /\ \A i \in 1..n : vms'[i] = vms[i] /\ i \in 1..Len(vms)
BY DEF IInv, TypeOK

\* Older contexts are left, and the pool still has their stacks for them.
LEMMA PrefixKeeps ==
  ASSUME IInv, NEW n \in 0..Len(vms), vms' = SubSeq(vms, 1, n),
         \A i \in 1..n : mStackBufferIndex'[vms[i].StackIndex]
                           = mStackBufferIndex[vms[i].StackIndex]
  PROVE  /\ vms' \in Seq(VmContext) /\ Len(vms') = n
         /\ ContextsOwnStacks'
BY PrefixElements DEF IInv, ContextsOwnStacks, StackHandle

\* A new context's stack was free, so no other context has it.
LEMMA GetEBCStackKeeps ==
  ASSUME IInv, NEW v \in VmContext, GetEBCStack(v)
  PROVE  /\ vms' \in Seq(VmContext) /\ Len(vms') = Len(vms) + 1
         /\ mStackBufferIndex'
              \in [Stacks -> Images \cup {NullHandle, ThunkHandle}]
         /\ ContextsOwnStacks'
<1>1. PICK index \in Stacks :
        /\ index \in FreeStacks
        /\ vms' = Append(vms, [v EXCEPT !.StackIndex = index])
        /\ mStackBufferIndex' =
             [mStackBufferIndex EXCEPT ![index] = StackHandle(v)]
  BY DEF GetEBCStack, IsFirst
<1>. DEFINE w == [v EXCEPT !.StackIndex = index]
<1>2. /\ w \in VmContext /\ w.StackIndex = index
      /\ StackHandle(w) = StackHandle(v)
      /\ StackHandle(v) \in Images \cup {ThunkHandle}
  BY <1>1 DEF VmContext, StackHandle
<1>3. /\ vms' \in Seq(VmContext) /\ Len(vms') = Len(vms) + 1
      /\ Len(vms) \in Nat
      /\ vms'[Len(vms) + 1] = w
      /\ \A i \in 1..Len(vms) : vms'[i] = vms[i] /\ vms[i] \in VmContext
  BY <1>1, <1>2 DEF IInv, TypeOK
<1>4. mStackBufferIndex' \in [Stacks -> Images \cup {NullHandle, ThunkHandle}]
  BY <1>1, <1>2 DEF IInv, TypeOK
<1>5. mStackBufferIndex[index] = NullHandle
  BY <1>1 DEF FreeStacks
<1>6. \A i \in 1..Len(vms) : /\ vms[i].StackIndex # index
                             /\ vms[i].StackIndex \in Stacks
  <2>. SUFFICES ASSUME NEW i \in 1..Len(vms)
                PROVE  vms[i].StackIndex # index /\ vms[i].StackIndex \in Stacks
    OBVIOUS
  <2>1. StackHandle(vms[i]) # NullHandle /\ vms[i].StackIndex \in Stacks
    BY <1>3, HandleAssumption DEF VmContext, StackHandle
  <2>. QED
    BY <2>1, <1>5 DEF IInv, ContextsOwnStacks
<1>7. \A i \in 1..Len(vms') :
        mStackBufferIndex'[vms'[i].StackIndex] = StackHandle(vms'[i])
  <2>. SUFFICES ASSUME NEW i \in 1..Len(vms')
                PROVE  mStackBufferIndex'[vms'[i].StackIndex]
                         = StackHandle(vms'[i])
    OBVIOUS
  <2>1. CASE i = Len(vms) + 1
    BY <2>1, <1>1, <1>2, <1>3 DEF IInv, TypeOK
  <2>2. CASE i \in 1..Len(vms)
    BY <2>2, <1>1, <1>3, <1>6 DEF IInv, TypeOK, ContextsOwnStacks
  <2>. QED
    BY <2>1, <2>2, <1>3
<1>8. \A i, j \in 1..Len(vms') :
        vms'[i].StackIndex = vms'[j].StackIndex => i = j
  <2>. SUFFICES ASSUME NEW i \in 1..Len(vms'), NEW j \in 1..Len(vms'),
                       vms'[i].StackIndex = vms'[j].StackIndex
                PROVE  i = j
    OBVIOUS
  <2>1. \A k \in 1..Len(vms') :
          \/ k = Len(vms) + 1 /\ vms'[k].StackIndex = index
          \/ k \in 1..Len(vms) /\ vms'[k].StackIndex = vms[k].StackIndex
    <3>. SUFFICES ASSUME NEW k \in 1..Len(vms')
                  PROVE  \/ k = Len(vms) + 1 /\ vms'[k].StackIndex = index
                         \/ /\ k \in 1..Len(vms)
                            /\ vms'[k].StackIndex = vms[k].StackIndex
      OBVIOUS
    <3>1. k = Len(vms) + 1 \/ k \in 1..Len(vms)
      BY <1>3
    <3>2. vms'[Len(vms) + 1].StackIndex = index
      BY <1>2, <1>3
    <3>. QED
      BY <3>1, <3>2, <1>3
  <2>2. \A k, l \in 1..Len(vms) :
          vms[k].StackIndex = vms[l].StackIndex => k = l
    BY DEF IInv, ContextsOwnStacks
  <2>. QED
    BY <2>1, <2>2, <1>6
<1>. QED
  BY <1>3, <1>4, <1>7, <1>8 DEF ContextsOwnStacks

\* A thunk that was free is added to at most one list.
LEMMA EbcCreateThunksKeeps ==
  ASSUME IInv, NEW handle \in Images \cup {NullHandle}, NEW thunk \in Thunks,
         NEW image \in Images, EbcCreateThunks(handle, thunk, image)
  PROVE  /\ DOMAIN mEbcImageList' \subseteq Images \cup {NullHandle}
         /\ unlisted' \subseteq Thunks
         /\ \A h \in DOMAIN mEbcImageList' : mEbcImageList'[h] \subseteq Thunks
         /\ code' \in [Thunks -> Images \cup {NullHandle}]
         /\ ListedOnce'
<1>1. /\ code' = [code EXCEPT ![thunk] = image] /\ code[thunk] = NullHandle
      /\ code' \in [Thunks -> Images \cup {NullHandle}]
      /\ image # NullHandle
  BY HandleAssumption DEF EbcCreateThunks, IInv, TypeOK
<1>2. ASSUME NEW h \in DOMAIN mEbcImageList, NEW t \in mEbcImageList[h]
      PROVE  /\ t \in Thunks /\ t # thunk /\ code[t] # NullHandle
             /\ \A g \in DOMAIN mEbcImageList :
                  t \in mEbcImageList[g] => g = h
  BY <1>1 DEF IInv, TypeOK, ListedOnce
<1>. DEFINE listed == IF handle \in DOMAIN mEbcImageList
                      THEN mEbcImageList[handle] ELSE {}
            With(list) == [h \in DOMAIN mEbcImageList \cup {handle} |->
                             IF h = handle THEN list ELSE mEbcImageList[h]]
<1>3. \/ mEbcImageList' = With(listed \cup {thunk})
      \/ mEbcImageList' = With(listed)
      \/ mEbcImageList' = mEbcImageList
  BY DEF EbcCreateThunks, EbcAddImageThunk
<1>4. DOMAIN mEbcImageList' \subseteq DOMAIN mEbcImageList \cup {handle}
  BY <1>3
<1>5. \A h \in DOMAIN mEbcImageList' : \A t \in mEbcImageList'[h] :
        \/ h \in DOMAIN mEbcImageList /\ t \in mEbcImageList[h]
        \/ h = handle /\ t = thunk
  BY <1>3
<1>6. \A h \in DOMAIN mEbcImageList' : mEbcImageList'[h] \subseteq Thunks
  BY <1>5, <1>2
<1>7. DOMAIN mEbcImageList' \subseteq Images \cup {NullHandle}
  BY <1>4 DEF IInv, TypeOK
<1>8. ListedOnce'
  <2>. SUFFICES ASSUME NEW h \in DOMAIN mEbcImageList',
                       NEW t \in mEbcImageList'[h]
                PROVE  /\ code'[t] # NullHandle
                       /\ \A g \in DOMAIN mEbcImageList' :
                            t \in mEbcImageList'[g] => g = h
    BY DEF ListedOnce
  <2>1. CASE t = thunk
    BY <2>1, <1>1, <1>2, <1>5 DEF IInv, TypeOK
  <2>2. CASE t # thunk
    BY <2>2, <1>1, <1>2, <1>5 DEF IInv, TypeOK
  <2>. QED
    BY <2>1, <2>2
<1>9. unlisted' \subseteq Thunks
  BY DEF EbcCreateThunks, EbcAddImageThunk, IInv, TypeOK
<1>. QED
  BY <1>1, <1>6, <1>7, <1>8, <1>9

\* The thunks freed with an image were in no other list.
LEMMA FreedKeeps ==
  ASSUME IInv, NEW image \in Images, Freed(image)
  PROVE  /\ DOMAIN mEbcImageList' \subseteq Images \cup {NullHandle}
         /\ \A h \in DOMAIN mEbcImageList' : mEbcImageList'[h] \subseteq Thunks
         /\ code' \in [Thunks -> Images \cup {NullHandle}]
         /\ ListedOnce'
<1>1. /\ DOMAIN mEbcImageList' = DOMAIN mEbcImageList \ {image}
      /\ \A h \in DOMAIN mEbcImageList' : mEbcImageList'[h] = mEbcImageList[h]
  BY DEF Freed
<1>2. \A t \in Thunks : code'[t] =
        IF image \in DOMAIN mEbcImageList /\ t \in mEbcImageList[image]
        THEN NullHandle ELSE code[t]
  BY DEF Freed
<1>3. code' \in [Thunks -> Images \cup {NullHandle}]
  BY DEF Freed, IInv, TypeOK
<1>. QED
  BY <1>1, <1>2, <1>3 DEF IInv, TypeOK, ListedOnce

-----------------------------------------------------------------------------
LEMMA IInvInit == Init => IInv
<1>. SUFFICES ASSUME Init PROVE IInv
  OBVIOUS
<1>1. dangling \in BOOLEAN
  BY Zenon DEF Init
<1>2. TypeOK
  BY <1>1, SizeAssumption DEF Init, TypeOK, VmContext, Stacks
<1>. QED
  BY <1>2 DEF Init, IInv, ContextsOwnStacks, ListedOnce

LEMMA IInvNext ==
  ASSUME IInv, [Next]_vars
  PROVE  IInv'
<1>1. ASSUME NEW image \in Images, NEW thunk \in Thunks,
             EbcCreateThunk(image, thunk)
      PROVE  IInv'
  <2>1. /\ DOMAIN mEbcImageList' \subseteq Images \cup {NullHandle}
        /\ unlisted' \subseteq Thunks
        /\ \A h \in DOMAIN mEbcImageList' : mEbcImageList'[h] \subseteq Thunks
        /\ code' \in [Thunks -> Images \cup {NullHandle}]
        /\ ListedOnce'
    BY <1>1, EbcCreateThunksKeeps DEF EbcCreateThunk
  <2>. QED
    BY <1>1, <2>1 DEF EbcCreateThunk, IInv, TypeOK, ContextsOwnStacks, exits
<1>2. ASSUME NEW image \in Images, ExecuteEbcImageEntryPoint(image)
      PROVE  IInv'
  <2>. DEFINE v == [ImageHandle |-> image, StackIndex |-> 0,
                    In |-> <<image>>, At |-> "entry"]
  <2>1. v \in VmContext
    BY SizeAssumption DEF VmContext, Stacks
  <2>2. /\ UNCHANGED <<mVmPtr, lists, exits>> /\ Len(vms) < MaxVm
        /\ state' \in [Images -> {"unloaded", "loaded", "started"}]
    BY <1>2 DEF ExecuteEbcImageEntryPoint, IInv, TypeOK
  <2>3. CASE GetEBCStack(v)
    <3>1. /\ vms' \in Seq(VmContext) /\ Len(vms') = Len(vms) + 1
          /\ mStackBufferIndex'
               \in [Stacks -> Images \cup {NullHandle, ThunkHandle}]
          /\ ContextsOwnStacks'
      BY <2>1, <2>3, GetEBCStackKeeps
    <3>. QED
      BY <3>1, <2>2, SizeAssumption
      DEF IInv, TypeOK, ListedOnce, lists, exits
  <2>4. CASE UNCHANGED <<vms, mStackBufferIndex>>
    BY <2>2, <2>4
    DEF IInv, TypeOK, ContextsOwnStacks, ListedOnce, lists, exits
  <2>. QED
    BY <1>2, <2>3, <2>4 DEF ExecuteEbcImageEntryPoint
<1>3. ASSUME NEW thunk \in Thunks, EbcInterpret(thunk)
      PROVE  IInv'
  <2>. DEFINE v == [ImageHandle |-> NullHandle, StackIndex |-> 0,
                    In |-> <<code[thunk]>>, At |-> "entry"]
  <2>1. v \in VmContext
    BY <1>3, SizeAssumption DEF EbcInterpret, VmContext, Stacks, IInv, TypeOK
  <2>2. /\ vms' \in Seq(VmContext) /\ Len(vms') = Len(vms) + 1
        /\ mStackBufferIndex'
             \in [Stacks -> Images \cup {NullHandle, ThunkHandle}]
        /\ ContextsOwnStacks'
    BY <1>3, <2>1, GetEBCStackKeeps DEF EbcInterpret
  <2>. QED
    BY <1>3, <2>2, SizeAssumption
    DEF EbcInterpret, IInv, TypeOK, ListedOnce, lists, exits
<1>4. ASSUME vms # <<>>, NEW v \in VmContext, SetTop(v),
             v.StackIndex = Top.StackIndex, v.ImageHandle = Top.ImageHandle,
             mVmPtr' \in 0..MaxVm, dangling' \in BOOLEAN,
             UNCHANGED <<mStackBufferIndex, lists, state, unwound>>
      PROVE  IInv'
  <2>1. /\ vms' \in Seq(VmContext) /\ Len(vms') = Len(vms)
        /\ ContextsOwnStacks'
    BY <1>4, SetTopKeeps
  <2>. QED
    BY <1>4, <2>1 DEF IInv, TypeOK, ListedOnce, lists
<1>5. ASSUME NEW place \in {"entry", "loop", "native", "done"}, vms # <<>>,
             SetTop([Top EXCEPT !.At = place]), mVmPtr' \in 0..MaxVm,
             dangling' \in BOOLEAN,
             UNCHANGED <<mStackBufferIndex, lists, state, unwound>>
      PROVE  IInv'
  <2>. DEFINE v == [Top EXCEPT !.At = place]
  <2>1. /\ v \in VmContext /\ v.StackIndex = Top.StackIndex
        /\ v.ImageHandle = Top.ImageHandle
    BY <1>5, TopType DEF VmContext
  <2>. HIDE DEF v
  <2>. QED
    BY <1>4, <1>5, <2>1 DEF v
<1>6. ASSUME NEW in \in Seq(Images) \ {<<>>}, vms # <<>>,
             SetTop([Top EXCEPT !.In = in]),
             UNCHANGED <<mVmPtr, mStackBufferIndex, lists, state, exits>>
      PROVE  IInv'
  <2>. DEFINE v == [Top EXCEPT !.In = in]
  <2>1. /\ v \in VmContext /\ v.StackIndex = Top.StackIndex
        /\ v.ImageHandle = Top.ImageHandle
    BY <1>6, TopType DEF VmContext
  <2>2. /\ mVmPtr' \in 0..MaxVm /\ dangling' \in BOOLEAN
        /\ UNCHANGED unwound
    BY <1>6 DEF IInv, TypeOK, exits
  <2>. HIDE DEF v
  <2>. QED
    BY <1>4, <1>6, <2>1, <2>2 DEF v
<1>7. CASE EbcExecute
  <2>1. dangling' \in BOOLEAN
    BY <1>7, Zenon DEF EbcExecute
  <2>2. vms # <<>> /\ mVmPtr' \in 0..MaxVm
    BY <1>7, TopType DEF EbcExecute, At, IInv, TypeOK
  <2>. QED
    BY <1>5, <1>7, <2>1, <2>2 DEF EbcExecute
<1>8. CASE EbcExecuteDone
  <2>1. dangling' \in BOOLEAN
    BY <1>8, Zenon DEF EbcExecuteDone
  <2>2. vms # <<>> /\ mVmPtr' \in 0..MaxVm
    BY <1>8, SizeAssumption DEF EbcExecuteDone, At
  <2>. QED
    BY <1>5, <1>8, <2>1, <2>2 DEF EbcExecuteDone
<1>9. CASE ReturnEBCStack
  <2>. DEFINE n == Len(vms) - 1
  <2>1. /\ vms # <<>> /\ n \in 0..Len(vms) /\ Len(vms) \in 1..Len(vms)
        /\ vms' = SubSeq(vms, 1, n)
        /\ mStackBufferIndex' =
             [mStackBufferIndex EXCEPT ![vms[Len(vms)].StackIndex] = NullHandle]
    BY <1>9 DEF ReturnEBCStack, At, Top, IInv, TypeOK
  <2>2. \A i \in 1..n : /\ vms[i].StackIndex # vms[Len(vms)].StackIndex
                        /\ vms[i].StackIndex \in Stacks
    <3>. SUFFICES ASSUME NEW i \in 1..n
                  PROVE  /\ vms[i].StackIndex # vms[Len(vms)].StackIndex
                         /\ vms[i].StackIndex \in Stacks
      OBVIOUS
    <3>1. i \in 1..Len(vms) /\ i # Len(vms)
      BY <2>1
    <3>. QED
      BY <2>1, <3>1, ContextType DEF IInv, ContextsOwnStacks
  <2>3. \A i \in 1..n : mStackBufferIndex'[vms[i].StackIndex]
                          = mStackBufferIndex[vms[i].StackIndex]
    BY <2>1, <2>2 DEF IInv, TypeOK
  <2>4. /\ vms' \in Seq(VmContext) /\ Len(vms') = n /\ ContextsOwnStacks'
    BY <2>1, <2>3, PrefixKeeps
  <2>5. mStackBufferIndex'
          \in [Stacks -> Images \cup {NullHandle, ThunkHandle}]
    BY <2>1 DEF IInv, TypeOK
  <2>. QED
    BY <1>9, <2>1, <2>4, <2>5, SizeAssumption
    DEF ReturnEBCStack, IInv, TypeOK, ListedOnce, lists, exits
<1>10. CASE EbcLLCALLEX
  <2>1. /\ vms # <<>>
        /\ UNCHANGED <<mVmPtr, mStackBufferIndex, lists, state, exits>>
    BY <1>10 DEF EbcLLCALLEX, At
  <2>2. CASE SetTop([Top EXCEPT !.At = "native"])
    BY <1>5, <2>1, <2>2 DEF IInv, TypeOK, exits
  <2>3. ASSUME NEW image \in Images, NEW thunk \in services[image],
               code[thunk] # NullHandle,
               SetTop([Top EXCEPT !.In = Append(@, code[thunk])])
        PROVE  IInv'
    <3>1. code[thunk] \in Images
      BY <2>3 DEF IInv, TypeOK
    <3>2. Append(Top.In, code[thunk]) \in Seq(Images) \ {<<>>}
      BY <2>1, <3>1, TopType DEF VmContext
    <3>3. SetTop([Top EXCEPT !.In = Append(Top.In, code[thunk])])
      BY <2>1, <2>3, TopType DEF VmContext
    <3>. QED
      BY <1>6, <2>1, <3>2, <3>3
  <2>. QED
    BY <1>10, <2>2, <2>3 DEF EbcLLCALLEX
<1>11. CASE EbcLLCALLEXNative
  BY <1>5, <1>11 DEF EbcLLCALLEXNative, At, IInv, TypeOK, exits
<1>12. CASE ExecuteRET
  <2>1. /\ vms # <<>>
        /\ UNCHANGED <<mVmPtr, mStackBufferIndex, lists, state, exits>>
        /\ Len(Top.In) > 1
        /\ SetTop([Top EXCEPT !.In = SubSeq(Top.In, 1, Len(Top.In) - 1)])
    BY <1>12, TopType DEF ExecuteRET, At, VmContext
  <2>2. SubSeq(Top.In, 1, Len(Top.In) - 1) \in Seq(Images) \ {<<>>}
    BY <2>1, CallerCode
  <2>. QED
    BY <1>6, <2>1, <2>2
<1>13. ASSUME NEW thunk \in Thunks, ExecuteBREAK5(thunk)
       PROVE  IInv'
  <2>1. /\ vms # <<>> /\ RunningCode \in Images
        /\ Top.ImageHandle \in Images \cup {NullHandle}
    BY <1>13, TopType DEF ExecuteBREAK5, At, VmContext
  <2>2. /\ DOMAIN mEbcImageList' \subseteq Images \cup {NullHandle}
        /\ unlisted' \subseteq Thunks
        /\ \A h \in DOMAIN mEbcImageList' : mEbcImageList'[h] \subseteq Thunks
        /\ code' \in [Thunks -> Images \cup {NullHandle}]
        /\ ListedOnce'
    BY <1>13, <2>1, EbcCreateThunksKeeps DEF ExecuteBREAK5
  <2>3. services' \in [Images -> SUBSET Thunks]
    BY <1>13, <2>1 DEF ExecuteBREAK5, IInv, TypeOK
  <2>4. orphans' \subseteq Thunks
    BY <1>13 DEF ExecuteBREAK5, IInv, TypeOK
  <2>. QED
    BY <1>13, <2>2, <2>3, <2>4
    DEF ExecuteBREAK5, IInv, TypeOK, ContextsOwnStacks, exits
<1>14. ASSUME NEW image \in Images, EbcUnloadImage(image)
       PROVE  IInv'
  <2>1. /\ DOMAIN mEbcImageList' \subseteq Images \cup {NullHandle}
        /\ \A h \in DOMAIN mEbcImageList' : mEbcImageList'[h] \subseteq Thunks
        /\ code' \in [Thunks -> Images \cup {NullHandle}]
        /\ ListedOnce'
    BY <1>14, FreedKeeps DEF EbcUnloadImage
  <2>2. /\ UNCHANGED <<vms, mVmPtr, dangling, unlisted, orphans>> /\ ~IsRunning(image)
        /\ unwound' \subseteq Stacks
        /\ services' \in [Images -> SUBSET Thunks]
        /\ state' \in [Images -> {"unloaded", "loaded", "started"}]
    BY <1>14 DEF EbcUnloadImage, IInv, TypeOK
  <2>3. \A i \in 1..Len(vms) :
          mStackBufferIndex[vms[i].StackIndex] # image
    <3>. SUFFICES ASSUME NEW i \in 1..Len(vms)
                  PROVE  StackHandle(vms[i]) # image
      BY DEF IInv, ContextsOwnStacks
    <3>1. vms[i].ImageHandle # image
      BY <2>2 DEF IsRunning
    <3>. QED
      BY <3>1, HandleAssumption DEF StackHandle
  <2>4. /\ mStackBufferIndex'
             \in [Stacks -> Images \cup {NullHandle, ThunkHandle}]
        /\ \A s \in Stacks : mStackBufferIndex[s] # image =>
             mStackBufferIndex'[s] = mStackBufferIndex[s]
    BY <1>14 DEF EbcUnloadImage, ReturnEBCStackByHandle, IsFirst, IInv, TypeOK
  <2>5. \A i \in 1..Len(vms) : vms[i].StackIndex \in Stacks
    BY ContextType
  <2>6. ContextsOwnStacks'
    BY <2>2, <2>3, <2>4, <2>5 DEF IInv, ContextsOwnStacks
  <2>. QED
    BY <2>1, <2>2, <2>4, <2>6 DEF IInv, TypeOK
<1>15. CASE Exit
  <2>1. PICK i \in 1..Len(vms) : vms' = SubSeq(vms, 1, i - 1)
    BY <1>15 DEF Exit
  <2>2. i - 1 \in 0..Len(vms) /\ i - 1 <= Len(vms) /\ Len(vms) \in Nat
    BY DEF IInv, TypeOK
  <2>3. UNCHANGED <<mVmPtr, mStackBufferIndex, lists, state>>
    BY <1>15 DEF Exit
  <2>4. /\ vms' \in Seq(VmContext) /\ Len(vms') = i - 1 /\ ContextsOwnStacks'
    BY <2>1, <2>2, <2>3, PrefixKeeps
  <2>5. unwound' \subseteq Stacks
    <3>1. PICK j \in 1..Len(vms) :
            unwound' = unwound \cup {vms[k].StackIndex : k \in j..Len(vms)}
      BY <1>15 DEF Exit
    <3>2. \A k \in j..Len(vms) : vms[k].StackIndex \in Stacks
      BY <2>2, ContextType
    <3>. QED
      BY <3>1, <3>2 DEF IInv, TypeOK
  <2>6. dangling' \in BOOLEAN
    BY <1>15 DEF Exit
  <2>. QED
    BY <2>2, <2>3, <2>4, <2>5, <2>6, SizeAssumption
    DEF IInv, TypeOK, ListedOnce, lists
<1>16. CASE UNCHANGED vars
  BY <1>16 DEF vars, IInv, TypeOK, ContextsOwnStacks, ListedOnce
<1>. QED
  BY <1>1, <1>2, <1>3, <1>7, <1>8, <1>9, <1>10, <1>11, <1>12, <1>13, <1>14,
     <1>15, <1>16 DEF Next

-----------------------------------------------------------------------------
LEMMA Inductive == Spec => []IInv
BY IInvInit, IInvNext, PTL DEF Spec

\* Every handle, stack, thunk and context of the driver keeps its type.
THEOREM TypeCorrect == Spec => []TypeOK
<1>1. IInv => TypeOK
  BY DEF IInv
<1>. QED
  BY <1>1, Inductive, PTL

\* No two contexts alive ever share a stack, in whatever order images are
\* started, exit and are unloaded and thunks are called, and with however few
\* stacks (GetEBCStack, ReturnEBCStack, ReturnEBCStackByHandle).
THEOREM StacksOwned == Spec => []ContextsOwnStacks
<1>1. IInv => ContextsOwnStacks
  BY DEF IInv
<1>. QED
  BY <1>1, Inductive, PTL

\* No buffer of a thunk is in two lists or in a list and free, so that none is
\* freed twice (EbcAddImageThunk, EbcUnloadImage).
THEOREM ThunksListedOnce == Spec => []ListedOnce
<1>1. IInv => ListedOnce
  BY DEF IInv
<1>. QED
  BY <1>1, Inductive, PTL

-----------------------------------------------------------------------------
(* The pool and mVmPtr follow the contexts, those that Exit has unwound     *)
(* included.                                                               *)

PoolInv == NoStackLost /\ PeriodicContext

\* A step that leaves the stacks and the number of contexts alone, and only
\* moves the newest one, loses no stack.
LEMMA SameStacks ==
  ASSUME IInv, NoStackLost, UNCHANGED <<mStackBufferIndex, unwound>>,
         Len(vms') = Len(vms),
         \A i \in 1..Len(vms) : vms'[i].StackIndex = vms[i].StackIndex
  PROVE  NoStackLost'
BY DEF NoStackLost, FreeStacks

\* What SetTop does to each context.
LEMMA SetTopElements ==
  ASSUME IInv, vms # <<>>, NEW v \in VmContext, SetTop(v)
  PROVE  /\ Len(vms') = Len(vms) /\ Len(vms) \in Nat \ {0}
         /\ vms'[Len(vms)] = v
         /\ \A i \in 1..Len(vms) : i # Len(vms) => vms'[i] = vms[i]
BY DEF IInv, TypeOK, SetTop

LEMMA GetEBCStackLosesNone ==
  ASSUME IInv, PoolInv, UNCHANGED <<mVmPtr, exits>>,
         NEW v \in VmContext, v.At = "entry", GetEBCStack(v)
  PROVE  PoolInv'
<1>1. PICK index \in Stacks :
        /\ vms' = Append(vms, [v EXCEPT !.StackIndex = index])
        /\ mStackBufferIndex' =
             [mStackBufferIndex EXCEPT ![index] = StackHandle(v)]
  BY DEF GetEBCStack
<1>. DEFINE w == [v EXCEPT !.StackIndex = index]
<1>2. w \in VmContext /\ w.StackIndex = index /\ w.At = "entry"
  BY <1>1 DEF VmContext
<1>. HIDE DEF w
<1>3. /\ Len(vms') = Len(vms) + 1 /\ Len(vms) \in Nat
      /\ vms'[Len(vms) + 1] = w
      /\ \A i \in 1..Len(vms) : vms'[i] = vms[i]
  BY <1>1, <1>2 DEF IInv, TypeOK, w
<1>4. NoStackLost'
  <2>. SUFFICES ASSUME NEW s \in Stacks, mStackBufferIndex'[s] # NullHandle,
                       s \notin unwound
                PROVE  \E i \in 1..Len(vms') : vms'[i].StackIndex = s
    BY DEF NoStackLost, FreeStacks, exits
  <2>1. CASE s = index
    BY <2>1, <1>2, <1>3
  <2>2. CASE s # index
    <3>1. mStackBufferIndex[s] # NullHandle
      BY <2>2, <1>1 DEF IInv, TypeOK
    <3>2. PICK i \in 1..Len(vms) : vms[i].StackIndex = s
      BY <3>1 DEF PoolInv, NoStackLost, FreeStacks
    <3>. QED
      BY <3>2, <1>3
  <2>. QED
    BY <2>1, <2>2
<1>5. PeriodicContext'
  <2>. SUFFICES ASSUME mVmPtr # 0, ~dangling
                PROVE  /\ mVmPtr <= Len(vms')
                       /\ vms'[mVmPtr].At \in {"loop", "native"}
                       /\ \A i \in mVmPtr + 1..Len(vms') : vms'[i].At = "entry"
    BY DEF PeriodicContext, exits
  <2>1. mVmPtr \in 1..Len(vms)
    BY SizeAssumption, <1>3 DEF IInv, TypeOK, PoolInv, PeriodicContext
  <2>2. ASSUME NEW i \in mVmPtr + 1..Len(vms')
        PROVE  vms'[i].At = "entry"
    <3>1. i = Len(vms) + 1 \/ (i \in 1..Len(vms) /\ i \in mVmPtr + 1..Len(vms))
      BY <2>1, <1>3
    <3>. QED
      BY <3>1, <1>2, <1>3 DEF PoolInv, PeriodicContext
  <2>. QED
    BY <2>1, <2>2, <1>3 DEF PoolInv, PeriodicContext
<1>. QED
  BY <1>4, <1>5 DEF PoolInv

LEMMA PoolInvNext ==
  ASSUME IInv, PoolInv, [Next]_vars
  PROVE  PoolInv'
<1>. USE DEF PoolInv
<1>1. ASSUME UNCHANGED <<vms, mVmPtr, mStackBufferIndex, exits>>
      PROVE  PoolInv'
  BY <1>1 DEF NoStackLost, FreeStacks, PeriodicContext, exits
<1>2. ASSUME NEW image \in Images, NEW thunk \in Thunks,
             EbcCreateThunk(image, thunk)
      PROVE  PoolInv'
  BY <1>1, <1>2 DEF EbcCreateThunk
<1>3. ASSUME NEW image \in Images, ExecuteEbcImageEntryPoint(image)
      PROVE  PoolInv'
  <2>. DEFINE v == [ImageHandle |-> image, StackIndex |-> 0,
                    In |-> <<image>>, At |-> "entry"]
  <2>1. v \in VmContext /\ v.At = "entry" /\ UNCHANGED <<mVmPtr, exits>>
    BY <1>3, SizeAssumption DEF ExecuteEbcImageEntryPoint, VmContext, Stacks
  <2>2. GetEBCStack(v) \/ UNCHANGED <<vms, mStackBufferIndex>>
    BY <1>3 DEF ExecuteEbcImageEntryPoint
  <2>. HIDE DEF v
  <2>. QED
    BY <1>1, <2>1, <2>2, GetEBCStackLosesNone
<1>4. ASSUME NEW thunk \in Thunks, EbcInterpret(thunk)
      PROVE  PoolInv'
  <2>. DEFINE v == [ImageHandle |-> NullHandle, StackIndex |-> 0,
                    In |-> <<code[thunk]>>, At |-> "entry"]
  <2>1. v \in VmContext /\ v.At = "entry"
    BY <1>4, SizeAssumption DEF EbcInterpret, VmContext, Stacks, IInv, TypeOK
  <2>2. GetEBCStack(v) /\ UNCHANGED <<mVmPtr, exits>>
    BY <1>4 DEF EbcInterpret
  <2>. HIDE DEF v
  <2>. QED
    BY <2>1, <2>2, GetEBCStackLosesNone
<1>5. ASSUME vms # <<>>, NEW v \in VmContext, SetTop(v),
             v.StackIndex = Top.StackIndex,
             UNCHANGED <<mStackBufferIndex, unwound>>
      PROVE  NoStackLost'
  <2>1. /\ Len(vms') = Len(vms)
        /\ \A i \in 1..Len(vms) : vms'[i].StackIndex = vms[i].StackIndex
    BY <1>5, SetTopElements DEF Top
  <2>. QED
    BY <1>5, <2>1, SameStacks
<1>6. CASE EbcExecute
  <2>. DEFINE v == [Top EXCEPT !.At = "loop"]
  <2>1. /\ vms # <<>> /\ SetTop(v) /\ mVmPtr' = Len(vms)
        /\ UNCHANGED <<mStackBufferIndex, unwound>>
    BY <1>6 DEF EbcExecute, At
  <2>2. v \in VmContext /\ v.StackIndex = Top.StackIndex /\ v.At = "loop"
    BY <2>1, TopType DEF VmContext
  <2>. HIDE DEF v
  <2>3. PeriodicContext'
    BY <2>1, <2>2, SetTopElements DEF PeriodicContext
  <2>. QED
    BY <1>5, <2>1, <2>2, <2>3
<1>7. CASE EbcExecuteDone
  <2>. DEFINE v == [Top EXCEPT !.At = "done"]
  <2>1. /\ vms # <<>> /\ SetTop(v) /\ mVmPtr' = 0
        /\ UNCHANGED <<mStackBufferIndex, unwound>>
    BY <1>7 DEF EbcExecuteDone, At
  <2>2. v \in VmContext /\ v.StackIndex = Top.StackIndex
    BY <2>1, TopType DEF VmContext
  <2>. HIDE DEF v
  <2>. QED
    BY <1>5, <2>1, <2>2 DEF PeriodicContext
\* A context that runs or waits is the one mVmPtr has, if it has any.
<1>8. ASSUME vms # <<>>, Top.At \in {"loop", "native"},
             NEW v \in VmContext, SetTop(v), v.StackIndex = Top.StackIndex,
             v.At \in {"loop", "native"},
             UNCHANGED <<mVmPtr, mStackBufferIndex, exits>>
      PROVE  PoolInv'
  <2>1. /\ Len(vms') = Len(vms) /\ Len(vms) \in Nat \ {0}
        /\ vms'[Len(vms)] = v
    BY <1>8, SetTopElements
  <2>2. mVmPtr # 0 /\ ~dangling => mVmPtr = Len(vms)
    BY <1>8, <2>1 DEF PeriodicContext, Top, IInv, TypeOK
  <2>3. PeriodicContext'
    BY <1>8, <2>1, <2>2 DEF PeriodicContext, exits
  <2>. QED
    BY <1>5, <1>8, <2>3 DEF exits
<1>9. ASSUME vms # <<>>, Top.At \in {"loop", "native"},
             NEW place \in {"loop", "native"},
             SetTop([Top EXCEPT !.At = place]),
             UNCHANGED <<mVmPtr, mStackBufferIndex, exits>>
      PROVE  PoolInv'
  <2>. DEFINE v == [Top EXCEPT !.At = place]
  <2>1. v \in VmContext /\ v.StackIndex = Top.StackIndex /\ v.At = place
    BY <1>9, TopType DEF VmContext
  <2>. HIDE DEF v
  <2>. QED
    BY <1>8, <1>9, <2>1 DEF v
<1>10. ASSUME vms # <<>>, Top.At = "loop", NEW in \in Seq(Images) \ {<<>>},
              SetTop([Top EXCEPT !.In = in]),
              UNCHANGED <<mVmPtr, mStackBufferIndex, exits>>
       PROVE  PoolInv'
  <2>. DEFINE v == [Top EXCEPT !.In = in]
  <2>1. v \in VmContext /\ v.StackIndex = Top.StackIndex /\ v.At = "loop"
    BY <1>10, TopType DEF VmContext
  <2>. HIDE DEF v
  <2>. QED
    BY <1>8, <1>10, <2>1 DEF v
<1>11. CASE ReturnEBCStack
  <2>1. /\ vms # <<>> /\ Top.At = "done" /\ UNCHANGED <<mVmPtr, exits>>
        /\ vms' = SubSeq(vms, 1, Len(vms) - 1)
        /\ mStackBufferIndex' =
             [mStackBufferIndex EXCEPT ![Top.StackIndex] = NullHandle]
    BY <1>11 DEF ReturnEBCStack, At
  <2>2. /\ Len(vms') = Len(vms) - 1 /\ Len(vms) \in Nat \ {0}
        /\ \A i \in 1..Len(vms) - 1 : vms'[i] = vms[i]
    <3>1. vms \in Seq(VmContext) /\ Len(vms) \in Nat \ {0}
      BY <2>1 DEF IInv, TypeOK
    <3>2. Len(vms) - 1 \in 0..Len(vms)
      BY <3>1
    <3>3. /\ Len(vms') = Len(vms) - 1
          /\ \A i \in 1..Len(vms) - 1 : vms'[i] = vms[i]
      BY <2>1, <3>2, PrefixElements
    <3>. QED
      BY <3>1, <3>3
  <2>3. NoStackLost'
    <3>. SUFFICES ASSUME NEW s \in Stacks, mStackBufferIndex'[s] # NullHandle,
                         s \notin unwound
                  PROVE  \E i \in 1..Len(vms') : vms'[i].StackIndex = s
      BY <2>1 DEF NoStackLost, FreeStacks, exits
    <3>1. s # Top.StackIndex /\ mStackBufferIndex[s] # NullHandle
      BY <2>1 DEF IInv, TypeOK
    <3>2. PICK i \in 1..Len(vms) : vms[i].StackIndex = s
      BY <3>1 DEF NoStackLost, FreeStacks
    <3>3. i \in 1..Len(vms) - 1
      BY <3>1, <3>2, <2>2 DEF Top
    <3>. QED
      BY <3>2, <3>3, <2>2
  <2>4. mVmPtr # 0 /\ ~dangling => mVmPtr \in 1..Len(vms) - 1
    BY <2>1, <2>2 DEF PeriodicContext, Top, IInv, TypeOK
  <2>5. PeriodicContext'
    BY <2>1, <2>2, <2>4 DEF PeriodicContext, exits
  <2>. QED
    BY <2>3, <2>5
<1>12. CASE EbcLLCALLEX
  <2>1. /\ vms # <<>> /\ Top.At = "loop"
        /\ UNCHANGED <<mVmPtr, mStackBufferIndex, exits>>
    BY <1>12 DEF EbcLLCALLEX, At
  <2>2. CASE SetTop([Top EXCEPT !.At = "native"])
    BY <1>9, <2>1, <2>2
  <2>3. ASSUME NEW image \in Images, NEW thunk \in services[image],
               code[thunk] # NullHandle,
               SetTop([Top EXCEPT !.In = Append(@, code[thunk])])
        PROVE  PoolInv'
    <3>1. code[thunk] \in Images
      BY <2>3 DEF IInv, TypeOK
    <3>2. Append(Top.In, code[thunk]) \in Seq(Images) \ {<<>>}
      BY <2>1, <3>1, TopType DEF VmContext
    <3>3. SetTop([Top EXCEPT !.In = Append(Top.In, code[thunk])])
      BY <2>1, <2>3, TopType DEF VmContext
    <3>. QED
      BY <1>10, <2>1, <3>2, <3>3
  <2>. QED
    BY <1>12, <2>2, <2>3 DEF EbcLLCALLEX
<1>13. CASE EbcLLCALLEXNative
  BY <1>9, <1>13 DEF EbcLLCALLEXNative, At
<1>14. CASE ExecuteRET
  <2>1. /\ vms # <<>> /\ Top.At = "loop" /\ Len(Top.In) > 1
        /\ UNCHANGED <<mVmPtr, mStackBufferIndex, exits>>
        /\ SetTop([Top EXCEPT !.In = SubSeq(Top.In, 1, Len(Top.In) - 1)])
    BY <1>14, TopType DEF ExecuteRET, At, VmContext
  <2>2. SubSeq(Top.In, 1, Len(Top.In) - 1) \in Seq(Images) \ {<<>>}
    BY <2>1, CallerCode
  <2>. QED
    BY <1>10, <2>1, <2>2
<1>15. ASSUME NEW thunk \in Thunks, ExecuteBREAK5(thunk)
       PROVE  PoolInv'
  BY <1>1, <1>15 DEF ExecuteBREAK5
<1>16. ASSUME NEW image \in Images, EbcUnloadImage(image)
       PROVE  PoolInv'
  <2>1. /\ UNCHANGED <<vms, mVmPtr, dangling>>
        /\ unwound' = {s \in unwound : mStackBufferIndex'[s] # NullHandle}
    BY <1>16 DEF EbcUnloadImage
  <2>2. \A s \in Stacks : mStackBufferIndex'[s] # NullHandle =>
                            mStackBufferIndex[s] # NullHandle
    BY <1>16 DEF EbcUnloadImage, ReturnEBCStackByHandle, IInv, TypeOK
  <2>3. NoStackLost'
    BY <2>1, <2>2 DEF NoStackLost, FreeStacks
  <2>. QED
    BY <2>1, <2>3 DEF PeriodicContext
\* The context of mVmPtr waits, so that it is the newest, and Exit unwinds it.
<1>17. CASE Exit
  <2>1. PICK i \in 1..Len(vms) :
          /\ vms' = SubSeq(vms, 1, i - 1)
          /\ unwound' = unwound \cup {vms[k].StackIndex : k \in i..Len(vms)}
          /\ dangling' = (dangling \/ mVmPtr >= i)
    BY <1>17 DEF Exit
  <2>2. /\ i - 1 \in 0..Len(vms) /\ Len(vms) \in Nat /\ mVmPtr \in Nat
        /\ vms[i].At = "native"
        /\ UNCHANGED <<mVmPtr, mStackBufferIndex>>
    <3>1. /\ \A k \in 1..Len(vms) : vms[k].At = "native"
          /\ UNCHANGED <<mVmPtr, mStackBufferIndex>>
      BY <1>17 DEF Exit, AtApplicationTpl
    <3>2. i - 1 \in 0..Len(vms) /\ Len(vms) \in Nat /\ mVmPtr \in Nat
      BY SizeAssumption DEF IInv, TypeOK
    <3>. QED
      BY <3>1, <3>2
  <2>3. /\ Len(vms') = i - 1
        /\ \A k \in 1..i - 1 : vms'[k] = vms[k]
    BY <2>1, <2>2, PrefixElements
  <2>4. NoStackLost'
    <3>. SUFFICES ASSUME NEW s \in Stacks, mStackBufferIndex[s] # NullHandle,
                         s \notin unwound'
                  PROVE  \E k \in 1..Len(vms') : vms'[k].StackIndex = s
      BY <2>2 DEF NoStackLost, FreeStacks
    <3>1. PICK k \in 1..Len(vms) : vms[k].StackIndex = s
      BY <2>1 DEF NoStackLost, FreeStacks
    <3>2. k \notin i..Len(vms)
      BY <2>1, <3>1
    <3>3. k \in 1..i - 1
      BY <2>2, <3>2
    <3>. QED
      BY <2>3, <3>1, <3>3
  <2>5. mVmPtr # 0 => dangling'
    <3>. SUFFICES ASSUME mVmPtr # 0, ~dangling, ~(mVmPtr >= i)
                  PROVE  FALSE
      BY <2>1
    <3>1. i \in mVmPtr + 1..Len(vms)
      BY <2>2
    <3>2. vms[i].At = "entry"
      BY <3>1 DEF PeriodicContext
    <3>. QED
      BY <2>2, <3>2
  <2>. QED
    BY <2>2, <2>4, <2>5 DEF PeriodicContext
<1>18. CASE UNCHANGED vars
  BY <1>1, <1>18 DEF vars, exits
<1>. QED
  BY <1>2, <1>3, <1>4, <1>6, <1>7, <1>11, <1>12, <1>13, <1>14, <1>15, <1>16,
     <1>17, <1>18 DEF Next

LEMMA PoolInvariant == Spec => []PoolInv
<1>1. Init => PoolInv
  BY DEF Init, PoolInv, NoStackLost, FreeStacks, PeriodicContext
<1>2. IInv /\ PoolInv /\ [Next]_vars => PoolInv'
  BY PoolInvNext
<1>. QED
  BY <1>1, <1>2, Inductive, PTL DEF Spec

\* Every stack that is taken is taken for a context that is alive or that Exit
\* has unwound, so that the pool never runs dry by itself.
THEOREM StacksNotLost == Spec => []NoStackLost
<1>1. PoolInv => NoStackLost
  BY DEF PoolInv
<1>. QED
  BY <1>1, PoolInvariant, PTL

\* The context a timer finds in mVmPtr, unless Exit has unwound it, is alive
\* and the newest to have begun.
THEOREM PeriodicContextAlive == Spec => []PeriodicContext
<1>1. PoolInv => PeriodicContext
  BY DEF PoolInv
<1>. QED
  BY <1>1, PoolInvariant, PTL

-----------------------------------------------------------------------------
(* No thunk is lost: the images whose contexts are alive are loaded, so     *)
(* that what BREAK 5 lists for them is listed for a loaded image.           *)

RunningLoaded ==
  \A i \in 1..Len(vms) :
    vms[i].ImageHandle # NullHandle => state[vms[i].ImageHandle] # "unloaded"

\* What BREAK 5 makes for no image stays allocated: no unloading frees it.
OrphansKept == \A t \in orphans : code[t] # NullHandle

ThunkInv == NoThunkLost /\ OrphansKept /\ RunningLoaded

\* The image of the context that runs is in the state of some image.
LEMMA HandleType ==
  ASSUME IInv, NEW i \in 1..Len(vms)
  PROVE  vms[i].ImageHandle \in Images \cup {NullHandle}
BY ContextType DEF VmContext

\* A thunk made for a loaded image is in its list, one made for none in that of
\* the null handle, unless adding it has failed.
LEMMA EbcCreateThunksLists ==
  ASSUME IInv, NoThunkLost, OrphansKept, NEW handle \in Images \cup {NullHandle},
         NEW thunk \in Thunks, NEW image \in Images,
         EbcCreateThunks(handle, thunk, image),
         orphans' = IF handle = NullHandle THEN orphans \cup {thunk} ELSE orphans,
         handle # NullHandle => state'[handle] # "unloaded",
         \A h \in Images : state[h] # "unloaded" => state'[h] # "unloaded"
  PROVE  NoThunkLost' /\ OrphansKept'
<1>. DEFINE listed == IF handle \in DOMAIN mEbcImageList
                      THEN mEbcImageList[handle] ELSE {}
            With(list) == [h \in DOMAIN mEbcImageList \cup {handle} |->
                             IF h = handle THEN list ELSE mEbcImageList[h]]
<1>1. /\ code' = [code EXCEPT ![thunk] = image]
      /\ \/ mEbcImageList' = With(listed \cup {thunk}) /\ unlisted' = unlisted
         \/ /\ mEbcImageList' = With(listed) \/ mEbcImageList' = mEbcImageList
            /\ unlisted' = unlisted \cup {thunk}
  BY DEF EbcCreateThunks, EbcAddImageThunk
<1>2. /\ DOMAIN mEbcImageList' \subseteq DOMAIN mEbcImageList \cup {handle}
      /\ unlisted \subseteq unlisted'
  BY <1>1
<1>3. \A h \in DOMAIN mEbcImageList :
        /\ h \in DOMAIN mEbcImageList'
        /\ mEbcImageList[h] \subseteq mEbcImageList'[h]
  BY <1>1
<1>4. thunk \in unlisted' \/ \E h \in DOMAIN mEbcImageList' : thunk \in mEbcImageList'[h]
  BY <1>1
<1>5. ASSUME NEW t \in Thunks \ unlisted', code'[t] # NullHandle
      PROVE  \E h \in DOMAIN mEbcImageList' : t \in mEbcImageList'[h]
  <2>1. CASE t = thunk
    BY <1>4, <1>5, <2>1
  <2>2. CASE t # thunk
    <3>1. t \in Thunks \ unlisted /\ code[t] # NullHandle
      BY <1>1, <1>2, <1>5, <2>2 DEF IInv, TypeOK
    <3>. QED
      BY <1>3, <3>1 DEF NoThunkLost
  <2>. QED
    BY <2>1, <2>2
<1>6. ASSUME NEW h \in DOMAIN mEbcImageList' \ {NullHandle}
      PROVE  state'[h] # "unloaded"
  <2>1. h = handle \/ (h \in DOMAIN mEbcImageList /\ h \in Images)
    BY <1>2 DEF IInv, TypeOK
  <2>. QED
    BY <2>1 DEF NoThunkLost
<1>7. /\ thunk \notin orphans
      /\ \A h \in DOMAIN mEbcImageList : thunk \notin mEbcImageList[h]
  BY DEF EbcCreateThunks, OrphansKept, IInv, ListedOnce
<1>8. ASSUME NEW h \in DOMAIN mEbcImageList', NEW t \in mEbcImageList'[h]
      PROVE  h = NullHandle <=> t \in orphans'
  <2>1. \/ h \in DOMAIN mEbcImageList /\ t \in mEbcImageList[h]
        \/ h = handle /\ t = thunk
    BY <1>1, <1>8
  <2>2. CASE h \in DOMAIN mEbcImageList /\ t \in mEbcImageList[h]
    BY <1>7, <2>2 DEF NoThunkLost
  <2>3. CASE h = handle /\ t = thunk
    BY <1>7, <2>3
  <2>. QED
    BY <2>1, <2>2, <2>3
<1>9. OrphansKept'
  <2>1. image # NullHandle
    BY HandleAssumption
  <2>2. \A t \in orphans' : t \in Thunks /\ (t = thunk \/ code[t] # NullHandle)
    BY DEF OrphansKept, IInv, TypeOK
  <2>. QED
    BY <1>1, <2>1, <2>2 DEF OrphansKept, IInv, TypeOK
<1>. QED
  BY <1>5, <1>6, <1>8, <1>9 DEF NoThunkLost

\* A new context for a loaded image, or for none.
LEMMA GetEBCStackLoaded ==
  ASSUME IInv, RunningLoaded, NEW v \in VmContext, GetEBCStack(v),
         v.ImageHandle # NullHandle => state'[v.ImageHandle] # "unloaded",
         \A h \in Images : state[h] # "unloaded" => state'[h] # "unloaded"
  PROVE  RunningLoaded'
<1>1. PICK index \in Stacks : vms' = Append(vms, [v EXCEPT !.StackIndex = index])
  BY DEF GetEBCStack
<1>. DEFINE w == [v EXCEPT !.StackIndex = index]
<1>2. w \in VmContext /\ w.ImageHandle = v.ImageHandle
  BY DEF VmContext
<1>. HIDE DEF w
<1>3. /\ Len(vms') = Len(vms) + 1 /\ Len(vms) \in Nat
      /\ vms'[Len(vms) + 1] = w
      /\ \A i \in 1..Len(vms) : vms'[i] = vms[i]
  BY <1>1, <1>2 DEF IInv, TypeOK, w
<1>4. ASSUME NEW i \in 1..Len(vms'), vms'[i].ImageHandle # NullHandle
      PROVE  state'[vms'[i].ImageHandle] # "unloaded"
  <2>1. CASE i = Len(vms) + 1
    BY <1>2, <1>3, <1>4, <2>1
  <2>2. CASE i \in 1..Len(vms)
    <3>1. vms[i].ImageHandle \in Images /\ state[vms[i].ImageHandle] # "unloaded"
      BY <1>3, <1>4, <2>2, HandleType DEF RunningLoaded
    <3>. QED
      BY <1>3, <2>2, <3>1
  <2>. QED
    BY <1>3, <2>1, <2>2
<1>. QED
  BY <1>4 DEF RunningLoaded

\* The newest context goes on, for the image it is for.
LEMMA SetTopLoaded ==
  ASSUME IInv, RunningLoaded, vms # <<>>, NEW v \in VmContext, SetTop(v),
         v.ImageHandle = Top.ImageHandle, UNCHANGED state
  PROVE  RunningLoaded'
BY SetTopElements DEF RunningLoaded, Top

\* Older contexts are left.
LEMMA PrefixLoaded ==
  ASSUME IInv, RunningLoaded, NEW n \in 0..Len(vms), vms' = SubSeq(vms, 1, n),
         UNCHANGED state
  PROVE  RunningLoaded'
BY PrefixElements DEF RunningLoaded
LEMMA ThunkInvNext ==
  ASSUME IInv, ThunkInv, [Next]_vars
  PROVE  ThunkInv'
<1>. USE DEF ThunkInv
\* Most steps leave the lists, and either the contexts or their images, alone.
<1>1. ASSUME UNCHANGED <<lists, state>>
      PROVE  NoThunkLost' /\ OrphansKept'
  BY <1>1 DEF NoThunkLost, OrphansKept, lists
<1>2. ASSUME UNCHANGED <<vms, state>>
      PROVE  RunningLoaded'
  BY <1>2 DEF RunningLoaded
<1>3. ASSUME NEW image \in Images, NEW thunk \in Thunks,
             EbcCreateThunk(image, thunk)
      PROVE  ThunkInv'
  <2>1. /\ EbcCreateThunks(image, thunk, image) /\ UNCHANGED <<vms, orphans>>
        /\ image # NullHandle
        /\ state' = [state EXCEPT ![image] = "loaded"]
    BY <1>3, HandleAssumption DEF EbcCreateThunk
  <2>2. \A h \in Images : state[h] # "unloaded" \/ h = image => state'[h] # "unloaded"
    BY <2>1 DEF IInv, TypeOK
  <2>3. NoThunkLost' /\ OrphansKept'
    BY <2>1, <2>2, EbcCreateThunksLists
  <2>4. RunningLoaded'
    BY <2>1, <2>2, HandleType DEF RunningLoaded
  <2>. QED
    BY <2>3, <2>4
<1>4. ASSUME NEW image \in Images, ExecuteEbcImageEntryPoint(image)
      PROVE  ThunkInv'
  <2>. DEFINE v == [ImageHandle |-> image, StackIndex |-> 0,
                    In |-> <<image>>, At |-> "entry"]
  <2>1. /\ UNCHANGED lists
        /\ state' = [state EXCEPT ![image] = "started"]
        /\ GetEBCStack(v) \/ UNCHANGED vms
    BY <1>4 DEF ExecuteEbcImageEntryPoint
  <2>2. \A h \in Images : state[h] # "unloaded" \/ h = image => state'[h] # "unloaded"
    BY <2>1 DEF IInv, TypeOK
  <2>3. NoThunkLost' /\ OrphansKept'
    BY <2>1, <2>2 DEF NoThunkLost, OrphansKept, lists, IInv, TypeOK
  <2>4. v \in VmContext /\ v.ImageHandle = image
    BY SizeAssumption DEF VmContext, Stacks
  <2>. HIDE DEF v
  <2>5. GetEBCStack(v) => RunningLoaded'
    BY <2>2, <2>4, GetEBCStackLoaded
  <2>6. UNCHANGED vms => RunningLoaded'
    BY <2>2, HandleType DEF RunningLoaded
  <2>. QED
    BY <2>1, <2>3, <2>5, <2>6
<1>5. ASSUME NEW thunk \in Thunks, EbcInterpret(thunk)
      PROVE  ThunkInv'
  <2>. DEFINE v == [ImageHandle |-> NullHandle, StackIndex |-> 0,
                    In |-> <<code[thunk]>>, At |-> "entry"]
  <2>1. v \in VmContext /\ v.ImageHandle = NullHandle
    BY <1>5, SizeAssumption DEF EbcInterpret, VmContext, Stacks, IInv, TypeOK
  <2>2. GetEBCStack(v) /\ UNCHANGED <<lists, state>>
    BY <1>5 DEF EbcInterpret
  <2>. HIDE DEF v
  <2>3. RunningLoaded'
    BY <2>1, <2>2, GetEBCStackLoaded
  <2>. QED
    BY <1>1, <2>2, <2>3
<1>6. ASSUME vms # <<>>, NEW place \in {"loop", "native", "done"},
             SetTop([Top EXCEPT !.At = place]), UNCHANGED <<lists, state>>
      PROVE  ThunkInv'
  <2>. DEFINE v == [Top EXCEPT !.At = place]
  <2>1. v \in VmContext /\ v.ImageHandle = Top.ImageHandle
    BY <1>6, TopType DEF VmContext
  <2>. HIDE DEF v
  <2>2. RunningLoaded'
    BY <1>6, <2>1, SetTopLoaded DEF v
  <2>. QED
    BY <1>1, <1>6, <2>2
<1>7. ASSUME vms # <<>>, NEW in \in Seq(Images) \ {<<>>},
             SetTop([Top EXCEPT !.In = in]), UNCHANGED <<lists, state>>
      PROVE  ThunkInv'
  <2>. DEFINE v == [Top EXCEPT !.In = in]
  <2>1. v \in VmContext /\ v.ImageHandle = Top.ImageHandle
    BY <1>7, TopType DEF VmContext
  <2>. HIDE DEF v
  <2>2. RunningLoaded'
    BY <1>7, <2>1, SetTopLoaded DEF v
  <2>. QED
    BY <1>1, <1>7, <2>2
<1>8. CASE EbcExecute
  BY <1>6, <1>8 DEF EbcExecute, At
<1>9. CASE EbcExecuteDone
  BY <1>6, <1>9 DEF EbcExecuteDone, At
<1>10. CASE ReturnEBCStack
  <2>1. /\ vms # <<>> /\ vms' = SubSeq(vms, 1, Len(vms) - 1)
        /\ UNCHANGED <<lists, state>>
    BY <1>10 DEF ReturnEBCStack, At
  <2>2. Len(vms) - 1 \in 0..Len(vms)
    BY <2>1 DEF IInv, TypeOK
  <2>. QED
    BY <1>1, <2>1, <2>2, PrefixLoaded
<1>11. CASE EbcLLCALLEX
  <2>1. vms # <<>> /\ UNCHANGED <<lists, state>>
    BY <1>11 DEF EbcLLCALLEX, At
  <2>2. CASE SetTop([Top EXCEPT !.At = "native"])
    BY <1>6, <2>1, <2>2
  <2>3. ASSUME NEW image \in Images, NEW thunk \in services[image],
               code[thunk] # NullHandle,
               SetTop([Top EXCEPT !.In = Append(@, code[thunk])])
        PROVE  ThunkInv'
    <3>1. code[thunk] \in Images
      BY <2>3 DEF IInv, TypeOK
    <3>2. Append(Top.In, code[thunk]) \in Seq(Images) \ {<<>>}
      BY <2>1, <3>1, TopType DEF VmContext
    <3>3. SetTop([Top EXCEPT !.In = Append(Top.In, code[thunk])])
      BY <2>1, <2>3, TopType DEF VmContext
    <3>. QED
      BY <1>7, <2>1, <3>2, <3>3
  <2>. QED
    BY <1>11, <2>2, <2>3 DEF EbcLLCALLEX
<1>12. CASE EbcLLCALLEXNative
  BY <1>6, <1>12 DEF EbcLLCALLEXNative, At
<1>13. CASE ExecuteRET
  <2>1. /\ vms # <<>> /\ Len(Top.In) > 1 /\ UNCHANGED <<lists, state>>
        /\ SetTop([Top EXCEPT !.In = SubSeq(Top.In, 1, Len(Top.In) - 1)])
    BY <1>13, TopType DEF ExecuteRET, At, VmContext
  <2>2. SubSeq(Top.In, 1, Len(Top.In) - 1) \in Seq(Images) \ {<<>>}
    BY <2>1, CallerCode
  <2>. QED
    BY <1>7, <2>1, <2>2
\* BREAK 5 lists its thunk for the image of a context that is alive.
<1>14. ASSUME NEW thunk \in Thunks, ExecuteBREAK5(thunk)
       PROVE  ThunkInv'
  <2>1. /\ vms # <<>> /\ UNCHANGED <<vms, state>>
        /\ EbcCreateThunks(Top.ImageHandle, thunk, RunningCode)
        /\ orphans' = IF Top.ImageHandle = NullHandle THEN orphans \cup {thunk} ELSE orphans
    BY <1>14 DEF ExecuteBREAK5, At
  <2>2. /\ RunningCode \in Images
        /\ Top.ImageHandle \in Images \cup {NullHandle}
        /\ Top.ImageHandle # NullHandle => state'[Top.ImageHandle] # "unloaded"
    BY <2>1, TopType, HandleType DEF RunningLoaded, Top
  <2>. QED
    BY <1>2, <2>1, <2>2, EbcCreateThunksLists
\* What leaves the list with an image is freed, and no context is for it.
<1>15. ASSUME NEW image \in Images, EbcUnloadImage(image)
       PROVE  ThunkInv'
  <2>1. /\ UNCHANGED <<vms, unlisted, orphans>> /\ Freed(image) /\ image # NullHandle
        /\ state' = [state EXCEPT ![image] = "unloaded"]
        /\ \A i \in 1..Len(vms) : vms[i].ImageHandle # image
    BY <1>15, HandleAssumption DEF EbcUnloadImage, IsRunning
  <2>2. /\ DOMAIN mEbcImageList' = DOMAIN mEbcImageList \ {image}
        /\ \A h \in DOMAIN mEbcImageList' : mEbcImageList'[h] = mEbcImageList[h]
        /\ \A t \in Thunks : code'[t] =
             IF image \in DOMAIN mEbcImageList /\ t \in mEbcImageList[image]
             THEN NullHandle ELSE code[t]
    BY <2>1 DEF Freed
  <2>3. \A h \in Images : h # image => state'[h] = state[h]
    BY <2>1 DEF IInv, TypeOK
  <2>4. ASSUME NEW t \in Thunks \ unlisted', code'[t] # NullHandle
        PROVE  \E h \in DOMAIN mEbcImageList' : t \in mEbcImageList'[h]
    <3>1. PICK h \in DOMAIN mEbcImageList : t \in mEbcImageList[h]
      BY <2>1, <2>2, <2>4 DEF NoThunkLost
    <3>2. h # image
      BY <2>2, <2>4, <3>1
    <3>. QED
      BY <2>2, <3>1, <3>2
  <2>5. ASSUME NEW h \in DOMAIN mEbcImageList' \ {NullHandle}
        PROVE  state'[h] # "unloaded"
    BY <2>2, <2>3 DEF NoThunkLost, IInv, TypeOK
  <2>6. RunningLoaded'
    BY <2>1, <2>3, HandleType DEF RunningLoaded
  <2>7. \A h \in DOMAIN mEbcImageList' : \A t \in mEbcImageList'[h] :
          h = NullHandle <=> t \in orphans'
    BY <2>1, <2>2 DEF NoThunkLost
  <2>8. OrphansKept'
    <3>1. \A t \in orphans : t \in Thunks /\ code[t] # NullHandle
      BY DEF OrphansKept, IInv, TypeOK
    <3>2. image \in DOMAIN mEbcImageList => mEbcImageList[image] \cap orphans = {}
      BY <2>1 DEF NoThunkLost
    <3>. QED
      BY <2>1, <2>2, <3>1, <3>2 DEF OrphansKept
  <2>. QED
    BY <2>4, <2>5, <2>6, <2>7, <2>8 DEF NoThunkLost
<1>16. CASE Exit
  <2>1. PICK i \in 1..Len(vms) : vms' = SubSeq(vms, 1, i - 1)
    BY <1>16 DEF Exit
  <2>2. i - 1 \in 0..Len(vms) /\ UNCHANGED <<lists, state>>
    BY <1>16 DEF Exit, IInv, TypeOK
  <2>. QED
    BY <1>1, <2>1, <2>2, PrefixLoaded
<1>17. CASE UNCHANGED vars
  BY <1>1, <1>2, <1>17 DEF vars, lists
<1>. QED
  BY <1>3, <1>4, <1>5, <1>8, <1>9, <1>10, <1>11, <1>12, <1>13, <1>14, <1>15,
     <1>16, <1>17 DEF Next

\* A thunk is lost only when adding it to its list has failed.  Every other one
\* that is allocated is listed, and it is known where: the thunks that BREAK 5
\* makes in a context of EbcInterpret, and only those, in the list of the null
\* handle, which no unloading frees, and all others in that of an image that is
\* still loaded and frees them when it is unloaded (EbcAddImageThunk,
\* EbcUnloadImage).
THEOREM ThunksListed == Spec => []NoThunkLost
<1>1. Init => ThunkInv
  BY DEF Init, ThunkInv, NoThunkLost, OrphansKept, RunningLoaded
<1>2. IInv /\ ThunkInv /\ [Next]_vars => ThunkInv'
  BY ThunkInvNext
<1>3. ThunkInv => NoThunkLost
  BY DEF ThunkInv
<1>. QED
  BY <1>1, <1>2, <1>3, Inductive, PTL DEF Spec
-----------------------------------------------------------------------------
(* The driver implements OwnedStacks: under the mapping of EbcInt, every   *)
(* step is a step of the pool, or changes neither the stacks that are      *)
(* taken nor those of the contexts alive.                                  *)

\* The pool that the driver stands for.
Taken == Stacks \ FreeStacks
Live  == [i \in 1..Len(vms) |-> vms[i].StackIndex]

\* The stacks of the contexts alive are a sequence of stacks that are taken.
LEMMA LiveType ==
  ASSUME IInv
  PROVE  /\ Live \in Seq(Stacks) /\ Len(Live) = Len(vms) /\ Len(vms) \in Nat
         /\ \A i \in 1..Len(vms) : Live[i] = vms[i].StackIndex
<1>1. Len(vms) \in Nat
  BY DEF IInv, TypeOK
<1>2. \A i \in 1..Len(vms) : vms[i].StackIndex \in Stacks
  BY ContextType
<1>. QED
  BY <1>1, <1>2 DEF Live

\* The newest context goes on: the pool stutters.
LEMMA SetTopStutters ==
  ASSUME IInv, vms # <<>>, NEW v \in VmContext, SetTop(v),
         v.StackIndex = Top.StackIndex, UNCHANGED mStackBufferIndex
  PROVE  UNCHANGED <<Taken, Live>>
<1>1. /\ Len(vms') = Len(vms)
      /\ \A i \in 1..Len(vms) : vms'[i].StackIndex = vms[i].StackIndex
  BY SetTopElements DEF Top
<1>. QED
  BY <1>1 DEF Taken, Live, FreeStacks

\* A new context takes a stack that is free.
LEMMA GetEBCStackBegins ==
  ASSUME IInv, NEW v \in VmContext, GetEBCStack(v)
  PROVE  \E s \in Stacks \ Taken : Live' = Append(Live, s) /\ Taken' = Taken \cup {s}
<1>1. PICK index \in Stacks :
        /\ index \in FreeStacks
        /\ vms' = Append(vms, [v EXCEPT !.StackIndex = index])
        /\ mStackBufferIndex' =
             [mStackBufferIndex EXCEPT ![index] = StackHandle(v)]
  BY DEF GetEBCStack, IsFirst
<1>. DEFINE w == [v EXCEPT !.StackIndex = index]
<1>2. w \in VmContext /\ w.StackIndex = index /\ StackHandle(v) # NullHandle
  BY <1>1, HandleAssumption DEF VmContext, StackHandle
<1>. HIDE DEF w
<1>3. /\ Len(vms') = Len(vms) + 1 /\ vms'[Len(vms) + 1] = w
      /\ \A i \in 1..Len(vms) : vms'[i] = vms[i]
  BY <1>1, <1>2 DEF IInv, TypeOK, w
<1>4. Taken' = Taken \cup {index} /\ index \notin Taken
  BY <1>1, <1>2 DEF Taken, FreeStacks, IInv, TypeOK
<1>5. Live' = Append(Live, index)
  <2>1. \A i \in 1..Len(vms) + 1 :
          vms'[i].StackIndex = IF i = Len(vms) + 1 THEN index ELSE Live[i]
    BY <1>2, <1>3, LiveType
  <2>2. Live' \in Seq(Stacks) /\ Len(Live') = Len(vms) + 1
    <3>1. \A i \in 1..Len(vms) + 1 : vms'[i].StackIndex \in Stacks
      BY <2>1, LiveType
    <3>. QED
      BY <1>3, <3>1, LiveType DEF Live
  <2>3. \A i \in 1..Len(vms) + 1 :
          Live'[i] = IF i = Len(vms) + 1 THEN index ELSE Live[i]
    BY <1>3, <2>1 DEF Live
  <2>4. /\ Append(Live, index) \in Seq(Stacks)
        /\ Len(Append(Live, index)) = Len(vms) + 1
        /\ \A i \in 1..Len(vms) + 1 :
             Append(Live, index)[i] = IF i = Len(vms) + 1 THEN index ELSE Live[i]
    BY LiveType
  <2>. QED
    BY <2>2, <2>3, <2>4, SeqEqual
<1>. QED
  BY <1>4, <1>5

\* Older contexts are left.
LEMMA PrefixLive ==
  ASSUME IInv, NEW n \in 0..Len(vms), vms' = SubSeq(vms, 1, n)
  PROVE  Live' = SubSeq(Live, 1, n)
<1>1. Len(vms') = n /\ \A i \in 1..n : vms'[i] = vms[i] /\ i \in 1..Len(vms)
  BY PrefixElements
<1>2. Live' = [i \in 1..n |-> Live[i]]
  BY <1>1, LiveType DEF Live
<1>3. SubSeq(Live, 1, n) = [i \in 1..n |-> Live[i]]
  BY LiveType
<1>. QED
  BY <1>2, <1>3

LEMMA PoolInit == Init => Pool!Init
BY DEF Init, Pool!Init, FreeStacks

LEMMA PoolNext ==
  ASSUME IInv, [Next]_vars
  PROVE  Pool!Next \/ UNCHANGED <<Taken, Live>>
<1>1. ASSUME UNCHANGED <<vms, mStackBufferIndex>>
      PROVE  UNCHANGED <<Taken, Live>>
  BY <1>1 DEF Taken, Live, FreeStacks
<1>2. ASSUME NEW v \in VmContext, GetEBCStack(v)
      PROVE  Pool!Begin
  BY <1>2, GetEBCStackBegins DEF Pool!Begin, Taken, Live
<1>3. ASSUME NEW image \in Images, ExecuteEbcImageEntryPoint(image)
      PROVE  Pool!Next \/ UNCHANGED <<Taken, Live>>
  <2>. DEFINE v == [ImageHandle |-> image, StackIndex |-> 0,
                    In |-> <<image>>, At |-> "entry"]
  <2>1. v \in VmContext
    BY SizeAssumption DEF VmContext, Stacks
  <2>2. GetEBCStack(v) \/ UNCHANGED <<vms, mStackBufferIndex>>
    BY <1>3 DEF ExecuteEbcImageEntryPoint
  <2>. HIDE DEF v
  <2>. QED
    BY <1>1, <1>2, <2>1, <2>2 DEF Pool!Next
<1>4. ASSUME NEW thunk \in Thunks, EbcInterpret(thunk)
      PROVE  Pool!Next
  <2>. DEFINE v == [ImageHandle |-> NullHandle, StackIndex |-> 0,
                    In |-> <<code[thunk]>>, At |-> "entry"]
  <2>1. v \in VmContext /\ GetEBCStack(v)
    BY <1>4, SizeAssumption DEF EbcInterpret, VmContext, Stacks, IInv, TypeOK
  <2>. HIDE DEF v
  <2>. QED
    BY <1>2, <2>1 DEF Pool!Next
<1>5. ASSUME vms # <<>>, NEW place \in {"loop", "native", "done"},
             SetTop([Top EXCEPT !.At = place]), UNCHANGED mStackBufferIndex
      PROVE  UNCHANGED <<Taken, Live>>
  <2>. DEFINE v == [Top EXCEPT !.At = place]
  <2>1. v \in VmContext /\ v.StackIndex = Top.StackIndex
    BY <1>5, TopType DEF VmContext
  <2>. HIDE DEF v
  <2>. QED
    BY <1>5, <2>1, SetTopStutters DEF v
<1>6. ASSUME vms # <<>>, NEW in \in Seq(Images) \ {<<>>},
             SetTop([Top EXCEPT !.In = in]), UNCHANGED mStackBufferIndex
      PROVE  UNCHANGED <<Taken, Live>>
  <2>. DEFINE v == [Top EXCEPT !.In = in]
  <2>1. v \in VmContext /\ v.StackIndex = Top.StackIndex
    BY <1>6, TopType DEF VmContext
  <2>. HIDE DEF v
  <2>. QED
    BY <1>6, <2>1, SetTopStutters DEF v
<1>7. CASE EbcExecute
  BY <1>5, <1>7 DEF EbcExecute, At
<1>8. CASE EbcExecuteDone
  BY <1>5, <1>8 DEF EbcExecuteDone, At
<1>9. CASE EbcLLCALLEXNative
  BY <1>5, <1>9 DEF EbcLLCALLEXNative, At
<1>10. CASE EbcLLCALLEX
  <2>1. vms # <<>> /\ UNCHANGED mStackBufferIndex
    BY <1>10 DEF EbcLLCALLEX, At
  <2>2. CASE SetTop([Top EXCEPT !.At = "native"])
    BY <1>5, <2>1, <2>2
  <2>3. ASSUME NEW image \in Images, NEW thunk \in services[image],
               code[thunk] # NullHandle,
               SetTop([Top EXCEPT !.In = Append(@, code[thunk])])
        PROVE  UNCHANGED <<Taken, Live>>
    <3>1. code[thunk] \in Images
      BY <2>3 DEF IInv, TypeOK
    <3>2. Append(Top.In, code[thunk]) \in Seq(Images) \ {<<>>}
      BY <2>1, <3>1, TopType DEF VmContext
    <3>3. SetTop([Top EXCEPT !.In = Append(Top.In, code[thunk])])
      BY <2>1, <2>3, TopType DEF VmContext
    <3>. QED
      BY <1>6, <2>1, <3>2, <3>3
  <2>. QED
    BY <1>10, <2>2, <2>3 DEF EbcLLCALLEX
<1>11. CASE ExecuteRET
  <2>1. /\ vms # <<>> /\ Len(Top.In) > 1 /\ UNCHANGED mStackBufferIndex
        /\ SetTop([Top EXCEPT !.In = SubSeq(Top.In, 1, Len(Top.In) - 1)])
    BY <1>11, TopType DEF ExecuteRET, At, VmContext
  <2>2. SubSeq(Top.In, 1, Len(Top.In) - 1) \in Seq(Images) \ {<<>>}
    BY <2>1, CallerCode
  <2>. QED
    BY <1>6, <2>1, <2>2
\* The context that ends has its stack to itself.
<1>12. CASE ReturnEBCStack
  <2>1. /\ vms # <<>> /\ vms' = SubSeq(vms, 1, Len(vms) - 1)
        /\ mStackBufferIndex' =
             [mStackBufferIndex EXCEPT ![Top.StackIndex] = NullHandle]
    BY <1>12 DEF ReturnEBCStack, At
  <2>2. Len(vms) \in 1..Len(vms) /\ Len(vms) - 1 \in 0..Len(vms)
    BY <2>1, TopType, LiveType
  <2>3. Live' = SubSeq(Live, 1, Len(Live) - 1) /\ Live # <<>>
    BY <2>1, <2>2, PrefixLive, LiveType
  <2>4. Top.StackIndex = Live[Len(Live)] /\ Top.StackIndex \in Stacks
    BY <2>2, LiveType, ContextType DEF Top
  <2>5. Taken' = Taken \ {Live[Len(Live)]}
    BY <2>1, <2>4 DEF Taken, FreeStacks, IInv, TypeOK
  <2>. QED
    BY <2>3, <2>5 DEF Pool!Next, Pool!End, Taken, Live
<1>13. CASE Exit
  <2>1. PICK i \in 1..Len(vms) : vms' = SubSeq(vms, 1, i - 1)
    BY <1>13 DEF Exit
  <2>2. i - 1 \in 0..Len(vms) /\ Taken' = Taken
    BY <1>13, LiveType DEF Exit, Taken, FreeStacks
  <2>3. Live' = SubSeq(Live, 1, i - 1) /\ i - 1 \in 0..Len(Live)
    BY <2>1, <2>2, PrefixLive, LiveType
  <2>. QED
    BY <2>2, <2>3 DEF Pool!Next, Pool!Abandon, Taken, Live
\* A stack that is returned by handle is that of no context alive: the image
\* does not run, so none has its handle.
<1>14. ASSUME NEW image \in Images, EbcUnloadImage(image)
       PROVE  Pool!Next \/ UNCHANGED <<Taken, Live>>
  <2>1. /\ UNCHANGED vms
        /\ \A i \in 1..Len(vms) : vms[i].ImageHandle # image
        /\ \/ UNCHANGED mStackBufferIndex
           \/ \E index \in Stacks :
                /\ mStackBufferIndex[index] = image
                /\ mStackBufferIndex' =
                     [mStackBufferIndex EXCEPT ![index] = NullHandle]
    BY <1>14 DEF EbcUnloadImage, IsRunning, ReturnEBCStackByHandle, IsFirst
  <2>2. ASSUME NEW index \in Stacks, mStackBufferIndex[index] = image,
               mStackBufferIndex' = [mStackBufferIndex EXCEPT ![index] = NullHandle]
        PROVE  Pool!Reclaim
    <3>1. image # NullHandle /\ image # ThunkHandle
      BY HandleAssumption
    <3>2. \A i \in 1..Len(vms) : vms[i].StackIndex # index
      BY <2>1, <2>2, <3>1 DEF IInv, ContextsOwnStacks, StackHandle
    <3>3. index \in Taken /\ Taken' = Taken \ {index} /\ Live' = Live
      BY <2>1, <2>2, <3>1 DEF Taken, Live, FreeStacks, IInv, TypeOK
    <3>4. index \notin {Live[i] : i \in 1..Len(Live)}
      BY <3>2, LiveType
    <3>. QED
      BY <3>3, <3>4 DEF Pool!Reclaim, Pool!Running, Taken, Live
  <2>. QED
    BY <1>1, <2>1, <2>2 DEF Pool!Next
<1>15. ASSUME NEW image \in Images, NEW thunk \in Thunks,
              EbcCreateThunk(image, thunk)
       PROVE  UNCHANGED <<Taken, Live>>
  BY <1>1, <1>15 DEF EbcCreateThunk
<1>16. ASSUME NEW thunk \in Thunks, ExecuteBREAK5(thunk)
       PROVE  UNCHANGED <<Taken, Live>>
  BY <1>1, <1>16 DEF ExecuteBREAK5
<1>17. CASE UNCHANGED vars
  BY <1>1, <1>17 DEF vars
<1>. QED
  BY <1>3, <1>4, <1>7, <1>8, <1>9, <1>10, <1>11, <1>12, <1>13, <1>14, <1>15,
     <1>16, <1>17 DEF Next

\* The pool of the driver, for every set of images, thunks and stacks, is one
\* whose stacks have owners: none is given to a context while another has it,
\* and none becomes free but with its context, or when it was left behind
\* (GetEBCStack, ReturnEBCStack, ReturnEBCStackByHandle).
THEOREM PoolImplemented == Spec => ImplementsPool
<1>1. IInv /\ [Next]_vars => [Pool!Next]_<<Taken, Live>>
  BY PoolNext
<1>. QED
  BY <1>1, PoolInit, Inductive, PTL DEF Spec, ImplementsPool, Pool!Spec, Taken, Live
=============================================================================

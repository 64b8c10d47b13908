---- MODULE EbcStackTracker ----
(***************************************************************************)
(* The stack tracker of src/Arm/EbcStackTracker.c, code by code.  It keeps *)
(* one two-bit code for a natural (1) or for eight constant bytes (0), and *)
(* two codes for one to seven bytes: the low bits of their number, then    *)
(* 2 + its high bit.  Data holds the codes, four to a byte: code i is in   *)
(* byte i \div 4.  A program is followed up to its first failed update.    *)
(***************************************************************************)
EXTENDS Integers, Sequences, FiniteSetsExt, SequencesExt

CONSTANTS
  NATURAL, Updates, Addresses, Foreign, StackPool, STACK_POOL_SIZE, Top, Lowest,
  Unwritten,    \* what the codes of memory not written yet may be
  ForeignSize,  \* bound: bytes the program puts on a stack of its own
  Apart    \* R0 leaves its stack only where the tracker can tell the two apart,
           \* and comes back before it is set to anything else

VARIABLES
  tracker,  \* EBC_STACK_TRACKER; junk: the codes of memory not written yet
  Gpr0,     \* R0
  Status    \* EFI_STATUS of the last update

vars == <<tracker, Gpr0, Status>>

\* The code takes four bytes for a natural: it is built for Arm alone.
ASSUME NaturalAssumption == NATURAL = 4
\* The pool is large enough for the tracker to have four bytes.
ASSUME PoolAssumption == STACK_POOL_SIZE \in Nat /\ STACK_POOL_SIZE >= 256
\* "Mismatched signage should already have been filtered out."
ASSUME UpdatesAssumption ==
  /\ Updates \subseteq Int \X Int
  /\ \A u \in Updates : (u[1] >= 0 /\ u[2] >= 0) \/ (u[1] <= 0 /\ u[2] <= 0)
\* R0 is set to addresses in the pool, or to a stack outside it.
ASSUME AddressAssumption ==
  /\ StackPool \in Int /\ Top \in Int /\ Foreign \in Int /\ ForeignSize \in Nat
  /\ Lowest \in StackPool .. Top - 24
  /\ Addresses \subseteq Lowest .. StackPool + STACK_POOL_SIZE - 1
  /\ Foreign \notin StackPool .. StackPool + STACK_POOL_SIZE - 1
  /\ Unwritten \subseteq 0 .. 3 /\ Apart \in BOOLEAN

STACK_TRACKER_SIZE     == STACK_POOL_SIZE \div 64
STACK_TRACKER_SIZE_MAX == STACK_POOL_SIZE \div 8

NULL == <<>>                    \* Data after a reallocation that failed
Entry == 8 + 8 + 2 * NATURAL    \* bytes that Data[0] = 0x05 stands for
InPool(a) == a \in StackPool .. StackPool + STACK_POOL_SIZE - 1
----
\* AllocatePool leaves Data unwritten but for its first byte.
AllocateStackTracker(junk) ==
  [Data  |-> [i \in 0 .. 4 * STACK_TRACKER_SIZE - 1 |->
                IF i < 4 THEN <<0, 0, 1, 1>>[i + 1] ELSE junk],
   Size  |-> STACK_TRACKER_SIZE, Index |-> 4, OrgIndex |-> 0, OrgStackPointer |-> 0,
   junk  |-> junk, Status |-> "SUCCESS"]

Ok(t) == t.Status = "SUCCESS"

\* Code i; shifting a byte by eight leaves nothing of it before the first.
Code(t, i) == IF i < 0 THEN 0 ELSE t.Data[i]

\* Entries are named as in the code: 0x08 is a natural, 0x00 eight bytes.
GetStackTrackerEntry(t) ==
  LET code == Code(t, t.Index - 1)
  IN CASE code = 1 -> 8
       [] code >= 2 -> 4 * (code % 2) + Code(t, t.Index - 2)
       [] OTHER -> 0

\* What may become of a tracker is a set from here on: a reallocation may fail.
NotReallocated(t) == [t EXCEPT !.Data = NULL, !.Status = "OUT_OF_RESOURCES"]

\* Mutant: Size keeps its value.
ReallocateSized(t, size) ==
  {NotReallocated(t),
   [t EXCEPT !.Data = [i \in 0 .. 4 * size - 1 |->
                         IF i \in DOMAIN t.Data THEN t.Data[i] ELSE t.junk]]}

Reallocate(t, size) ==
  {NotReallocated(t),
   [t EXCEPT !.Size = size,
             !.Data = [i \in 0 .. 4 * size - 1 |->
                         IF i \in DOMAIN t.Data THEN t.Data[i] ELSE t.junk]]}

\* One code at Index; it clears the codes after it in the same byte.
Coded(t, code) ==
  LET behind(i) == i > t.Index /\ i \div 4 = t.Index \div 4
  IN [t EXCEPT !.Index = @ + 1,
               !.Data  = [i \in DOMAIN @ |-> IF i = t.Index THEN code
                                             ELSE IF behind(i) THEN 0 ELSE @[i]]]

AddCode(t, code) ==
  {IF Ok(u) THEN Coded(u, code) ELSE u :
     u \in IF t.Index \div 4 >= t.Size THEN Reallocate(t, 2 * t.Size) ELSE {t}}

AddStackTrackerEntry(t, value) ==
  UNION {IF Ok(u) /\ value \in 1 .. 7 THEN AddCode(u, 2 + value \div 4) ELSE {u} :
           u \in AddCode(t, IF value = 8 THEN 1 ELSE value % 4)}

\* Mutant: the size is that of the codes, four to a byte.
NewSizeInCodes(size, updated) ==
  LET grown[s \in Nat] == IF s > updated THEN 4 * s ELSE grown[2 * s] IN grown[2 * size]

\* The size is doubled, and again until it is above the index.
NewSize(size, updated) ==
  LET grown[s \in Nat] == IF s > updated THEN s ELSE grown[2 * s] IN grown[2 * size]

\* count bytes of four codes each; the index is compared with a size in bytes.
AddStackTrackerBytes(t, code, count) ==
  LET updated  == t.Index + 4 * count
      Filled(u) == [u EXCEPT !.Index = updated,
                             !.Data  = [i \in DOMAIN @ |-> IF i \in t.Index .. updated - 1
                                                           THEN code ELSE @[i]]]
  IN {IF Ok(u) THEN Filled(u) ELSE u :
        u \in IF updated >= t.Size THEN Reallocate(t, NewSize(t.Size, updated)) ELSE {t}}

DelStackTrackerEntry(t) ==
  LET index == IF Code(t, t.Index - 1) >= 2 THEN t.Index - 2 ELSE t.Index - 1
  IN [t EXCEPT !.Index = index, !.Status = IF index < 0 THEN "UNSUPPORTED" ELSE @]
----
\* The loops are functions of the number of their iterations; s is what one of them
\* begins with, a tracker and the units that are left.
NaturalsAdded(s) ==
  IF s.units = 0 \/ ~ Ok(s.t) THEN {s}
  ELSE IF s.t.Index % 4 = 0 /\ s.units >= 4
    THEN {[t |-> u, units |-> s.units % 4] : u \in AddStackTrackerBytes(s.t, 1, s.units \div 4)}
    ELSE {[t |-> u, units |-> s.units - 1] : u \in AddStackTrackerEntry(s.t, 8)}

AddNaturals(t, n) ==
  LET loop[k \in 0 .. n] == IF k = 0 THEN {[t |-> t, units |-> n]}
                            ELSE UNION {NaturalsAdded(s) : s \in loop[k - 1]}
  IN {s.t : s \in loop[n]}

BytesAdded(s) ==
  IF s.units = 0 \/ ~ Ok(s.t) THEN {s}
  ELSE IF s.units < 8
    THEN {[t |-> u, units |-> 0] : u \in AddStackTrackerEntry(s.t, s.units)}
  ELSE IF s.units >= 32 /\ s.t.Index % 4 = 0
    THEN {[t |-> u, units |-> s.units % 32] : u \in AddStackTrackerBytes(s.t, 0, s.units \div 32)}
    ELSE {[t |-> u, units |-> s.units - 8] : u \in AddStackTrackerEntry(s.t, 0)}

AddBytes(t, c) ==
  LET loop[k \in 0 .. c] == IF k = 0 THEN {[t |-> t, units |-> c]}
                            ELSE UNION {BytesAdded(s) : s \in loop[k - 1]}
  IN {s.t : s \in loop[c]}

\* Constant bytes are packed with those of an entry that is not full.
AddConsts(t, c) ==
  LET last == GetStackTrackerEntry(t)
  IN IF c > 0 /\ Ok(t) /\ last \in 1 .. 7 THEN AddBytes(DelStackTrackerEntry(t), c + last)
                                          ELSE AddBytes(t, c)

\* Data[(Index - 1) % 4]: the fourth byte, whatever Index is, or that in front of Data.
BlockIs(t, code) ==
  IF t.Index > 0 THEN \A j \in 0 .. 3 : t.Data[4 * ((t.Index - 1) % 4) + j] = code
                 ELSE t.junk = code

\* Delete whole bytes of codes: while there are units for one, and it looks right.
DelBlocks(t, units, size, code) ==
  LET behind(k) == [t EXCEPT !.Index = @ - 4 * k]
      ends(k)   == units - k * size < size \/ ~ BlockIs(behind(k), code)
      count     == Min({k \in 0 .. units \div size : ends(k)})
  IN [t |-> behind(count), units |-> units - count * size]

BlocksDeleted(s) ==
  LET consts == DelBlocks(s.t, s.c, 32, 0)
      blocks == DelBlocks(consts.t, s.n, 4, 1)
  IN IF s.t.Index % 4 = 0 THEN [t |-> blocks.t, n |-> blocks.units, c |-> consts.units] ELSE s

\* One entry less, for a natural or for the bytes that are due; too few of them are
\* made up for by a smaller entry.
EntryTaken(s) ==
  LET last   == GetStackTrackerEntry(s.t)
      t      == DelStackTrackerEntry(s.t)
      borrow == last # 8 /\ s.c = 0         \* a natural out of constant bytes
      due    == IF borrow THEN 4 ELSE s.c
      left   == IF borrow THEN s.n - 1 ELSE s.n
      size   == CASE last = 8 -> 4 [] last = 0 -> 8 [] OTHER -> last
  IN IF ~ Ok(t) THEN {[t |-> t, n |-> s.n, c |-> s.c]}
     ELSE IF last = 8 /\ s.n > 0 THEN {[t |-> t, n |-> s.n - 1, c |-> s.c]}
     ELSE IF due >= size THEN {[t |-> t, n |-> left, c |-> due - size]}
     ELSE {[t |-> u, n |-> left, c |-> 0] : u \in AddStackTrackerEntry(t, size - due)}

Deleted(s) == (s.n = 0 /\ s.c = 0) \/ ~ Ok(s.t)

EntryDeleted(s) ==
  IF Deleted(s) THEN {s}
  ELSE IF Deleted(BlocksDeleted(s)) THEN {BlocksDeleted(s)} ELSE EntryTaken(BlocksDeleted(s))

\* Every iteration takes a byte at least.
Delete(t, n, c) ==
  LET loop[k \in 0 .. 4 * n + c] == IF k = 0 THEN {[t |-> t, n |-> n, c |-> c]}
                                    ELSE UNION {EntryDeleted(s) : s \in loop[k - 1]}
  IN {s.t : s \in loop[4 * n + c]}

UpdateStackTracker(t, n, c) ==
  IF n < 0 \/ c < 0 THEN UNION {AddConsts(u, -c) : u \in AddNaturals(t, -n)}
                    ELSE Delete(t, n, c)

\* Mutant: back from another stack, the index is left where it is.
UpdateStackTrackerFromDeltaLeft(t, a) ==
  IF t.OrgIndex = 0 /\ ~ InPool(a)
  THEN {[t EXCEPT !.OrgIndex = t.Index, !.OrgStackPointer = Gpr0,
                  !.Index = 4 * ((@ + 3) \div 4)]}
  ELSE UpdateStackTracker([t EXCEPT !.OrgIndex = 0], 0,
                          a - (IF t.OrgIndex # 0 THEN t.OrgStackPointer ELSE Gpr0))

\* Once R0 has left the pool, whatever it is set to next counts as its return.
UpdateStackTrackerFromDelta(t, a) ==
  IF t.OrgIndex = 0 /\ ~ InPool(a)
  THEN {[t EXCEPT !.OrgIndex = t.Index, !.OrgStackPointer = Gpr0,
                  !.Index = 4 * ((@ + 3) \div 4)]}
  ELSE IF t.OrgIndex # 0
  THEN UpdateStackTracker([t EXCEPT !.Index = t.OrgIndex, !.OrgIndex = 0],
                          0, a - t.OrgStackPointer)
  ELSE UpdateStackTracker(t, 0, a - Gpr0)

\* Mutant: the other bit of the code is tested.
GetArgLayoutHigh(t) ==
  {p \in 0 .. 15 : t.Index - 1 - p > -4 /\ Code(t, t.Index - 1 - p) \div 2 = 0}

\* The positions, newest argument first, that a native call takes as 64-bit.
GetArgLayout(t) ==
  {p \in 0 .. 15 : t.Index - 1 - p > -4 /\ Code(t, t.Index - 1 - p) % 2 = 0}
----
Init ==
  /\ tracker \in {AllocateStackTracker(junk) : junk \in Unwritten}
  /\ Gpr0 = Top - Entry
  /\ Status = "SUCCESS"

IsAway == tracker.OrgIndex # 0

\* A program takes back what it put on a stack: or, on the stack it was given, more
\* than there is on it at all.
WithinStack(a) == IF IsAway THEN a \in Foreign - ForeignSize .. Foreign
                            ELSE a \in Lowest .. Top - Entry \/ a > Top

\* Realigned, the index is behind a whole entry, so that nothing pushed on the other
\* stack is packed with what is in front of it; and it is not 0, which means home.
Realigned == 4 * ((tracker.Index + 3) \div 4)
Separated == /\ tracker.Index > 0
             /\ GetStackTrackerEntry([tracker EXCEPT !.Index = Realigned]) \in {0, 8}

\* Codes in whole bytes behind the index count as unwritten: all that reads them before
\* they are written is BlockIs.
\* After an update that failed, what the tracker holds is not followed any more.
Forget(t) ==
  LET end == 4 * ((Max({t.Index, t.OrgIndex}) + 3) \div 4)
  IN IF ~ Ok(t) THEN [t EXCEPT !.Data = NULL, !.Size = 0, !.Index = 0, !.OrgIndex = 0,
                               !.OrgStackPointer = 0]
     ELSE [t EXCEPT !.Data = [i \in DOMAIN @ |-> IF i >= end THEN t.junk ELSE @[i]]]

Updated(trackers) == \E t \in trackers : tracker' = Forget(t) /\ Status' = t.Status

\* PUSH and POP move R0 whether or not the tracker can follow.
PushOrPop(n, c) ==
  /\ Status = "SUCCESS" /\ WithinStack(Gpr0 + n * NATURAL + c)
  /\ (n = 0) # (c = 0) /\ n \in -1 .. 1 /\ c \in {-8, -4, 0, 4, 8}
  /\ Updated(UpdateStackTracker(tracker, n, c))
  /\ Gpr0' = Gpr0 + n * NATURAL + c

\* MOV R0, R0 (n, c) leaves R0 alone when the tracker fails.
MoveR0(n, c) ==
  /\ Status = "SUCCESS" /\ WithinStack(Gpr0 + n * NATURAL + c)
  /\ Updated(UpdateStackTracker(tracker, n, c))
  /\ Gpr0' = IF Status' = "SUCCESS" THEN Gpr0 + n * NATURAL + c ELSE Gpr0

\* R0 is set to a: from a register or memory (MOV), or by another instruction,
\* which does not look at what the tracker returns.
SetR0(a) ==
  /\ Status = "SUCCESS"
  /\ Apart /\ ~ InPool(a) => ~ IsAway /\ Separated
  /\ Updated(UpdateStackTrackerFromDelta(tracker, a))
  /\ \/ Gpr0' = IF Status' = "SUCCESS" THEN a ELSE Gpr0
     \/ Gpr0' = a

\* EbcInterpret returns, with FreeStackTracker; the next one allocates anew.
Return ==
  /\ tracker' \in {AllocateStackTracker(junk) : junk \in Unwritten}
  /\ Gpr0' = Top - Entry
  /\ Status' = "SUCCESS"

Next ==
  \/ \E u \in Updates : PushOrPop(u[1], u[2])
  \/ \E u \in Updates : MoveR0(u[1], u[2])
  \/ \E a \in Addresses \cup {Foreign} : SetR0(a)
  \/ Return

Spec == Init /\ [][Next]_vars
----
\* The slots that the codes from base up to top stand for.
Decoded(t, base, top) ==
  LET at(i)    == [t EXCEPT !.Index = i]
      slot(i)  == LET entry == GetStackTrackerEntry(at(i))
                  IN CASE entry = 8 -> 0 [] entry = 0 -> 8 [] OTHER -> entry
      slots[i \in base - 1 .. top] ==
        IF i <= base THEN <<>>
        ELSE Append(slots[DelStackTrackerEntry(at(i)).Index], slot(i))
  IN slots[top]

\* While R0 is away, its new stack begins where the index was realigned.
Base == IF IsAway THEN 4 * ((tracker.OrgIndex + 3) \div 4) ELSE 0

Slots == IF Status = "SUCCESS" THEN Decoded(tracker, Base, tracker.Index) ELSE <<>>

\* What it left behind.
Home == IF IsAway /\ Status = "SUCCESS"
        THEN [Slots |-> Decoded(tracker, 0, tracker.OrgIndex), R0 |-> tracker.OrgStackPointer]
        ELSE [Slots |-> <<>>, R0 |-> 0]

Abstract == INSTANCE StackSlots WITH
  slots <- Slots, R0 <- Gpr0, status <- Status, home <- Home

\* The tracker is a buffer of codes, and its index stays inside it.
TypeOK ==
  /\ Status \in {"SUCCESS", "OUT_OF_RESOURCES", "UNSUPPORTED"}
  /\ Status = "SUCCESS" =>
       /\ tracker.Size \in Nat /\ tracker.Size >= STACK_TRACKER_SIZE
       /\ tracker.Data \in [0 .. 4 * tracker.Size - 1 -> 0 .. 3]
       /\ tracker.Index \in 0 .. 4 * tracker.Size
       /\ tracker.OrgIndex \in 0 .. 4 * tracker.Size

\* The buffer never grows above the limit that AddStackTrackerEntry and -Bytes assert.
SizeBelowLimit == Status = "SUCCESS" => tracker.Size <= STACK_TRACKER_SIZE_MAX

\* The packed codes promise what StackSlots does: pushes, pops that split a slot
\* or run across several, a switch of stacks and the way back keep the slots, and
\* underflow is reported exactly when more is popped than there is.
ImplementsSlots == Abstract!Spec

\* A native call finds each argument as it was pushed: the layout that CALLEX takes
\* (GetArgLayout) is that of the newest slots, as far as they are whole.
LayoutOfSlots ==
  LET slot(p) == Slots[Len(Slots) - p]
      whole(p) == p < Len(Slots) /\ \A q \in 0 .. p : slot(q) \in {0, 8}
  IN \A p \in 0 .. 15 : whole(p) => (p \in GetArgLayout(tracker) <=> slot(p) = 8)

\* On its own stack the program has as many bytes as the tracker counts: deleting a
\* block at once ("Speedup deletion for blocks of naturals/consts") changes nothing.
HeightTracked ==
  Status = "SUCCESS" /\ ~ IsAway => Abstract!Total(Slots) = Top - Gpr0
====

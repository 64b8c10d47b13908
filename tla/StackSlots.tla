---- MODULE StackSlots ----
(***************************************************************************)
(* What a stack tracker promises the interpreter: at any time, the slots   *)
(* that lie between R0 and the top of the stack, the newest last.  A slot  *)
(* is a natural, or up to eight constant bytes; a native call is laid out  *)
(* from them (Arm/EbcStackTracker.c, GetArgLayout).  Nothing here says how *)
(* the slots are stored.                                                   *)
(***************************************************************************)
EXTENDS Integers, Sequences, FiniteSetsExt, SequencesExt

CONSTANTS
  NATURAL,          \* sizeof (UINTN), less than the 8 bytes of a slot: 4 on Arm
  Updates,          \* <<natural units, constant bytes>> that R0 is moved by
  Addresses,        \* values that R0 is set to
  Foreign,          \* the address of a stack the program allocates for itself
  StackPool,        \* first address of the stack the interpreter gives it ...
  STACK_POOL_SIZE,  \* ... and its size
  Top,              \* the address above the slots a program is entered with
  Lowest            \* bound: the program's stack does not reach below

VARIABLES
  slots,   \* the slots, the newest last
  R0,      \* the stack pointer
  home,    \* while R0 is on another stack: the slots and the R0 it left
  status   \* what the last update returned

vars == <<slots, R0, home, status>>

NaturalSlot == 0                                \* others are a number of bytes
Bytes(slot) == IF slot = NaturalSlot THEN NATURAL ELSE slot
Total(s)    == LET sum[k \in 0 .. Len(s)] == IF k = 0 THEN 0 ELSE sum[k - 1] + Bytes(s[k])
               IN sum[Len(s)]

Entered == <<8, 8, NaturalSlot, NaturalSlot>>   \* what a program is entered with
NoHome  == [Slots |-> <<>>, R0 |-> 0]

InPool(a) == a \in StackPool .. StackPool + STACK_POOL_SIZE - 1
IsAway    == home # NoHome
----
\* n more naturals, each in a slot of its own.
AddNaturals(s, n) == s \o [i \in 1 .. n |-> NaturalSlot]

\* c more constant bytes: they fill the newest slot first when it is not full.
AddConsts(s, c) ==
  LET open == c > 0 /\ s # <<>> /\ Last(s) \in 1 .. 7
      all  == IF open THEN c + Last(s) ELSE c
  IN (IF open THEN Front(s) ELSE s)
       \o [i \in 1 .. all \div 8 |-> 8]
       \o (IF all % 8 = 0 THEN <<>> ELSE <<all % 8>>)

\* b bytes less: the slots that still fit, and what is left of the next one.
Drop(s, b) ==
  LET left == Total(s) - b
      kept == Max({k \in 0 .. Len(s) : Total(SubSeq(s, 1, k)) <= left})
      rest == left - Total(SubSeq(s, 1, kept))
  IN SubSeq(s, 1, kept) \o (IF rest = 0 THEN <<>> ELSE <<rest>>)

\* The slots after R0 moved by n naturals and c bytes, downwards when negative.
Moved(s, n, c) == IF n <= 0 /\ c <= 0 THEN AddConsts(AddNaturals(s, -n), -c)
                                      ELSE Drop(s, n * NATURAL + c)
----
Init == slots = Entered /\ R0 = Top - Total(Entered) /\ home = NoHome /\ status = "SUCCESS"

\* The slots in s move with R0 and home becomes h; more than there is cannot be
\* dropped, and after an update that fails nothing is known any more.
Follow(s, n, c, h) ==
  \/ /\ n * NATURAL + c <= Total(s)
     /\ slots' = Moved(s, n, c) /\ home' = h /\ status' = "SUCCESS"
  \/ /\ slots' = <<>> /\ home' = NoHome
     /\ \/ status' = "UNSUPPORTED" /\ n * NATURAL + c > Total(s)
        \/ status' = "OUT_OF_RESOURCES"

\* An instruction moves R0 by a known amount: PUSH, POP, MOV R0, R0 (n, c).
Move(n, c) ==
  /\ status = "SUCCESS"
  /\ R0' \in {R0, R0 + n * NATURAL + c}
  /\ Follow(slots, n, c, home)

\* R0 is set to an address: on its own stack, to another one, or back from it.
SetR0(a) ==
  /\ status = "SUCCESS"
  /\ R0' \in {R0, a}
  /\ \/ ~ IsAway /\ InPool(a) /\ Follow(slots, 0, a - R0, NoHome)
     \/ /\ ~ IsAway /\ ~ InPool(a)
        /\ home' = [Slots |-> slots, R0 |-> R0] /\ slots' = <<>> /\ UNCHANGED status
     \/ IsAway /\ InPool(a) /\ Follow(home.Slots, 0, a - home.R0, NoHome)

\* The program returns; the next one begins with a new tracker.
Return == Init'

Next == \/ \E u \in Updates : Move(u[1], u[2])
        \/ \E a \in Addresses \cup {Foreign} : SetR0(a)
        \/ Return

Spec == Init /\ [][Next]_vars
====

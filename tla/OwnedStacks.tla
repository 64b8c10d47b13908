---------------------------- MODULE OwnedStacks ----------------------------
(***************************************************************************)
(* What the pool of stacks promises the interpreter: a context begins on a *)
(* stack that is not taken and keeps it; the newest context ends first,    *)
(* and its stack is free again; contexts that are abandoned leave theirs   *)
(* taken, and only such a stack may be reclaimed otherwise.  Nothing here  *)
(* says how the pool remembers which stacks are taken, or for whom         *)
(* (EbcInt.c, GetEBCStack and ReturnEBCStack, by index and by handle).     *)
(***************************************************************************)
EXTENDS Naturals, Sequences

CONSTANT Stacks

VARIABLES
  taken,   \* the stacks that are taken
  live     \* the stacks of the contexts alive, the newest last

Running == {live[i] : i \in 1..Len(live)}

Init == taken = {} /\ live = <<>>

Begin == \E s \in Stacks \ taken :
           /\ live' = Append(live, s)
           /\ taken' = taken \cup {s}

End ==
  /\ live # <<>>
  /\ live' = SubSeq(live, 1, Len(live) - 1)
  /\ taken' = taken \ {live[Len(live)]}

Abandon == \E n \in 0..Len(live) : live' = SubSeq(live, 1, n) /\ UNCHANGED taken

Reclaim == \E s \in taken \ Running : taken' = taken \ {s} /\ UNCHANGED live

Next == Begin \/ End \/ Abandon \/ Reclaim

Spec == Init /\ [][Next]_<<taken, live>>
=============================================================================

---- MODULE MCEbcStackTracker ----
(* Instances of EbcStackTracker for model checking. *)
EXTENDS EbcStackTracker

\* Every entry there is comes back as it was added, at any place in a byte.
ASSUME EntriesComeBack ==
  \A place \in 4 .. 11, value \in 0 .. 8 :
    LET t == [AllocateStackTracker(2) EXCEPT !.Index = place]
    IN \A u \in AddStackTrackerEntry(t, value) : GetStackTrackerEntry(u) = value

\* Pushes and pops of one natural, four or eight bytes, and moves of R0 by more.
MCUpdates == {<<-1, 0>>, <<1, 0>>, <<0, -8>>, <<0, -4>>, <<-5, 0>>, <<0, -32>>, <<2, 8>>, <<0, 28>>}

\* Deletions of a block as well: four naturals, 32 bytes.
MCBlocks == {<<-4, 0>>, <<0, -32>>, <<4, 0>>, <<0, 32>>}

MCAddresses == {1044}
====

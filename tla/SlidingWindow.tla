--------------------------- MODULE SlidingWindow ---------------------------
(***************************************************************************)
(* What admission.rs and quota.rs do with what they have recorded, oldest  *)
(* first: let go of what has left the window, and add up the rest.         *)
(***************************************************************************)
EXTENDS Naturals, Sequences, FiniteSetsExt

\* pop_front until the front is one of the entries at `young`.
FromFirst(entries, young) ==
    SubSeq(entries, Min(young \cup {Len(entries) + 1}), Len(entries))

Total(amounts) ==
    LET upto[n \in 0..Len(amounts)] == IF n = 0 THEN 0 ELSE upto[n - 1] + amounts[n]
    IN upto[Len(amounts)]

=============================================================================

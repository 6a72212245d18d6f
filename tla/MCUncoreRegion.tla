-------------------------- MODULE MCUncoreRegion ---------------------------
(***************************************************************************)
(* Model-checking instance of UncoreRegion: three slices, a block of 16   *)
(* lines for two elements of slice 0.  The slice pattern puts the first   *)
(* element after two misses and the second after one, so the finder       *)
(* both retries and restarts from the line after an element; the misses   *)
(* are lines of slices 1 and 2, so a leftover count of slice 0 would win  *)
(* a tie against them.                                                     *)
(***************************************************************************)
EXTENDS UncoreRegion

MCOwner == [l \in Lines |-> IF l \in {2, 4, 7, 8, 11, 13, 14} THEN 0 ELSE 1 + (l % 2)]

=============================================================================

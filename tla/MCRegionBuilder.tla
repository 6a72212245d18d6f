-------------------------- MODULE MCRegionBuilder --------------------------
(***************************************************************************)
(* Model-checking instance of RegionBuilder: blocks starting at any of the *)
(* first 16 lines (so every position inside an aligned group of eight     *)
(* lines, and two different groups of higher address bits), every target *)
(* slice, and up to three elements.                                        *)
(***************************************************************************)
EXTENDS RegionBuilder

MCBases == {LINE * k : k \in 0..15}
MCTargets == Slices
MCMaxKeys == 3

=============================================================================

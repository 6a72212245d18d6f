--------------------------- MODULE MCCacheIndex ----------------------------
(***************************************************************************)
(* Model-checking instance of CacheIndex.  An address is a sum of powers  *)
(* of two at the bits where the masks and strides begin and end: bit 5    *)
(* (inside a line), 6 (the first index bit), 11 and 12 (the top of the L1 *)
(* index and above it), 14, 15 and 16 (the tops of the L2 and L3 indexes  *)
(* of the two geometries) and 17 (the L3 stride).  Levels 0 and 4 are    *)
(* invalid.                                                                *)
(***************************************************************************)
EXTENDS CacheIndex, FiniteSetsExt

MCBits == {5, 6, 11, 12, 14, 15, 16, 17}
MCAddrs == {SumSet({2^b : b \in S}) : S \in SUBSET MCBits}
MCLevels == 0..4

=============================================================================

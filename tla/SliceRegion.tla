---------------------------- MODULE SliceRegion ----------------------------
(***************************************************************************)
(* What the slice-homogeneous region builder promises (spec.md 4.4):       *)
(* starting at the base of the backing block, the region is the sequence   *)
(* of the first `count` cache lines, in address order, whose slice is the  *)
(* target slice.  No line of the target slice is skipped and none is       *)
(* taken twice.  One step appends one element; every region is completed. *)
(***************************************************************************)
EXTENDS Integers, Sequences, SliceHash

CONSTANTS
    Bases,        \* possible (line-aligned) base addresses of the block
    Targets,      \* target slices a region may be built for
    MaxKeys,      \* largest element count
    ScanLimit     \* lines a search for one element may look at

ASSUME \A b \in Bases : b \in Nat /\ b % LINE = 0
ASSUME Targets \subseteq Slices
ASSUME MaxKeys \in Nat \ {0}
ASSUME ScanLimit \in Nat \ {0}

VARIABLES base, target, count, region

absVars == <<base, target, count, region>>

NoMatch == -1

\* Reference definition: the first line at or after `from` that the hash
\* maps to slice s, looking at n lines (NoMatch if none).  The lines are
\* taken in blocks of BLOCK so that the recursion stays shallow.
BLOCK == 32

RECURSIVE FirstInBlock(_, _, _)
FirstInBlock(from, s, n) ==
    IF n = 0 THEN NoMatch
    ELSE IF calculateSlice_HF_haswell(from) = s THEN from
    ELSE FirstInBlock(from + LINE, s, n - 1)

RECURSIVE FirstLineOf(_, _, _)
FirstLineOf(from, s, n) ==
    IF n <= BLOCK THEN FirstInBlock(from, s, n)
    ELSE LET inBlock == FirstInBlock(from, s, BLOCK)
         IN IF inBlock # NoMatch THEN inBlock
            ELSE FirstLineOf(from + LINE * BLOCK, s, n - BLOCK)

\* Where the search for the next element starts.
SearchStart == IF region = <<>> THEN base ELSE region[Len(region)] + LINE

AbsInit ==
    /\ base \in Bases
    /\ target \in Targets
    /\ count \in 1..MaxKeys
    /\ region = <<>>

Accept ==
    /\ Len(region) < count
    /\ region' = Append(region, FirstLineOf(SearchStart, target, ScanLimit))
    /\ UNCHANGED <<base, target, count>>

AbsSpec == AbsInit /\ [][Accept]_absVars /\ WF_absVars(Accept)

=============================================================================

----------------------------- MODULE CacheIndex -----------------------------
(***************************************************************************)
(* The cache geometry of rte_slice.h and indexCalculator(addr, level),    *)
(* which gives the set a physical address falls in at cache level 1, 2 or *)
(* 3 (per slice), and exits the program for any other level.  The build   *)
(* chooses the geometry: SKYLAKE, or HASWELL otherwise; arch is fixed at  *)
(* the start.  A caller asks for indexes of addresses of Addrs at levels  *)
(* of Levels, one call after another.                                      *)
(*                                                                         *)
(* The index is checked against a reference defined from the other        *)
(* macros: the number of sets a level has (size / line / ways, or the     *)
(* stride the header gives for reaching the same set again).               *)
(***************************************************************************)
EXTENDS Naturals, Bitwise

CONSTANTS
    Addrs,      \* physical addresses asked about
    Levels      \* cacheLevel arguments, valid or not

Archs == {"SKYLAKE", "HASWELL"}

VARIABLES
    arch,       \* the build's geometry
    addr,       \* addr_in of the last call
    level,      \* cacheLevel of the last call
    index,      \* what the last call returned
    pc          \* "idle", "ret" after a call returned, "exited"

vars == <<arch, addr, level, index, pc>>

-----------------------------------------------------------------------------
(* Cache hierarchy characteristics                                         *)

LINE == 64
L1_SIZE == 32 * 1024
L1_WAYS == 8
L1_SETS == (L1_SIZE \div LINE) \div L1_WAYS

L2_SIZE(a) == IF a = "SKYLAKE" THEN 1024 * 1024 ELSE 256 * 1024
L2_WAYS(a) == IF a = "SKYLAKE" THEN 16 ELSE 8
L2_SETS(a) == (L2_SIZE(a) \div LINE) \div L2_WAYS(a)

\* Mutation: the L1 mask stops at bit 10, 0x7C0.
L1_INDEX_Narrow(a) == 1984

\* Set-index masks: 0x1FFC0, 0xFFC0 or 0x7FC0, 0xFC0.
L3_INDEX_PER_SLICE(a) == 131008
L2_INDEX(a) == IF a = "SKYLAKE" THEN 65472 ELSE 32704
L1_INDEX(a) == 4032

\* Mutation: the HASWELL L2 stride counts from bit 14 instead of bit 15.
L2_INDEX_STRIDE_Short(a) == IF a = "SKYLAKE" THEN 65536 ELSE 16384

\* Offsets that reach the same set again: 0x20000, 0x10000 or 0x8000.
L3_INDEX_STRIDE(a) == 131072
L2_INDEX_STRIDE(a) == IF a = "SKYLAKE" THEN 65536 ELSE 32768

Stride(a, l) == IF l = 2 THEN L2_INDEX_STRIDE(a) ELSE L3_INDEX_STRIDE(a)

-----------------------------------------------------------------------------

\* indexCalculator for a valid level: mask, then >> 6.
indexCalculator(a, in, l) ==
    LET mask == CASE l = 1 -> L1_INDEX(a)
                  [] l = 2 -> L2_INDEX(a)
                  [] l = 3 -> L3_INDEX_PER_SLICE(a)
    IN shiftR(in & mask, 6)

\* A call with cacheLevel 1, 2 or 3 returns the index.
Call ==
    /\ pc # "exited"
    /\ \E in \in Addrs, l \in Levels \cap 1..3 :
         /\ addr' = in
         /\ level' = l
         /\ index' = indexCalculator(arch, in, l)
    /\ pc' = "ret"
    /\ UNCHANGED arch

\* Any other cacheLevel: exit(EXIT_FAILURE), whatever the address.
CallBadLevel ==
    /\ pc # "exited"
    /\ \E l \in Levels \ 1..3 : level' = l
    /\ pc' = "exited"
    /\ UNCHANGED <<arch, addr, index>>

Init ==
    /\ arch \in Archs
    /\ addr = 0
    /\ level = 0
    /\ index = 0
    /\ pc = "idle"

Next == Call \/ CallBadLevel

Spec == Init /\ [][Next]_vars

-----------------------------------------------------------------------------
(* Properties                                                              *)

\* The sets a level has: L1_SETS, L2_SETS, and per LLC slice the sets
\* between two addresses L3_INDEX_STRIDE apart.
Sets(a, l) == CASE l = 1 -> L1_SETS
                [] l = 2 -> L2_SETS(a)
                [] l = 3 -> L3_INDEX_STRIDE(a) \div LINE

\* Every index indexCalculator returns is the reference set index: the
\* line number of the address modulo the sets of that level in the build's
\* geometry, so the masks agree with the sizes, ways and strides.
IndexMatchesGeometry ==
    pc = "ret" => index = (addr \div LINE) % Sets(arch, level)

\* Adding L2_INDEX_STRIDE or L3_INDEX_STRIDE to an address, which is what
\* the header offers them for, reaches the same set, and no smaller
\* multiple of a line does.
StrideKeepsIndex ==
    pc = "ret" /\ level \in {2, 3} =>
        /\ indexCalculator(arch, addr + Stride(arch, level), level) = index
        /\ \A d \in Addrs :
              0 < d /\ d < Stride(arch, level) /\ d % LINE = 0 =>
                  indexCalculator(arch, addr + d, level) # index

=============================================================================

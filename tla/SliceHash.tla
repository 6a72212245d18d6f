----------------------------- MODULE SliceHash -----------------------------
(***************************************************************************)
(* The closed-form LLC slice hash of Haswell (rte_slice.h).                *)
(*                                                                         *)
(* A slice number is three parity bits, Bit2.Bit1.Bit0, where Bitx is the  *)
(* parity of the physical address masked by hash_x.  The masks are 40-bit  *)
(* constants, wider than TLC's integers, so each is written as a pair      *)
(* <<high 16 bits, low 24 bits>> of its hexadecimal value.  Physical       *)
(* addresses in the models stay below 2^PA_BITS (PA_BITS <= 31); their     *)
(* bits above that are zero.                                               *)
(***************************************************************************)
EXTENDS Naturals, FiniteSets

LINE == 64             \* cache-line size; the slice mapping changes per line
bitNum == 3            \* number of hash functions / slice-number bits
PA_BITS == 31          \* addresses modelled are below 2^PA_BITS
MASK_BITS == 40        \* width of the hash masks

hash_0 == <<\h1B5F, \h575440>>     \* 0x1B5F575440
hash_1 == <<\h2EB5, \hFAA880>>     \* 0x2EB5FAA880
hash_2 == <<\h3CCC, \hC93100>>     \* 0x3CCCC93100

\* Bit b of a mask given as <<high, low>>.
MaskBit(m, b) ==
    IF b < 24 THEN (m[2] \div 2^b) % 2 ELSE (m[1] \div 2^(b - 24)) % 2

\* Bit b of a physical address below 2^PA_BITS.
AddrBit(pa, b) == IF b < PA_BITS THEN (pa \div 2^b) % 2 ELSE 0

\* The positions of the set bits of a mask that an address below
\* 2^PA_BITS can share (TLC evaluates these once).
MaskPositions(m) == {b \in 0..(PA_BITS - 1) : MaskBit(m, b) = 1}
hash_0_bits == MaskPositions(hash_0)
hash_1_bits == MaskPositions(hash_1)
hash_2_bits == MaskPositions(hash_2)

\* __builtin_parityll(pa & m), m given by its bit positions: the parity of
\* the number of bits pa and m share.
rte_xorall64(pa, mbits) ==
    Cardinality({b \in mbits : AddrBit(pa, b) = 1}) % 2

\* Mutation: Bit0 computed with hash_1 (a copy-paste slip in the masks).
calculateSlice_HF_haswell_dup(pa) ==
    4 * rte_xorall64(pa, hash_2_bits) + 2 * rte_xorall64(pa, hash_1_bits)
        + rte_xorall64(pa, hash_1_bits)

\* sliceNum is shifted left once per mask, hash_2 first: it ends as
\* 4 * Bit2 + 2 * Bit1 + Bit0.
calculateSlice_HF_haswell(pa) ==
    LET hashes == <<hash_2_bits, hash_1_bits, hash_0_bits>>
        RECURSIVE Shift(_, _)
        Shift(sliceNum, k) ==
            IF k > bitNum THEN sliceNum
            ELSE Shift(((sliceNum * 2) % 256) + rte_xorall64(pa, hashes[k]), k + 1)
    IN Shift(0, 1)

Slices == 0..(2^bitNum - 1)

=============================================================================

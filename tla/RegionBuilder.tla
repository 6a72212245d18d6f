--------------------------- MODULE RegionBuilder ---------------------------
(***************************************************************************)
(* create_array of examples/KVS/main.c, built with SLICE and HASWELL: the  *)
(* slice-aware allocation of the key/value array using the closed-form    *)
(* classifier sliceFinder_HF_haswell (rte_slice.h).                        *)
(*                                                                         *)
(* The backing block is rte_calloc(0, nb_keys*8, 64, 0): nb_keys*8 lines   *)
(* from the line-aligned address base (mem_iova).  The finder is a loop    *)
(* with a uint16_t byte offset; each of its iterations is one step.  When  *)
(* it returns, the loop body of create_array for element i runs as one     *)
(* step: it records the element, writes its value i*2 and, if more         *)
(* elements are wanted, calls the finder again from the next line.  Then  *)
(* the verification loop runs as one step.                                 *)
(*                                                                         *)
(* Virtual and IO addresses advance by the same offsets, so only the IO    *)
(* addresses (array_iova) are kept.                                        *)
(***************************************************************************)
EXTENDS Naturals, Sequences, TLC, SliceHash

CONSTANTS
    Bases,        \* possible line-aligned values of mem_iova
    Targets,      \* values of the slice argument
    MaxKeys       \* largest nb_keys

ASSUME \A b \in Bases : b \in Nat /\ b % LINE = 0
ASSUME Targets \subseteq Slices
ASSUME MaxKeys \in Nat \ {0}

VARIABLES
    base,         \* mem_iova, the IO address of the backing block
    slice,        \* the slice argument of create_array
    nb_keys,      \* the nb_keys argument
    i,            \* loop index of create_array
    pc,           \* "find" (inside sliceFinder), "verify", "done"
    fpa,          \* pa argument of the running sliceFinder_HF_haswell
    foff,         \* its uint16_t offset
    array_iova,   \* array_iova[1..i]: IO addresses of the elements found
    mem,          \* words written by create_array: address -> value
    errors        \* indices the verification loop reports "Wrong Slice"

vars == <<base, slice, nb_keys, i, pc, fpa, foff, array_iova, mem, errors>>

UINT16 == 2^16

\* Bytes of the backing block: nb_keys*8 elements of 64 bytes.
AllocBytes(n) == n * 8 * 64

-----------------------------------------------------------------------------
(* sliceFinder_HF_haswell(pa, desiredSlice)                                *)

\* The loop condition: the line at pa + offset is not in the desired slice.
FinderMisses == slice # calculateSlice_HF_haswell(fpa + foff)

\* offset += LINE, in 16 bits.
FinderAdvance ==
    /\ pc = "find"
    /\ FinderMisses
    /\ foff' = (foff + LINE) % UINT16
    /\ UNCHANGED <<base, slice, nb_keys, i, pc, fpa, array_iova, mem, errors>>

-----------------------------------------------------------------------------
(* create_array                                                            *)

\* The offset create_array adds to the previous element: the finder's
\* result for element 0, 64 plus the finder's result after it.
ElementOffset == IF i = 0 THEN foff ELSE LINE + foff

\* The address the offset is added to: mem_iova, then the previous element.
PrevAddress == IF i = 0 THEN base ELSE array_iova[i]

\* Mutation: the finder restarts at the previous element (the "+offset"
\* of sliceFinder_HF_haswell(array_iova[i-1]+offset, slice) dropped).
NextFinderArgNoStep(a) == a

\* Where the finder for the element after the one at a starts.
NextFinderArg(a) == a + LINE

\* Mutation: the loop bound tested with <= instead of <.
MoreElementsInclusive == i + 1 <= nb_keys

\* for (i = 0; i < nb_keys; i++): another element follows element i.
MoreElements == i + 1 < nb_keys

\* The finder returns; the loop body records element i, writes *value = i*2
\* and either calls the finder for element i+1 or leaves the loop.
AcceptElement ==
    /\ pc = "find"
    /\ ~FinderMisses
    /\ LET a == PrevAddress + ElementOffset
       IN /\ array_iova' = Append(array_iova, a)
          /\ mem' = (a :> i * 2) @@ mem
          /\ i' = i + 1
          /\ IF MoreElements
                THEN /\ fpa' = NextFinderArg(a)
                     /\ foff' = 0
                     /\ pc' = "find"
                ELSE /\ pc' = "verify"
                     /\ UNCHANGED <<fpa, foff>>
    /\ UNCHANGED <<base, slice, nb_keys, errors>>

\* The verification loop recomputes every element's slice.
Verify ==
    /\ pc = "verify"
    /\ errors' = {k \in 1..Len(array_iova) :
                    calculateSlice_HF_haswell(array_iova[k]) # slice}
    /\ pc' = "done"
    /\ UNCHANGED <<base, slice, nb_keys, i, fpa, foff, array_iova, mem>>

\* Allocation, then offset = sliceFinder_HF_haswell(mem_iova, slice).
Init ==
    /\ base \in Bases
    /\ slice \in Targets
    /\ nb_keys \in 1..MaxKeys
    /\ i = 0
    /\ pc = "find"
    /\ fpa = base
    /\ foff = 0
    /\ array_iova = <<>>
    /\ mem = <<>>
    /\ errors = {}

Next == FinderAdvance \/ AcceptElement \/ Verify

\* One thread runs create_array to completion.
Spec == Init /\ [][Next]_vars /\ WF_vars(Next)

-----------------------------------------------------------------------------
(* Properties                                                              *)

TypeOK ==
    /\ base \in Bases
    /\ slice \in Targets
    /\ nb_keys \in 1..MaxKeys
    /\ i \in 0..nb_keys
    /\ pc \in {"find", "verify", "done"}
    /\ foff \in 0..(UINT16 - 1)
    /\ array_iova \in Seq(Nat)
    /\ Len(array_iova) = i
    /\ errors \subseteq 1..i

\* The finder loop finds a line of the target slice before its 16-bit
\* offset could wrap: sliceFinder_HF_haswell never looks further than 15
\* lines past its argument, because every aligned group of eight lines
\* holds each slice once.
ScanBounded == pc = "find" => foff <= 15 * LINE

\* create_array implements the region builder's promise: array_iova is,
\* step by step, the first nb_keys lines of the target slice from mem_iova,
\* in order, none skipped, and every run of create_array completes it.
\* The reference search looks 64 lines ahead, four times what any search
\* of the finder takes when ScanBounded holds.
Abstract == INSTANCE SliceRegion
    WITH target <- slice, count <- nb_keys, region <- array_iova,
         ScanLimit <- 64
BuilderRefinesRegion == Abstract!AbsSpec

\* Every word create_array writes lies inside the block rte_calloc gave it
\* (spec.md 7(d): running past the backing allocation must never happen).
WithinAllocation ==
    \A a \in DOMAIN mem : base <= a /\ a + 8 <= base + AllocBytes(nb_keys)

=============================================================================

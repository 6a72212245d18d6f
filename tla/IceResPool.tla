----------------------------- MODULE IceResPool -----------------------------
(***************************************************************************)
(* The resource pool of the ice PMD (ice_ethdev.c): ice_res_pool_init,    *)
(* ice_res_pool_alloc and ice_res_pool_destroy on one pool, the PF's      *)
(* msix_pool.  A pool has a base, counts num_free and num_alloc, and two   *)
(* lists of entries {base, len} relative to the pool's base: the free     *)
(* list and the alloc list.  LIST_INSERT_HEAD puts an entry first.  The   *)
(* file has no function that returns an entry to the free list.           *)
(*                                                                         *)
(* Each call is one step (the driver calls them from one thread) and its *)
(* result is kept in ret.  rte_zmalloc may fail.  Before the first        *)
(* ice_res_pool_init the pool is the zeroed one of the PF's private data. *)
(***************************************************************************)
EXTENDS Naturals, Sequences, SequencesExt

CONSTANTS
    Bases,      \* base arguments of ice_res_pool_init
    Sizes,      \* num arguments of ice_res_pool_init
    Requests,   \* num arguments of ice_res_pool_alloc
    EINVAL, ENOMEM

VARIABLES
    pbase,      \* pool->base
    num_free,   \* pool->num_free
    num_alloc,  \* pool->num_alloc
    free_list,  \* pool->free_list, first entry first
    alloc_list, \* pool->alloc_list, first entry first
    ret         \* the result of the last call

vars == <<pbase, num_free, num_alloc, free_list, alloc_list, ret>>

Entry == [base : Nat, len : Nat]

Zeroed ==
    /\ pbase = 0 /\ num_free = 0 /\ num_alloc = 0
    /\ free_list = <<>> /\ alloc_list = <<>>

\* A failed call: nothing changes but the result.
Fails(err) == ret' = err /\ UNCHANGED <<pbase, num_free, num_alloc, free_list, alloc_list>>

-----------------------------------------------------------------------------

\* ice_res_pool_init: a single free entry {0, num}.  The driver calls it on
\* a zeroed pool (probe) or after ice_res_pool_destroy.
ice_res_pool_init(base, num) ==
    /\ Zeroed
    /\ \/ num = 0 /\ Fails(EINVAL)
       \/ num > 0 /\ Fails(ENOMEM)                      \* rte_zmalloc fails
       \/ /\ num > 0
          /\ pbase' = base
          /\ num_free' = num
          /\ num_alloc' = 0
          /\ free_list' = <<[base |-> 0, len |-> num]>>
          /\ alloc_list' = <<>>
          /\ ret' = 0

\* Mutation: an entry fits only when it is strictly larger.
FitsStrict(e, num) == e.len > num

\* entry->len >= num
Fits(e, num) == e.len >= num

\* The best-fit loop: the first entry of exactly num, else the first of the
\* smallest entries that fit; 0 when none fits.
BestFit(num) ==
    LET fit == {k \in 1..Len(free_list) : Fits(free_list[k], num)}
        exact == {k \in fit : free_list[k].len = num}
        smallest == {k \in fit : \A m \in fit : free_list[k].len <= free_list[m].len}
    IN CASE exact # {}    -> Min(exact)
         [] smallest # {} -> Min(smallest)
         [] OTHER         -> 0

\* Mutation: the part left in the free list keeps the old base.
SplitRestSameBase(e, num) == [base |-> e.base, len |-> e.len - num]

\* Mutation: an exact fit is split like a larger entry.
IsExactNever(e, num) == FALSE

\* valid_entry->len == num: the entry itself moves to the alloc list.
IsExact(e, num) == e.len = num

\* valid_entry->base += num; valid_entry->len -= num.
SplitRest(e, num) == [base |-> e.base + num, len |-> e.len - num]

\* The whole of ice_res_pool_alloc(pool, num).
ice_res_pool_alloc(num) ==
    LET k == BestFit(num)
        e == free_list[k]
        grant(g) ==
            /\ alloc_list' = <<g>> \o alloc_list
            /\ num_free' = num_free - g.len
            /\ num_alloc' = num_alloc + g.len
            /\ ret' = g.base + pbase
            /\ UNCHANGED pbase
        found == num_free >= num /\ k # 0
    IN \/ num = 0 /\ Fails(EINVAL)
       \/ num > 0 /\ ~found /\ Fails(ENOMEM)   \* num_free < num, or no entry fits
       \/ /\ num > 0 /\ found
          /\ IsExact(e, num)
          /\ free_list' = RemoveAt(free_list, k)         \* LIST_REMOVE
          /\ grant(e)
       \/ /\ num > 0 /\ found
          /\ ~IsExact(e, num)
          /\ Fails(ENOMEM)                               \* rte_zmalloc fails
       \/ /\ num > 0 /\ found
          /\ ~IsExact(e, num)
          /\ free_list' = [free_list EXCEPT ![k] = SplitRest(e, num)]
          /\ grant([base |-> e.base, len |-> num])

\* ice_res_pool_destroy frees every entry and zeroes the pool.
ice_res_pool_destroy ==
    /\ pbase' = 0 /\ num_free' = 0 /\ num_alloc' = 0
    /\ free_list' = <<>> /\ alloc_list' = <<>>
    /\ UNCHANGED ret

Init == Zeroed /\ ret = 0

Next ==
    \/ \E base \in Bases, num \in Sizes : ice_res_pool_init(base, num)
    \/ \E num \in Requests : ice_res_pool_alloc(num)
    \/ ice_res_pool_destroy

Spec == Init /\ [][Next]_vars

-----------------------------------------------------------------------------
(* Properties                                                              *)

TypeOK ==
    /\ {num_free, num_alloc, pbase} \subseteq Nat
    /\ free_list \in Seq(Entry)
    /\ alloc_list \in Seq(Entry)
    /\ \A k \in 1..Len(free_list) : free_list[k].len > 0

\* The indices an entry stands for, in the numbering the callers see.
Indices(e) == (pbase + e.base)..(pbase + e.base + e.len - 1)

\* The pool implements the abstract pool: every grant is a run of free
\* indices of the pool, none granted twice, and every refusal of a valid
\* request is one the abstract pool allows.
Abstract == INSTANCE AbsResPool WITH
    slots <- IF free_list = <<>> /\ alloc_list = <<>> /\ num_free = 0
             THEN {}
             ELSE UNION {Indices(e) : e \in ToSet(free_list) \cup ToSet(alloc_list)},
    used <- UNION {Indices(e) : e \in ToSet(alloc_list)}
PoolRefinesAbstract == Abstract!AbsSpec

\* Best fit never refuses a request the free count covers: whenever
\* num_free >= num, some free entry is long enough, so a valid request is
\* refused only when rte_zmalloc fails.  This needs the free list to stay
\* in one piece, which holds because nothing returns entries to it.
NoFalseExhaustion ==
    \A num \in Requests : 0 < num /\ num <= num_free => BestFit(num) # 0

=============================================================================

----------------------------- MODULE AbsResPool -----------------------------
(***************************************************************************)
(* What a resource pool of the ice driver promises its callers: a pool is *)
(* a range of indices; a request for n of them is either refused or       *)
(* granted n consecutive indices of the pool that no earlier grant holds, *)
(* and it returns the first of them.  Destroying the pool forgets it.     *)
(* A refusal may happen at any time (the driver's own memory may run     *)
(* out), but a request for 0 indices is always refused as invalid.        *)
(***************************************************************************)
EXTENDS Naturals

CONSTANTS Bases, Sizes, Requests, EINVAL, ENOMEM

VARIABLES
    slots,      \* the indices of the pool
    used,       \* the indices granted
    ret         \* the result of the last call

avars == <<slots, used, ret>>

\* n consecutive indices from b.
Run(b, n) == b..(b + n - 1)

Create(base, num) ==
    /\ slots = {}
    /\ \/ /\ num > 0
          /\ slots' = Run(base, num)
          /\ ret' = 0
       \/ /\ ret' \in IF num = 0 THEN {EINVAL} ELSE {ENOMEM}
          /\ UNCHANGED slots
    /\ UNCHANGED used

Grant(num) ==
    /\ num > 0
    /\ \E b \in slots :
         /\ Run(b, num) \subseteq slots \ used
         /\ used' = used \cup Run(b, num)
         /\ ret' = b
    /\ UNCHANGED slots

Refuse(num) ==
    /\ ret' \in IF num = 0 THEN {EINVAL} ELSE {ENOMEM}
    /\ UNCHANGED <<slots, used>>

Forget ==
    /\ slots' = {}
    /\ used' = {}
    /\ UNCHANGED ret

AbsInit == slots = {} /\ used = {} /\ ret = 0

AbsNext ==
    \/ \E base \in Bases, num \in Sizes : Create(base, num)
    \/ \E num \in Requests : Grant(num) \/ Refuse(num)
    \/ Forget

AbsSpec == AbsInit /\ [][AbsNext]_avars

=============================================================================

------------------------- MODULE MeasureClassifier -------------------------
(***************************************************************************)
(* calculateSlice_uncore (rte_slice.c) and the register-level code it      *)
(* calls in rte_msr.c: uncore_init programs the per-slice CBo/CHA          *)
(* performance counters through wrmsr_on_cpu_0, polling flushes the        *)
(* address NUMBER_POLLING times, and find_CHA_CBO reads every counter      *)
(* through rdmsr_on_cpu_0 and returns the index of the largest.           *)
(*                                                                         *)
(* Every register access is one step.  The uncore registers are hardware  *)
(* state: they outlive the process.  Other cores' LLC lookups reach the   *)
(* counters at any time (Background), a failed open/pread/pwrite exits    *)
(* the process (MsrFailure), and the program may be started again         *)
(* (Restart) against the registers the last run left behind.  A lookup   *)
(* is counted at slice s when counting is globally enabled and s's event  *)
(* select and filter hold the programmed values.                          *)
(***************************************************************************)
EXTENDS Naturals, FiniteSets

CONSTANTS
    NUMBER_SLICES,    \* slices (CBo/CHA boxes) programmed and read
    NUMBER_POLLING,   \* clflush repetitions per measurement
    Addrs,            \* addresses classified (model values)
    Owner,            \* Owner[a]: the slice that really holds line a
    MaxNoise,         \* background lookups counted per session, at most
    MaxCalls,         \* classifications, at most
    MaxRuns,          \* process starts, at most
    None              \* no classification result yet

Slice == 0..(NUMBER_SLICES - 1)

ASSUME NUMBER_SLICES \in Nat \ {0}
ASSUME NUMBER_POLLING \in Nat \ {0}
ASSUME Owner \in [Addrs -> Slice]
ASSUME {MaxNoise, MaxCalls, MaxRuns} \subseteq Nat

VARIABLES
    global,     \* PMON_GLOBAL_CTL: "DISABLE_COUNT" or "ENABLE_COUNT"
    event,      \* event[s]: CHA_CBO_EVENT_ADDRESS[s] holds SELECTED_EVENT?
    filter,     \* filter[s]: CHA_CBO_FILTER_ADDRESS[s] holds FILTER_BOX_VALUE?
    counter,    \* counter[s]: CHA_CBO_COUNTER_ADDRESS[s]
    pc,         \* step of calculateSlice_uncore the process is at
    j,          \* loop index of the current per-slice loop or of polling
    va,         \* the address being classified
    vals,       \* CHA_CBO_value[0..j-1] read so far
    bg,         \* background lookups counted since this session's reset
    last,       \* the last classification: address, counters read, result
    calls,      \* classifications started
    runs        \* process starts

vars == <<global, event, filter, counter, pc, j, va, vals, bg, last, calls, runs>>

\* Steps that read or write a model-specific register.
MsrSteps == {"disable", "event", "reset", "filter", "enable", "read"}

CountingAt(s) == global = "ENABLE_COUNT" /\ event[s] /\ filter[s]

\* A counter value one lookup at line owner adds, per slice.
Count(owner) ==
    [s \in Slice |-> IF s = owner /\ CountingAt(s) THEN counter[s] + 1 ELSE counter[s]]

-----------------------------------------------------------------------------
(* uncore_init                                                             *)

\* calculateSlice_uncore(va) is called.
Classify ==
    /\ pc = "idle"
    /\ calls < MaxCalls
    /\ \E a \in Addrs : va' = a
    /\ calls' = calls + 1
    /\ pc' = "disable"
    /\ UNCHANGED <<global, event, filter, counter, j, vals, bg, last, runs>>

\* wrmsr_on_cpu_0(PMON_GLOBAL_CTL_ADDRESS, 1, {DISABLE_COUNT})
WriteDisable ==
    /\ pc = "disable"
    /\ global' = "DISABLE_COUNT"
    /\ j' = 0
    /\ pc' = "event"
    /\ UNCHANGED <<event, filter, counter, va, vals, bg, last, calls, runs>>

\* Mutation: the per-slice loops run to i <= NUMBER_SLICES.
LoopContinuesInclusive == j + 1 <= NUMBER_SLICES

\* `for (i = 0; i < NUMBER_SLICES; i++)` goes on after index j.
LoopContinues == j + 1 < NUMBER_SLICES

\* The next step of a per-slice loop.
LoopStep(here, after) ==
    IF LoopContinues THEN /\ j' = j + 1 /\ pc' = here
                             ELSE /\ j' = 0     /\ pc' = after

\* wrmsr_on_cpu_0(CHA_CBO_EVENT_ADDRESS[i], 1, {SELECTED_EVENT})
WriteEvent ==
    /\ pc = "event"
    /\ event' = [event EXCEPT ![j] = TRUE]
    /\ LoopStep("event", "reset")
    /\ UNCHANGED <<global, filter, counter, va, vals, bg, last, calls, runs>>

\* Mutation: the box-control write leaves the counter as it is.
ResetKeeps(c) == c

\* RESET_COUNTERS written to a box control clears its counter.
ResetValue(c) == 0

\* wrmsr_on_cpu_0(CHA_CBO_CTL_ADDRESS[i], 1, {RESET_COUNTERS})
WriteReset ==
    /\ pc = "reset"
    /\ counter' = [counter EXCEPT ![j] = ResetValue(@)]
    /\ bg' = 0
    /\ LoopStep("reset", "filter")
    /\ UNCHANGED <<global, event, filter, va, vals, last, calls, runs>>

\* wrmsr_on_cpu_0(CHA_CBO_FILTER_ADDRESS[i], 1, {FILTER_BOX_VALUE})
WriteFilter ==
    /\ pc = "filter"
    /\ filter' = [filter EXCEPT ![j] = TRUE]
    /\ LoopStep("filter", "enable")
    /\ UNCHANGED <<global, event, counter, va, vals, bg, last, calls, runs>>

\* wrmsr_on_cpu_0(PMON_GLOBAL_CTL_ADDRESS, 1, {ENABLE_COUNT})
WriteEnable ==
    /\ pc = "enable"
    /\ global' = "ENABLE_COUNT"
    /\ j' = 0
    /\ pc' = "poll"
    /\ UNCHANGED <<event, filter, counter, va, vals, bg, last, calls, runs>>

-----------------------------------------------------------------------------
(* polling                                                                 *)

\* for (i = 0; i < NUMBER_POLLING; i++)
PollsLeft == j < NUMBER_POLLING

\* _mm_clflush(address): one LLC lookup at the line's slice.
Flush ==
    /\ pc = "poll"
    /\ PollsLeft
    /\ counter' = Count(Owner[va])
    /\ j' = j + 1
    /\ UNCHANGED <<global, event, filter, pc, va, vals, bg, last, calls, runs>>

PollDone ==
    /\ pc = "poll"
    /\ ~PollsLeft
    /\ j' = 0
    /\ vals' = <<>>
    /\ pc' = "read"
    /\ UNCHANGED <<global, event, filter, counter, va, bg, last, calls, runs>>

-----------------------------------------------------------------------------
(* find_CHA_CBO                                                            *)

\* CHA_CBO_value[i] = rdmsr_on_cpu_0(CHA_CBO_COUNTER_ADDRESS[i])
ReadCounter ==
    /\ pc = "read"
    /\ vals' = [s \in 0..j |-> IF s = j THEN counter[j] ELSE vals[s]]
    /\ LoopStep("read", "argmax")
    /\ UNCHANGED <<global, event, filter, counter, va, bg, last, calls, runs>>

\* The maximum loop: the first index whose value exceeds every value
\* before it and the running maximum, which starts at 0.
RECURSIVE MaxIndex(_, _, _, _)
MaxIndex(v, i, max_value, max_index) ==
    IF i >= NUMBER_SLICES THEN max_index
    ELSE IF v[i] > max_value THEN MaxIndex(v, i + 1, v[i], i)
    ELSE MaxIndex(v, i + 1, max_value, max_index)

find_CHA_CBO(v) == MaxIndex(v, 0, 0, 0)

ReturnSlice ==
    /\ pc = "argmax"
    /\ last' = [va |-> va, vals |-> vals, bg |-> bg, result |-> find_CHA_CBO(vals)]
    /\ pc' = "idle"
    /\ UNCHANGED <<global, event, filter, counter, j, va, vals, bg, calls, runs>>

-----------------------------------------------------------------------------
(* Environment                                                             *)

\* Another core's LLC lookup at slice s, counted if s is counting.
Background ==
    /\ pc # "exited"
    /\ bg < MaxNoise
    /\ \E s \in Slice :
         /\ CountingAt(s)
         /\ counter' = [counter EXCEPT ![s] = @ + 1]
    /\ bg' = bg + 1
    /\ UNCHANGED <<global, event, filter, pc, j, va, vals, last, calls, runs>>

\* open, pread or pwrite on /dev/cpu/0/msr fails: exit(2), exit(3),
\* exit(4) or exit(127).
MsrFailure ==
    /\ pc \in MsrSteps
    /\ pc' = "exited"
    /\ UNCHANGED <<global, event, filter, counter, j, va, vals, bg, last, calls, runs>>

\* The program is started again; the registers keep their values.
Restart ==
    /\ pc = "exited"
    /\ runs < MaxRuns
    /\ runs' = runs + 1
    /\ pc' = "idle"
    /\ UNCHANGED <<global, event, filter, counter, j, va, vals, bg, last, calls>>

-----------------------------------------------------------------------------

\* The registers hold whatever an earlier user of the uncore left there.
Init ==
    /\ global \in {"DISABLE_COUNT", "ENABLE_COUNT"}
    /\ event \in [Slice -> BOOLEAN]
    /\ filter \in [Slice -> BOOLEAN]
    /\ counter \in [Slice -> 0..NUMBER_POLLING]
    /\ pc = "idle"
    /\ j = 0
    /\ va \in Addrs
    /\ vals = <<>>
    /\ bg = 0
    /\ last = None
    /\ calls = 0
    /\ runs = 1

Next ==
    \/ Classify \/ WriteDisable \/ WriteEvent \/ WriteReset \/ WriteFilter
    \/ WriteEnable \/ Flush \/ PollDone \/ ReadCounter \/ ReturnSlice
    \/ Background \/ MsrFailure \/ Restart

Spec == Init /\ [][Next]_vars

-----------------------------------------------------------------------------
(* Properties                                                              *)

TypeOK ==
    /\ global \in {"DISABLE_COUNT", "ENABLE_COUNT"}
    /\ event \in [Slice -> BOOLEAN]
    /\ filter \in [Slice -> BOOLEAN]
    /\ counter \in [Slice -> Nat]
    /\ pc \in MsrSteps \cup {"idle", "poll", "argmax", "exited"}
    /\ pc \in {"event", "reset", "filter", "read"} => j \in Slice
    /\ bg \in 0..MaxNoise

\* Without contention the measurement is right: when fewer lookups from
\* other cores were counted in the session than the flushes of polling,
\* find_CHA_CBO returns the slice that owns the address -- whatever the
\* registers held before uncore_init, including what a run that exited
\* half-way through uncore_init left behind.
CorrectWithoutContention ==
    last # None /\ last.bg < NUMBER_POLLING => last.result = Owner[last.va]

\* A classification reports a slice only when that slice's counter is a
\* strict maximum (spec.md 7(c): an ambiguous measurement is an error).
UniqueMaximum ==
    last # None =>
        \A s \in Slice \ {last.result} : last.vals[s] < last.vals[last.result]

=============================================================================

---------------------------- MODULE UncoreRegion ----------------------------
(***************************************************************************)
(* create_array of examples/KVS/main.c built with SLICE but not HASWELL:   *)
(* the region builder driven by the measurement classifier.  Each         *)
(* iteration of sliceFinder_uncore (rte_slice.c) calls                    *)
(* calculateSlice_uncore on the line va+offset, and that call is the      *)
(* register-level process of MeasureClassifier, instantiated here over    *)
(* the same variables: the finder starts a classification (Classify) and  *)
(* consumes its result in the step that returns it (ReturnSlice).  Other  *)
(* cores' lookups, MSR failures and restarts are MeasureClassifier's.     *)
(*                                                                         *)
(* Lines are numbered from the start of the block rte_calloc returned,    *)
(* which holds nb_keys*8 lines; Owner gives each line's real slice.  The  *)
(* uncore path has no verification loop (that loop is under HASWELL).    *)
(***************************************************************************)
EXTENDS Naturals, Sequences, TLC

CONSTANTS
    NUMBER_SLICES, NUMBER_POLLING, Owner, MaxNoise, MaxCalls, MaxRuns, None,
    NB_KEYS,      \* nb_keys argument of create_array
    Target        \* slice argument of create_array

\* The lines of the backing block: rte_calloc(0, nb_keys*8, 64, 0).
Lines == 0..(NB_KEYS * 8 - 1)

ASSUME NB_KEYS \in Nat \ {0}
ASSUME Target \in 0..(NUMBER_SLICES - 1)

VARIABLES
    global, event, filter, counter, pc, j, va, vals, bg, last, calls, runs,
    rpc,          \* "find" (in sliceFinder_uncore), "done", "overrun"
    i,            \* loop index of create_array
    fstart,       \* va argument of the running sliceFinder_uncore, in lines
    foff,         \* its uint16_t offset, in lines
    array,        \* array[1..i]: the lines of the elements found
    mem           \* words written by create_array: line -> value

cvars == <<global, event, filter, counter, pc, j, va, vals, bg, last, calls, runs>>
rvars == <<rpc, i, fstart, foff, array, mem>>
vars == <<cvars, rvars>>

C == INSTANCE MeasureClassifier WITH Addrs <- Lines

\* offset += LINE wraps a uint16_t byte offset after 2^16 / 64 lines.
OFFSET_WRAP == 2^16 \div 64

\* The line sliceFinder_uncore is classifying: va + offset.
Candidate == fstart + foff

-----------------------------------------------------------------------------
(* sliceFinder_uncore                                                      *)

\* The loop test calls calculateSlice_uncore((void*)(va + offset)).
FinderMeasure ==
    /\ rpc = "find"
    /\ C!Classify
    /\ va' = Candidate
    /\ UNCHANGED rvars

\* Mutation: create_array drops the 64 it adds before the finder's result.
ElementOffsetNoLine(off) == off

\* offset = 64; offset += sliceFinder_uncore(...), in lines.
ElementOffset(off) == 1 + off

\* The address element i is recorded at: mem_virtual + offset for the
\* first, array[i-1] + offset for the others.
ElementLine == IF i = 0 THEN fstart + foff ELSE array[i] + ElementOffset(foff)

\* Mutation: the finder's offset is never advanced.
NextOffsetStuck(off) == off

\* offset += LINE, in 16 bits.
NextOffset(off) == (off + 1) % OFFSET_WRAP

\* calculateSlice_uncore returns.  A result other than desiredSlice makes
\* the finder try the next line; a line past the block is "overrun" (the
\* code goes on measuring memory it does not own).  The desired slice
\* ends the finder, and create_array records element i, writes i*2 into
\* it and either calls the finder from the next line or returns.
FinderResult ==
    /\ rpc = "find"
    /\ C!ReturnSlice
    /\ IF C!find_CHA_CBO(vals) # Target
          THEN LET off == NextOffset(foff)
               IN /\ foff' = off
                  /\ rpc' = IF fstart + off \in Lines THEN "find" ELSE "overrun"
                  /\ UNCHANGED <<i, fstart, array, mem>>
          ELSE LET a == ElementLine
               IN /\ array' = Append(array, a)
                  /\ mem' = (a :> i * 2) @@ mem
                  /\ i' = i + 1
                  /\ foff' = 0
                  /\ fstart' = a + 1
                  /\ rpc' = CASE i + 1 = NB_KEYS -> "done"
                              [] a + 1 \in Lines -> "find"
                              [] OTHER            -> "overrun"

\* A step of calculateSlice_uncore between its call and its return.
ClassifierStep ==
    /\ \/ C!WriteDisable \/ C!WriteEvent \/ C!WriteReset \/ C!WriteFilter
       \/ C!WriteEnable \/ C!Flush \/ C!PollDone \/ C!ReadCounter
    /\ UNCHANGED rvars

\* Another core's lookup, or an MSR failure that exits the program.
Environment ==
    /\ C!Background \/ C!MsrFailure
    /\ UNCHANGED rvars

\* The program is started again: create_array begins anew on a new block
\* (modelled at the same lines); the registers keep their values.
RestartProgram ==
    /\ C!Restart
    /\ rpc' = "find"
    /\ i' = 0
    /\ fstart' = 0
    /\ foff' = 0
    /\ array' = <<>>
    /\ mem' = <<>>

\* offset = sliceFinder_uncore(mem_virtual, slice).
Init ==
    /\ C!Init
    /\ rpc = "find"
    /\ i = 0
    /\ fstart = 0
    /\ foff = 0
    /\ array = <<>>
    /\ mem = <<>>

\* The steps of the one thread that runs create_array.
ProcessStep == FinderMeasure \/ FinderResult \/ ClassifierStep

Next == ProcessStep \/ Environment \/ RestartProgram

\* The process is never descheduled for good; other cores, the MSR device
\* and the operator who restarts the program owe it nothing.
Spec == Init /\ [][Next]_vars /\ WF_vars(ProcessStep)

-----------------------------------------------------------------------------
(* Properties                                                              *)

TypeOK ==
    /\ C!TypeOK
    /\ rpc \in {"find", "done", "overrun"}
    /\ i \in 0..NB_KEYS
    /\ array \in Seq(Lines)
    /\ Len(array) = i
    /\ foff \in 0..(OFFSET_WRAP - 1)

\* Every element create_array records lies in the target slice -- the
\* region's whole purpose (spec.md 1) -- although the uncore path never
\* re-checks an element and the registers may start in any state.
RegionInSlice == \A k \in DOMAIN array : Owner[array[k]] = Target

\* The classifier's contract holds inside the finder's loop: a measurement
\* of the line va+offset with fewer lookups from other cores than flushes
\* names the slice that owns the line, whatever state the earlier
\* measurements of the loop and an exited run left in the registers.
CorrectWithoutContention == C!CorrectWithoutContention

\* Every run of create_array ends: it returns, or the program exits on an
\* MSR failure.  The retry loop of sliceFinder_uncore does not spin.
CreateArrayTerminates == rpc = "find" ~> (rpc = "done" \/ pc = "exited")

=============================================================================

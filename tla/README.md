# TLA+ models of CacheDirector

These modules model the slice-aware memory allocator of CacheDirector and the programs around it:

- the Haswell last-level-cache slice hash;
- the measurement-based slice classifier, which programs uncore counters through MSRs;
- the slice-homogeneous region builder, `create_array`;
- the key/value request loop of `examples/KVS`;
- the set-index calculator and cache geometry of `rte_slice.h`;
- the life cycle of the `ice` poll-mode driver and its MSI-X resource pool.

Every definition is translated from the C source. `PROJECT.json` maps each definition to the lines it models.

## The system

| Part | Source | What it does |
|---|---|---|
| Closed-form classifier | `lib/librte_slice/rte_slice.h` | `calculateSlice_HF_haswell(pa)` returns three parity bits of `pa & hash_2`, `pa & hash_1` and `pa & hash_0`. `sliceFinder_HF_haswell(pa, s)` steps a `uint16_t` offset by one line until the line's slice is `s`. |
| Register access | `lib/librte_msr/rte_msr.c` | `rdmsr_on_cpu_0` and `wrmsr_on_cpu_0` use lazily opened, static descriptors on `/dev/cpu/0/msr`. Every failure calls `exit`. |
| Measurement classifier | `rte_msr.c`, `lib/librte_slice/rte_slice.c` | `calculateSlice_uncore(va)` first runs `uncore_init`: disable counting, program every slice's event select, reset every counter, program every filter, enable counting. Then `polling` flushes `va` 750 times. Finally `find_CHA_CBO` reads every counter and returns the index of the first maximum. |
| Region builder | `examples/KVS/main.c` `create_array` | Allocates `nb_keys*8` lines. Uses the finder to pick `nb_keys` lines of one slice, writes `i*2` into element `i`, and, on Haswell, re-verifies every element. |
| Key/value loop | `main.c` `lcore_main` | Receives a burst and reads a key from each packet. A READ copies `array[key]` into the packet (after `htobe64` in place); a WRITE stores the key. Then it transmits the burst and frees what was not sent, or, built with `TX_LOOP`, retries the rest until the NIC has taken it all. It exits on SIGINT/SIGTERM. |
| ice driver | `drivers/net/ice/ice_ethdev.c` | Probe, configure, start, stop, close, reset and remove of a PF port. Covers the MSI-X resource pool, the main VSI and the interrupt handler on the EAL interrupt thread. |
| Set index | `rte_slice.h` `indexCalculator` and the cache geometry macros | A pure mask-and-shift function giving an address's set at L1, L2 or L3 (per slice), with masks, strides, sizes and ways for SKYLAKE and HASWELL. The program never calls it. |

How the parts interact:
- The region builder calls a classifier once per candidate line:
  - the hash when built with `HASWELL`;
  - the measurement classifier otherwise.
- The key/value loop reads and writes the region.
- The driver delivers the packet buffers.
- The measurement classifier shares the uncore counters with every other core, and these registers outlive the process.

## Modules

| Module | Models | State and steps |
|---|---|---|
| `SliceHash` | `rte_slice.h` hash | Operators only. The 40-bit masks are written as `<<high16, low24>>` because TLC integers are 32-bit; modelled addresses stay below 2^31. `calculateSlice_HF_haswell` shifts `sliceNum` once per mask, as the C does. |
| `SliceRegion` | abstract region builder (spec 4.4) | `region` grows by one element per step. Each element is the first line of the target slice at or after the line following the previous element, computed by a reference search. |
| `RegionBuilder` | `create_array` + `sliceFinder_HF_haswell` | Variables: `base`, `slice`, `nb_keys`, `i`, the finder's `fpa`/`foff` (offset kept modulo 2^16), `array_iova`, written words `mem`, verification `errors`. Each finder iteration is one step (`FinderAdvance`). The loop body of `create_array` is one step (`AcceptElement`), and so is the verification loop (`Verify`). It refines `SliceRegion` through `INSTANCE ... WITH target <- slice, count <- nb_keys, region <- array_iova`. |
| `KVS` | `lcore_main` on one port | Variables: `store`, `mstate[m]` (free / rx / tx), per-mbuf packet `pkt`, `bufs`, `i`, `read_counter`, `force_quit`. A 64-bit word is `<<x, swapped>>`, and `htobe64` flips `swapped`. Steps: `RxBurst`/`RxEmpty`, `ProcessPacket` (one loop iteration), `TxBurst` (the NIC takes a prefix that fits its `TX_RING`-slot ring, at least one packet when a slot is free; the rest is freed, or left in `left` when `tx_loop`), `TxRetry` (one iteration of the `TX_LOOP` do-while), `TxDone` (the NIC returns an mbuf), `signal_handler`, `Quit`. `tx_loop`, the build flag, is chosen in `Init`, so one run checks both builds. As shipped, `#define TX_LOOP` is commented out (`main.c:29`), so the unsent mbufs are freed. Before the loop, `SetupDone` (the mempool, `port_init` and `create_array` succeeding, which fills `store`) or `SetupFails` (any of them exiting) leaves `pc = "setup"`. |
| `MeasureClassifier` | `calculateSlice_uncore`, `uncore_init`, `polling`, `find_CHA_CBO`, MSR failures | Registers: `global`, `event[s]`, `filter[s]`, `counter[s]`. The process keeps `pc`, loop index `j`, read values `vals`, and `last` (the last result). Every register access and every flush is a step. Environment steps: `Background` (another core's lookup, counted when the slice is enabled), `MsrFailure` (exit at any register access) and `Restart` (registers kept). `Init` lets the registers hold anything. |
| `UncoreRegion` | `sliceFinder_uncore` + `create_array` without `HASWELL` | Composes the region builder with `MeasureClassifier`, which it instantiates over the same register and process variables. The finder adds `rpc`, `i`, `fstart`/`foff` (the finder's argument and its 16-bit offset, in lines), `array` and `mem`. `FinderMeasure` is `Classify` on the candidate line. `FinderResult` is `ReturnSlice` together with the finder's test: try the next line, or record element `i`. Every register step in between is `ClassifierStep`. `RestartProgram` is `Restart`, with `create_array` beginning again. A line past the block is the state `overrun`. |
| `CacheIndex` | `indexCalculator` and the geometry of `rte_slice.h` | Operators for every mask, stride, size and way of both geometries. `arch` is chosen in `Init` (the `#ifdef SKYLAKE`). `Call` is a call with level 1, 2 or 3 that records `addr`, `level` and the returned `index`; `CallBadLevel` is `exit(EXIT_FAILURE)`. |
| `IceResPool` | `ice_res_pool_init`/`_alloc`/`_destroy` | `pbase`, `num_free`, `num_alloc`, and the free and alloc lists as sequences of `{base, len}` in list order. One step per call, including the `rte_zmalloc` failures. `BestFit` is the search loop. The exact-fit and split branches are disjuncts of `ice_res_pool_alloc`. |
| `AbsResPool` | what the pool promises | The pool's index set `slots`, the granted `used`, and `ret`. A request is either refused, or granted a run of free indices and returns its first. |
| `IceDriver` | `ice_ethdev.c` life cycle | Variables: `app` (application thread), `started`/`adapter_stopped`, started queues, `ctrlq`, `port_info`, MSI-X `pool_free`, a small VSI `heap`, `main_vsi`, `next_vsi_idx`, callback `registered`/`intrOn`, handler state `h`, `faults`, and `rss_allocs` (the `rte_zmalloc` calls `ice_init_rss` made for a VSI's key and LUT). `DevStart` includes `ice_init_rss`. `DevInfoGet` is the application's `rte_eth_dev_info_get`, which reads `pf->main_vsi`; it is enabled while the port keeps its `dev_ops`. `ice_dev_uninit` takes three steps (close; unregister; final frees) so that the interrupt handler's steps can fall between them. |

The `MC*` modules give the constants values, and each `.cfg` selects the properties for one run.

## Runs

| Run | Checks | Result |
|---|---|---|
| `regionbuilder_pass` | `TypeOK`, `ScanBounded`, `BuilderRefinesRegion` | pass: bases at lines 0..15, all 8 slices, 1..3 elements (5,588 states) |
| `region_bounds` | `WithinAllocation` | violation: base at line 9, slice 0, 1 element, which lands on line 17 |
| `kvs_pass` | `TypeOK`, `BurstBuffersAccounted`, `ExitAfterSignal` | pass: both builds, 2 keys, keys 0..2 in packets, 2 mbufs, bursts of 2, a 1-packet transmit ring, READ_PERCENT 100 (305,492 states) |
| `kvs_reply` | `ReplyMatchesStore` | violation: two READs of one key in one burst, so the second reply is byte-swapped |
| `uncore_pass` | `TypeOK`, `CorrectWithoutContention`, `RegionInSlice`, `CreateArrayTerminates` | pass: 3 slices, 2 flushes, 1 background lookup per session, 2 elements in a 16-line block, 1 restart (142,344 states) |
| `uncore_contention` | `RegionInSlice` | violation: 2 background lookups tie the counters, the lowest slice wins, and a line of another slice becomes element 0 |
| `cache_index_pass` | `IndexMatchesGeometry`, `StrideKeepsIndex` | pass: both geometries, 256 addresses, levels 0..4 (4,034 states) |
| `respool_pass` | `TypeOK`, `NoFalseExhaustion`, `PoolRefinesAbstract` | pass: base 1, pools of 0/1/3/7 entries, requests 0..3 (328 states) |
| `ice_pass` | `TypeOK`, `StartFailureStopsQueues`, `MainVsiLiveWhenUp` | pass: 2 queues, MSI-X 1/2/8, queue pairs 2/6, 2 resets, VSI limit 2 (8,286 states) |
| `ice_double_release` | `NoDoubleRelease` | violation: remove calls `ice_dev_close`, then the second `ice_release_vsi` |
| `ice_handler_uaf` | `HandlerNoUseAfterFree` | violation: the handler is running while unregister is refused, then `port_info` is freed and the handler uses it |
| `ice_vsi_handles` | `VsiHandlesMatchLiveVsis` | violation: after one reset the port has one live VSI and two handles used |

What the properties say:

- `BuilderRefinesRegion`: every behaviour of `create_array` is a behaviour of the abstract builder, with no line skipped, none taken twice, in order, and always completed. Weak fairness is justified because `create_array` is a single-threaded loop that nothing preempts.
- `ScanBounded`: the finder never looks more than 15 lines ahead, so its 16-bit offset never wraps. This rests on the fact that each aligned group of 8 lines holds every slice once.
- `CorrectWithoutContention`: a measurement returns the owning slice whenever the background lookups counted in its session are fewer than the flushes. This holds whatever an earlier user, an earlier measurement of the finder's loop or a crashed run left in the registers. It is `MeasureClassifier`'s property, checked inside the composition `UncoreRegion`, where the finder drives every measurement.
- `RegionInSlice`: on the uncore path every element lies in the target slice. This holds from any register contents and across a crash in mid-measurement, as long as the counted background lookups stay below the flushes. The uncore path has no verification loop, so the contention run shows what happens otherwise.
- `CreateArrayTerminates`: `sliceFinder_uncore`'s retry loop ends. Every run of `create_array` returns or exits on an MSR failure. Only the thread running `create_array` is assumed weakly fair.
- `ExitAfterSignal`: after SIGINT or SIGTERM, `lcore_main` returns, in both builds. The `TX_LOOP` retry loop never tests `force_quit`, so this rests on the retry advancing `not_sent` and on the NIC draining its ring.
- `IndexMatchesGeometry`: `indexCalculator` returns the line number modulo the level's sets, as `L1_SETS`, `L2_SETS` and the L3 stride define them. The masks and the sizes, ways and strides are two descriptions of the same cache, and this checks that they agree.
- `StrideKeepsIndex`: adding `L2_INDEX_STRIDE` or `L3_INDEX_STRIDE` to an address keeps its set, and no smaller line-aligned offset does.
- `PoolRefinesAbstract`: every sequence of init, alloc and destroy calls grants disjoint runs of the pool's indices and returns their first index.
- `NoFalseExhaustion`: best fit never refuses a request that `num_free` covers. This holds because the free list never fragments: `ice_ethdev.c` has no function that returns an entry to it. The same fact is why `IceDriver` may keep only the pool's free count.
- `StartFailureStopsQueues`: the error paths of `ice_dev_start` stop exactly the queues it started.
- `MainVsiLiveWhenUp`: resets, which free the VSI and create a new one, never leave a port that the application uses on a freed VSI.

Each property of a passing run has a mutant in `PROJECT.json`, a plausible slip in the code that the run detects:
- a finder restarting at the previous element;
- a `<=` loop bound;
- a wrong mask;
- no counter wrap;
- a shifted free loop;
- a `TX_LOOP` retry that does not advance `not_sent`;
- a per-slice loop that runs one too far;
- a counter reset that keeps the count;
- `create_array` dropping the 64 bytes it adds before the finder's result;
- a finder offset that never advances;
- an exact fit split like a larger entry;
- `>` for `>=` in the fit test;
- a split that leaves the free entry's base behind;
- start and stop loops that are one off;
- `pf->main_vsi` not updated;
- an L1 mask that stops a bit short;
- an L2 stride one bit too small.

### Bounds

- **Region builder.** Sixteen line-aligned bases cover every residue modulo 8 lines and two full groups. Three elements exercise the first-element and later-element branches and the loop exit. The hash is exact on these addresses.
- **KVS.** Two buffers and bursts of 2 give full, partial and empty transmissions, two packets of one key in one burst, and mbufs returned while others are in flight. A one-packet transmit ring makes a two-packet burst partial whenever the ring is not empty, so the `TX_LOOP` retry runs, also when the ring is full and it must wait for `TxDone`.
- **Uncore region.** Three slices and the pattern 1,2,0,2,0,... make the first element need two misses and the second one, so the finder both retries and restarts past an element. `MaxCalls = 10` covers two complete runs, so the bound never cuts a run short, which the liveness check relies on. Two flushes against one background lookup is the smallest case where noise exists but cannot win; the contention run raises it to two. The misses are lines of slices 1 and 2, so a count of slice 0 carried from one measurement would win a tie. One restart covers a crash anywhere in `uncore_init`.
- **Resource pool.** Base 1 and `num_msix_vectors - 1` entries, as `ice_dev_init` passes them. Requests 0..3 give the invalid, exact, split, too-large and exhausted cases.
- **Cache index.** Each address is a sum of powers of two at bits 5, 6, 11, 12, 14, 15, 16 and 17: inside a line, the first index bit, and the bits where each mask and stride of the two geometries ends or begins. A mask or stride one bit off changes the result for one of them.
- **ice.** The VSI limit of 2 stands for the base code's limit on handles, so that the second reset meets it. Queue pairs 6 and MSI-X 2 exercise the queue-mapping and pool-size edges.

### Fairness

- `RegionBuilder` assumes weak fairness. It is a single-threaded loop that always runs on.
- `UncoreRegion` assumes weak fairness for the process's own steps (`ProcessStep`) only. Background lookups, MSR failures and restarts get none.
- `KVS` assumes weak fairness for the lcore's steps (`Lcore`: it polls without end) and for `TxDone` (the NIC transmits what its ring holds). Packet arrival and signals get none.
- `MeasureClassifier` and `IceDriver` assume none. Receiving packets, other cores' lookups, the NIC's interrupts and the application's calls are the environment's choice. No liveness property is claimed for them.
- Runs set `CHECK_DEADLOCK FALSE` only where the program really stops:
  - `create_array` returns;
  - the loop exits after a signal;
  - a failed probe or a remove ends the driver's life;
  - the classifier's calls are bounded.

## Findings

- **Allocation overrun (`main.c:211`).** The block has `nb_keys*8` lines, but the elements of one slice from a base that is not 512-byte aligned can reach past it.
- **READ changes the store (`main.c:433`).** `*value = htobe64(*value)` swaps the element in place, so alternate reads of a key return swapped values.
- **Uninitialised pointer in WRITE (`main.c:430`).** The WRITE branch dereferences `value`, which it never sets. The branch is dead code as the program is built: `READ_PERCENT` is 100 (`main.c:42`), so `read_counter < READ_PERCENT` always holds. The model keeps the branch, and no property is claimed for it.
- **Wrong-slice elements under contention (`main.c:209`, run `uncore_contention`).** `create_array` records whatever slice `sliceFinder_uncore` accepts and never re-checks it on the uncore path. Enough background lookups in one session (a tie goes to the lowest slice, `rte_msr.c:214`) make a line of another slice an element.
- **Double release (`ice_ethdev.c:858`).** `ice_dev_uninit` releases `pf->main_vsi` after `ice_dev_close` has freed it.
- **Handler use after free (`ice_ethdev.c:855`).** The unregister result is ignored, so a running handler outlives `port_info`.
- **VSI handle leak (`ice_ethdev.c:557`).** `next_vsi_idx` is never given back, so each reset costs a handle.
- **Also in the model, without a run of their own** (each run was given up for the composition and the pool):
  - "Packet Dropped!" is not a drop (`main.c:452`). `KVS.tla`'s `OutOfRangeDropped` states it.
  - `find_CHA_CBO`'s tie rule, stated by `UniqueMaximum` of `MeasureClassifier.tla`;
  - the RSS key loop writes `rss_key_size + 1` bytes (`ice_ethdev.c:906`);
  - a failed MSI-X allocation is kept as the VSI's vector (`:612`);
  - `rte_bsf32` reduces 6 queue pairs to 2 (`:287`);
  - `ice_dev_info_get` reads the freed `pf->main_vsi` (`:1027`) when the application calls `rte_eth_dev_info_get` after `rte_eth_dev_close` (the port keeps its `dev_ops` until uninit) or after a failed `ice_dev_reset` (the port stays attached). `DevInfoGet` records it as the fault `uaf_main_vsi`. The root cause, `pf->main_vsi` never cleared, is the one `ice_double_release` shows;
  - `rss_key` and `rss_lut` are allocated once per VSI and never freed when the VSI is released (`:897`), which `rss_allocs` shows.

## Not modelled, and the plan

- **The plain path of `create_array` (no `SLICE`).** It takes `nb_keys` consecutive lines of an `nb_keys`-line block. There is no choice in it and nothing a property could tell apart from the code.
- **The pool inside `IceDriver`.** The driver keeps only `num_free` and allocates once per pool. `IceResPool`'s two properties are what justify that: a pool whose free list never fragments refuses exactly when `num_free < num` or `rte_zmalloc` fails. Putting the full pool inside the driver model is possible but would add no behaviour.
- **`num_msix_vectors = 0`.** `num_msix_vectors - 1` wraps to 2^32 - 1 in `uint32_t`, which is beyond TLC's integers.
- **Leaks and zero sizes.**
  - The leak of `find_CHA_CBO`'s array on every call.
  - `nb_q = 0` in `ice_init_rss`.
  - `nb_keys = 0`, where `rte_calloc` returns NULL.
- **The LLC size and slice macros** (`LLC_SIZE`, `LLC_SETS`, `SLICE_SIZE`). Nothing expands them. If something did, `SKYLAKE_LLC_SIZE` is `24.75UL*...`, which is not a valid C constant, and `LLC_SETS` divides by `NUMBER_SLICES`, which is 28 under `SKYLAKE` (`rte_msr.h:111`). That is not the 2048 sets per slice that the L3 mask encodes.
- **Left out, with the reason:**
  - Packet length and the bytes around the key: the model's packet is a key and a payload.
  - Throughput statistics and printing: output only.
  - Inside `port_init` and `main`, which DPDK call failed: `KVS` keeps only that set-up either completes or exits.
  - Link-speed decoding, the fields `dev_info_get` fills in, and devargs parsing: data conversion with no state.
  - The lazily opened MSR descriptors and the distinct exit codes: every failure exits.
- **Hazards without a run.** `check.sh` allows 12 runs and the project uses all of them. The hazards whose properties exist in a module but are not checked by any run say so in `PROJECT.json`. Each would need a violation run of its own.

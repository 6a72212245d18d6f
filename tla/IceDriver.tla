----------------------------- MODULE IceDriver -----------------------------
(***************************************************************************)
(* The life cycle of one ice PF port (drivers/net/ice/ice_ethdev.c) as the *)
(* ethdev layer drives it: probe (ice_dev_init), configure, start, stop,   *)
(* close, reset (ice_dev_uninit then ice_dev_init) and remove             *)
(* (ice_dev_uninit), together with the EAL interrupt thread that runs      *)
(* ice_interrupt_handler while the callback is registered.                *)
(*                                                                         *)
(* The application thread runs each driver operation as one step, except  *)
(* ice_dev_uninit, whose three phases (close; interrupt unregistration;   *)
(* the final frees) are steps of their own so that the interrupt thread   *)
(* can run between them.  Heap objects that matter are the VSIs (heap)    *)
(* and hw->port_info.  Misuse the code commits is recorded in `faults`:   *)
(* a release of a VSI that is no longer live, a use of a freed           *)
(* port_info.                                                              *)
(***************************************************************************)
EXTENDS Integers, FiniteSets

CONSTANTS
    NB_QUEUES,                  \* Rx and Tx queues the application configures
    NumMsixVectors,             \* possible func_caps num_msix_vectors
    LanQps,                     \* possible pf->lan_nb_qps (queue-pair capability)
    ICE_MAX_Q_PER_TC,           \* queues one traffic class may map
    RTE_MAX_RXTX_INTR_VEC_ID,   \* interrupt vectors the EAL offers for queues
    ICE_MAX_VSI,                \* VSI handles the base code accepts
    MaxResets,                  \* dev_reset calls, at most
    NULL

ASSUME NB_QUEUES \in Nat \ {0}
ASSUME NumMsixVectors \subseteq Nat \ {0}
ASSUME LanQps \subseteq Nat \ {0}
ASSUME {ICE_MAX_Q_PER_TC, RTE_MAX_RXTX_INTR_VEC_ID, ICE_MAX_VSI, MaxResets} \subseteq Nat

Queues == 0..(NB_QUEUES - 1)

\* Heap objects a VSI may occupy: one per ice_dev_init.
Objs == 0..MaxResets

FaultKinds == {"double_release", "uaf_port_info", "uaf_main_vsi"}

VARIABLES
    app,              \* where the application thread is (see AppStates)
    resetting,        \* the running ice_dev_uninit belongs to ice_dev_reset
    resets,           \* dev_reset calls so far
    caps,             \* the hardware: [msix |-> vectors, qps |-> queue pairs]
    configured,       \* queues set up (data->nb_rx_queues = NB_QUEUES)
    started,          \* data->dev_started, kept by the ethdev layer
    adapter_stopped,  \* pf->adapter_stopped
    rxOn, txOn,       \* queues started in hardware
    startFailed,      \* the last ice_dev_start returned -EIO
    ctrlq,            \* control queues up (ice_init_hw .. ice_shutdown_all_ctrlq)
    port_info,        \* hw->port_info: "none", "live", "freed"
    pool_free,        \* pf->msix_pool.num_free, 0 when destroyed
    heap,             \* heap[o]: "unused", "live", "freed"
    main_vsi,         \* pf->main_vsi
    next_vsi_idx,     \* pf->next_vsi_idx
    vsi,              \* fields of the main VSI: idx, nb_qps, msix_intr
    rss_allocs,       \* rss_allocs[o]: rte_zmalloc calls for VSI o's RSS key and LUT
    registered,       \* ice_interrupt_handler registered with the EAL
    intrOn,           \* the interrupt handle is enabled (rte_intr_enable)
    h,                \* interrupt thread: "idle", "run", "end"
    faults            \* misuse that has happened

vars == <<app, resetting, resets, caps, configured, started, adapter_stopped,
          rxOn, txOn, startFailed, ctrlq, port_info, pool_free, heap,
          main_vsi, next_vsi_idx, vsi, rss_allocs, registered, intrOn, h, faults>>

AppStates == {"probe", "ready", "closed", "failed", "gone",
              "u_close", "u_unreg", "u_free"}

MinOf(a, b) == IF a < b THEN a ELSE b

-----------------------------------------------------------------------------
(* Helpers of ice_dev_init                                                 *)

\* rte_bsf32: the index of the least significant set bit (x > 0).
RECURSIVE rte_bsf32(_)
rte_bsf32(x) == IF x % 2 = 1 THEN 0 ELSE 1 + rte_bsf32(x \div 2)

\* ice_vsi_config_tc_queue_mapping: the number of queue pairs the VSI keeps.
TcQueuePairs(nb_qps) == 2^rte_bsf32(MinOf(nb_qps, ICE_MAX_Q_PER_TC))

\* ice_res_pool_alloc on the pool ice_res_pool_init just made (one free
\* entry of num_free vectors at offset 0, pool base 1): the first vector,
\* or a negative error.
FreshPoolAlloc(num_free, num) ==
    IF num = 0 \/ num_free < num THEN -1 ELSE 1

\* A fresh heap object for rte_zmalloc.
FreshObj == CHOOSE o \in Objs : heap[o] = "unused"

\* ice_release_vsi(v): ice_free_vsi then rte_free(vsi), on any outcome of
\* the admin-queue command; nothing for NULL.
ReleaseVsi(v) ==
    IF v = NULL THEN UNCHANGED <<heap, faults>>
    ELSE /\ heap' = [heap EXCEPT ![v] = "freed"]
         /\ faults' = IF heap[v] = "live" THEN faults
                      ELSE faults \cup {"double_release"}

\* ice_dev_stop: stop and clear every queue unless already stopped.
StopEffects ==
    IF adapter_stopped THEN UNCHANGED <<rxOn, txOn, adapter_stopped>>
    ELSE /\ rxOn' = {} /\ txOn' = {}
         /\ adapter_stopped' = TRUE

-----------------------------------------------------------------------------
(* ice_dev_init                                                            *)

\* ice_init_hw fails: return -EINVAL.
InitHwFails ==
    /\ app = "probe"
    /\ app' = "failed"
    /\ UNCHANGED <<resetting, resets, caps, configured, started, adapter_stopped,
                   rxOn, txOn, startFailed, ctrlq, port_info, pool_free, heap,
                   main_vsi, next_vsi_idx, vsi, rss_allocs, registered, intrOn, h, faults>>

\* Undo a partial init: ice_sched_cleanup_all, rte_free(hw->port_info),
\* ice_shutdown_all_ctrlq, return the error.
InitUndone ==
    /\ port_info' = "freed"
    /\ ctrlq' = FALSE
    /\ app' = "failed"
    /\ UNCHANGED <<resetting, resets, caps, configured, started, adapter_stopped,
                   rxOn, txOn, startFailed, pool_free, heap, main_vsi,
                   next_vsi_idx, vsi, rss_allocs, registered, intrOn, h, faults>>

\* ice_init_mac_address fails (no unicast MAC address): err_init_mac.
InitMacFails == app = "probe" /\ InitUndone

\* ice_res_pool_init(&pf->msix_pool, 1, num_msix_vectors - 1) refuses an
\* empty pool: err_msix_pool_init.
InitPoolFails == app = "probe" /\ caps.msix - 1 = 0 /\ InitUndone

\* Mutation: ice_pf_setup forgets to store the new VSI in pf->main_vsi.
KeepMainVsi(o) == main_vsi

\* pf->main_vsi = vsi
NewMainVsi(o) == o

\* ice_init_hw, MAC address and MSI-X pool succeed; ice_pf_setup runs
\* ice_setup_vsi.  If ice_add_vsi refuses the handle (idx >= ICE_MAX_VSI)
\* the VSI is freed, next_vsi_idx restored and the init undone; otherwise
\* the callback is registered and interrupts enabled.
InitPfSetup ==
    /\ app = "probe"
    /\ caps.msix - 1 > 0
    /\ LET o     == FreshObj
           idx   == next_vsi_idx
           qps   == TcQueuePairs(caps.qps)
           nmsix == MinOf(qps, RTE_MAX_RXTX_INTR_VEC_ID)
           pool0 == caps.msix - 1
       IN IF idx >= ICE_MAX_VSI
          THEN /\ heap' = [heap EXCEPT ![o] = "freed"]
               /\ port_info' = "freed"
               /\ ctrlq' = FALSE
               /\ app' = "failed"
               /\ pool_free' = 0
               /\ UNCHANGED <<main_vsi, next_vsi_idx, vsi, registered, intrOn>>
          ELSE LET r == FreshPoolAlloc(pool0, nmsix)
               IN /\ heap' = [heap EXCEPT ![o] = "live"]
                  /\ main_vsi' = NewMainVsi(o)
                  /\ next_vsi_idx' = idx + 1
                  /\ vsi' = [idx |-> idx, nb_qps |-> qps, msix_intr |-> r]
                  /\ pool_free' = IF r < 0 THEN pool0 ELSE pool0 - nmsix
                  /\ port_info' = "live"
                  /\ ctrlq' = TRUE
                  /\ registered' = TRUE
                  /\ intrOn' = TRUE
                  /\ app' = "ready"
    /\ UNCHANGED <<resetting, resets, caps, configured, started, adapter_stopped,
                   rxOn, txOn, startFailed, rss_allocs, h, faults>>

-----------------------------------------------------------------------------
(* Port operations                                                         *)

\* rte_eth_dev_configure (queue setup included) on a stopped port;
\* ice_dev_configure only sets the Rx/Tx path flags.
DevConfigure ==
    /\ app = "ready"
    /\ ~started
    /\ configured' = TRUE
    /\ UNCHANGED <<app, resetting, resets, caps, started, adapter_stopped, rxOn,
                   txOn, startFailed, ctrlq, port_info, pool_free, heap,
                   main_vsi, next_vsi_idx, vsi, rss_allocs, registered, intrOn, h, faults>>

\* How ice_dev_start may fail: a Tx or an Rx queue k refuses to start,
\* or ice_init_rss fails; "none" when everything succeeds.
StartOutcomes ==
    {[at |-> "none", k |-> 0], [at |-> "rss", k |-> 0]}
    \cup [at : {"tx", "rx"}, k : Queues]

\* Mutation: the start loops run to nb_queues inclusive.
StartedRangeInclusive(n) == 0..n

\* for (q = 0; q < n; q++) ice_{tx,rx}_queue_start(dev, q)
StartedRange(n) == 0..(n - 1)

\* Mutation: the clean-up loops stop one queue too few.
StopRangeShort(n) == 0..(n - 2)

\* for (i = 0; i < n; i++) ice_{rx,tx}_queue_stop(dev, i)
StopRange(n) == 0..(n - 1)

\* if (!vsi->rss_key) / if (!vsi->rss_lut): the VSI, zeroed by rte_zmalloc
\* in ice_setup_vsi, has no RSS blocks until the first ice_init_rss.
RssMissing(o) == rss_allocs[o] = 0

\* ice_init_rss up to the admin-queue commands: the key and LUT blocks are
\* allocated if the VSI has none.  (The default key loop `i <= rss_key_size`
\* writes one byte past vsi->rss_key, outside this model's heap.)
InitRssAlloc ==
    rss_allocs' = IF RssMissing(main_vsi)
                  THEN [rss_allocs EXCEPT ![main_vsi] = @ + 1]
                  ELSE rss_allocs

\* ice_dev_start.  Tx queues start in order, then Rx queues, then
\* ice_init_rss runs, whose ice_aq_set_rss_key or ice_aq_set_rss_lut may
\* fail.  On a failure, rx_err stops the first nb_rxq Rx queues and tx_err
\* the first nb_txq Tx queues.
DevStart ==
    /\ app = "ready"
    /\ configured
    /\ ~started
    /\ \E f \in StartOutcomes :
         LET nb_txq == IF f.at = "tx" THEN f.k ELSE NB_QUEUES
             nb_rxq == CASE f.at = "tx" -> 0
                         [] f.at = "rx" -> f.k
                         [] OTHER       -> NB_QUEUES
         IN /\ IF f.at = "none"
               THEN /\ rxOn' = StartedRange(NB_QUEUES)
                    /\ txOn' = StartedRange(NB_QUEUES)
                    /\ started' = TRUE
                    /\ adapter_stopped' = FALSE
                    /\ startFailed' = FALSE
               ELSE /\ rxOn' = (rxOn \cup StartedRange(nb_rxq)) \ StopRange(nb_rxq)
                    /\ txOn' = (txOn \cup StartedRange(nb_txq)) \ StopRange(nb_txq)
                    /\ startFailed' = TRUE
                    /\ UNCHANGED <<started, adapter_stopped>>
            /\ IF f.at \in {"none", "rss"} THEN InitRssAlloc ELSE UNCHANGED rss_allocs
    /\ UNCHANGED <<app, resetting, resets, caps, configured, ctrlq, port_info,
                   pool_free, heap, main_vsi, next_vsi_idx, vsi, registered,
                   intrOn, h, faults>>

\* rte_eth_dev_stop on a started port: ice_dev_stop.
DevStop ==
    /\ app = "ready"
    /\ started
    /\ started' = FALSE
    /\ StopEffects
    /\ UNCHANGED <<app, resetting, resets, caps, configured, startFailed, ctrlq,
                   port_info, pool_free, heap, main_vsi, next_vsi_idx, vsi,
                   rss_allocs, registered, intrOn, h, faults>>

\* ice_dev_close: ice_dev_stop, free the queues, destroy the MSI-X pool,
\* ice_release_vsi(pf->main_vsi) (pf->main_vsi keeps its value), shut the
\* control queues down.
CloseEffects ==
    /\ StopEffects
    /\ configured' = FALSE
    /\ pool_free' = 0
    /\ ReleaseVsi(main_vsi)
    /\ ctrlq' = FALSE

\* rte_eth_dev_close: dev_started = 0, then ice_dev_close.
DevClose ==
    /\ app = "ready"
    /\ started' = FALSE
    /\ CloseEffects
    /\ app' = "closed"
    /\ UNCHANGED <<resetting, resets, caps, startFailed, port_info, main_vsi,
                   next_vsi_idx, vsi, rss_allocs, registered, intrOn, h>>

\* rte_eth_dev_reset: rte_eth_dev_stop, then ice_dev_reset, which (SR-IOV
\* being inactive) runs ice_dev_uninit and then ice_dev_init.
DevReset ==
    /\ app = "ready"
    /\ resets < MaxResets
    /\ resets' = resets + 1
    /\ resetting' = TRUE
    /\ started' = FALSE
    /\ IF started THEN StopEffects ELSE UNCHANGED <<rxOn, txOn, adapter_stopped>>
    /\ app' = "u_close"
    /\ UNCHANGED <<caps, configured, startFailed, ctrlq, port_info, pool_free,
                   heap, main_vsi, next_vsi_idx, vsi, rss_allocs, registered, intrOn, h, faults>>

\* ice_pci_remove: rte_eth_dev_pci_generic_remove runs ice_dev_uninit.
DevRemove ==
    /\ app \in {"ready", "closed"}
    /\ resetting' = FALSE
    /\ app' = "u_close"
    /\ UNCHANGED <<resets, caps, configured, started, adapter_stopped, rxOn, txOn,
                   startFailed, ctrlq, port_info, pool_free, heap, main_vsi,
                   next_vsi_idx, vsi, rss_allocs, registered, intrOn, h, faults>>

\* rte_eth_dev_info_get: ice_dev_info_get reads pf->main_vsi->nb_qps and
\* ->max_macaddrs.  The port keeps dev_ops while up, after rte_eth_dev_close
\* (only ice_dev_uninit clears them), and when the ice_dev_init of a reset
\* failed (only a failed probe releases the port).
DevInfoGet ==
    /\ \/ app \in {"ready", "closed"}
       \/ app = "failed" /\ resetting
    /\ faults' = IF heap[main_vsi] = "live" THEN faults
                  ELSE faults \cup {"uaf_main_vsi"}
    /\ UNCHANGED <<app, resetting, resets, caps, configured, started, adapter_stopped,
                   rxOn, txOn, startFailed, ctrlq, port_info, pool_free, heap,
                   main_vsi, next_vsi_idx, vsi, rss_allocs, registered, intrOn, h>>

-----------------------------------------------------------------------------
(* ice_dev_uninit, in three steps                                          *)

\* ice_dev_close(dev).
UninitClose ==
    /\ app = "u_close"
    /\ CloseEffects
    /\ app' = "u_unreg"
    /\ UNCHANGED <<resetting, resets, caps, started, startFailed, port_info,
                   main_vsi, next_vsi_idx, vsi, rss_allocs, registered, intrOn, h>>

\* Clear the ops, free mac_addrs, rte_intr_disable, then
\* rte_intr_callback_unregister -- which the EAL refuses with -EAGAIN
\* while the callback is executing; the result is not checked.
UninitUnregister ==
    /\ app = "u_unreg"
    /\ intrOn' = FALSE
    /\ registered' = (registered /\ h # "idle")
    /\ app' = "u_free"
    /\ UNCHANGED <<resetting, resets, caps, configured, started, adapter_stopped,
                   rxOn, txOn, startFailed, ctrlq, port_info, pool_free, heap,
                   main_vsi, next_vsi_idx, vsi, rss_allocs, h, faults>>

\* ice_release_vsi(pf->main_vsi), ice_sched_cleanup_all,
\* rte_free(hw->port_info), ice_shutdown_all_ctrlq; return 0.  A reset
\* goes on to ice_dev_init.
UninitFree ==
    /\ app = "u_free"
    /\ ReleaseVsi(main_vsi)
    /\ port_info' = "freed"
    /\ ctrlq' = FALSE
    /\ app' = IF resetting THEN "probe" ELSE "gone"
    /\ UNCHANGED <<resetting, resets, caps, configured, started, adapter_stopped,
                   rxOn, txOn, startFailed, pool_free, main_vsi, next_vsi_idx,
                   vsi, rss_allocs, registered, intrOn, h>>

-----------------------------------------------------------------------------
(* The EAL interrupt thread: ice_interrupt_handler                         *)

\* An interrupt is delivered: ice_pf_disable_irq0, read PFINT_OICR.
HandlerEnter ==
    /\ h = "idle"
    /\ registered /\ intrOn
    /\ h' = "run"
    /\ UNCHANGED <<app, resetting, resets, caps, configured, started,
                   adapter_stopped, rxOn, txOn, startFailed, ctrlq, port_info,
                   pool_free, heap, main_vsi, next_vsi_idx, vsi, rss_allocs, registered,
                   intrOn, faults>>

\* PFINT_OICR_LINK_STAT_CHANGE_M: ice_link_update sends
\* ice_aq_get_link_info on hw->port_info.
HandlerLinkUpdate ==
    /\ h = "run"
    /\ faults' = IF port_info = "freed" THEN faults \cup {"uaf_port_info"}
                  ELSE faults
    /\ h' = "end"
    /\ UNCHANGED <<app, resetting, resets, caps, configured, started,
                   adapter_stopped, rxOn, txOn, startFailed, ctrlq, port_info,
                   pool_free, heap, main_vsi, next_vsi_idx, vsi, rss_allocs, registered, intrOn>>

\* No link event (no event at all, or only an MDD event, which is logged).
HandlerNoLinkEvent ==
    /\ h = "run"
    /\ h' = "end"
    /\ UNCHANGED <<app, resetting, resets, caps, configured, started,
                   adapter_stopped, rxOn, txOn, startFailed, ctrlq, port_info,
                   pool_free, heap, main_vsi, next_vsi_idx, vsi, rss_allocs, registered,
                   intrOn, faults>>

\* done: ice_pf_enable_irq0, rte_intr_enable.
HandlerExit ==
    /\ h = "end"
    /\ intrOn' = TRUE
    /\ h' = "idle"
    /\ UNCHANGED <<app, resetting, resets, caps, configured, started,
                   adapter_stopped, rxOn, txOn, startFailed, ctrlq, port_info,
                   pool_free, heap, main_vsi, next_vsi_idx, vsi, rss_allocs, registered, faults>>

-----------------------------------------------------------------------------

\* rte_eth_dev_pci_generic_probe has zeroed the private data.
Init ==
    /\ app = "probe"
    /\ resetting = FALSE
    /\ resets = 0
    /\ caps \in [msix : NumMsixVectors, qps : LanQps]
    /\ configured = FALSE
    /\ started = FALSE
    /\ adapter_stopped = FALSE
    /\ rxOn = {} /\ txOn = {}
    /\ startFailed = FALSE
    /\ ctrlq = FALSE
    /\ port_info = "none"
    /\ pool_free = 0
    /\ heap = [o \in Objs |-> "unused"]
    /\ main_vsi = NULL
    /\ next_vsi_idx = 0
    /\ vsi = [idx |-> 0, nb_qps |-> 0, msix_intr |-> 0]
    /\ rss_allocs = [o \in Objs |-> 0]
    /\ registered = FALSE
    /\ intrOn = FALSE
    /\ h = "idle"
    /\ faults = {}

Next ==
    \/ InitHwFails \/ InitMacFails \/ InitPoolFails \/ InitPfSetup
    \/ DevConfigure \/ DevInfoGet \/ DevStart \/ DevStop \/ DevClose \/ DevReset
    \/ DevRemove
    \/ UninitClose \/ UninitUnregister \/ UninitFree
    \/ HandlerEnter \/ HandlerLinkUpdate \/ HandlerNoLinkEvent \/ HandlerExit

Spec == Init /\ [][Next]_vars

-----------------------------------------------------------------------------
(* Properties                                                              *)

TypeOK ==
    /\ app \in AppStates
    /\ resets \in 0..MaxResets
    /\ rxOn \subseteq Queues /\ txOn \subseteq Queues
    /\ port_info \in {"none", "live", "freed"}
    /\ heap \in [Objs -> {"unused", "live", "freed"}]
    /\ main_vsi \in Objs \cup {NULL}
    /\ rss_allocs \in [Objs -> Nat]
    /\ h \in {"idle", "run", "end"}
    /\ faults \subseteq FaultKinds

\* A failed ice_dev_start leaves no queue running: whichever queue or the
\* RSS set-up failed, the error paths stop every queue the start started.
StartFailureStopsQueues == startFailed => rxOn = {} /\ txOn = {}

\* While the port is up, pf->main_vsi is a live VSI -- also after any
\* number of dev_reset calls, each of which frees the VSI and makes a new
\* one, and after failed starts (ice_dev_info_get, ice_init_rss and the
\* queue code dereference it).
MainVsiLiveWhenUp ==
    app = "ready" => main_vsi # NULL /\ heap[main_vsi] = "live"

\* ice_release_vsi is never applied to a VSI that was already freed.
NoDoubleRelease == "double_release" \notin faults

\* The interrupt handler never uses hw->port_info after ice_dev_uninit
\* freed it.
HandlerNoUseAfterFree == "uaf_port_info" \notin faults

\* VSI handles are not leaked across dev_reset: while the port is up, the
\* handles pf->next_vsi_idx has handed out are those of live VSIs (once
\* ICE_MAX_VSI handles are gone, ice_add_vsi refuses and every later
\* ice_dev_init fails).
VsiHandlesMatchLiveVsis ==
    app = "ready" => next_vsi_idx = Cardinality({o \in Objs : heap[o] = "live"})

=============================================================================

-------------------------------- MODULE KVS --------------------------------
(***************************************************************************)
(* The request loop of the emulated key/value store, lcore_main of         *)
(* examples/KVS/main.c, on one port.                                       *)
(*                                                                         *)
(* A burst of up to BURST_SIZE packets is received into mbufs taken from   *)
(* the pool.  Each packet carries a key at byte 65, big-endian; an        *)
(* in-range key selects element array[key] of the slice-aware array.  A  *)
(* READ converts that element to big-endian IN PLACE, "*value =          *)
(* htobe64( *value)", and copies it into the packet; a WRITE stores the   *)
(* key and then writes through `value`, which that branch never sets.    *)
(* The burst is then handed to rte_eth_tx_burst, which may accept only a  *)
(* prefix; the rest is freed, or, when built with TX_LOOP, offered again *)
(* until every packet is taken.  The NIC's ring holds TX_RING packets: a  *)
(* burst with a free descriptor is taken at least in part.  The NIC       *)
(* returns transmitted mbufs to the pool.  SIGINT/SIGTERM set           *)
(* force_quit, tested at the top of the loop.                              *)
(* Both builds are checked: tx_loop is chosen once, at the start.         *)
(*                                                                         *)
(* A 64-bit word is <<x, s>>: the number x with its bytes swapped s times *)
(* (s \in {0,1}; swapping twice restores x).  On x86 htobe64 and be64toh  *)
(* swap.  The client decodes the 8 reply bytes as big-endian, so it reads *)
(* the swapped word.  Keys are modelled by their decoded value.           *)
(***************************************************************************)
EXTENDS Naturals, Sequences, FiniteSets, SequencesExt

CONSTANTS
    NB_KEYS,        \* number of elements of the array
    KeyValues,      \* keys packets may carry, in range or not
    Bufs,           \* mbufs of the pool (model values)
    BURST_SIZE,     \* most packets one rte_eth_rx_burst returns
    READ_PERCENT,   \* share of READ operations, out of 100
    TX_RING,        \* packets the NIC's transmit ring holds
    NoReply,        \* packet payload not yet replaced by a value
    Garbage         \* payload copied through an uninitialised pointer

ASSUME NB_KEYS \in Nat \ {0}
ASSUME KeyValues \subseteq Nat
ASSUME BURST_SIZE \in Nat \ {0}
ASSUME READ_PERCENT \in 0..100
ASSUME TX_RING \in Nat \ {0}

VARIABLES
    store,          \* store[k]: first word of array[k]
    mstate,         \* mstate[m]: "free" in the pool, "rx" in the burst, "tx" with the NIC
    pkt,            \* pkt[m]: the packet in mbuf m
    bufs,           \* bufs[1..nb_rx] of the current burst
    i,              \* index of the packet being processed
    pc,             \* "rx" at the top of the loop, "proc" in a burst, "txloop", "exit"
    read_counter,   \* READ/WRITE selector, counts modulo 100
    force_quit,     \* set by signal_handler
    lastSent,       \* packets of the last burst the NIC accepted
    tx_loop,        \* the program is built with TX_LOOP
    left            \* not_sent[0..nb_rx-1] of the TX_LOOP retry loop

vars == <<store, mstate, pkt, bufs, i, pc, read_counter, force_quit, lastSent,
          tx_loop, left>>

Keys == 0..(NB_KEYS - 1)
Word == Nat \X {0, 1}

\* htobe64 / be64toh on a little-endian host: swap the bytes.  The
\* values here are below 2^8, so only 0 reads the same both ways.
bswap(w) == IF w[1] = 0 THEN w ELSE <<w[1], 1 - w[2]>>

\* The packet record of an mbuf holding no packet.
NoPacket == [key |-> 0, payload |-> NoReply, mirrored |-> FALSE]

-----------------------------------------------------------------------------
(* Receiving                                                               *)

\* rte_eth_rx_burst fills nb_rx > 0 free mbufs with packets.
RxBurst ==
    /\ pc = "rx"
    /\ ~force_quit
    /\ \E S \in SUBSET {m \in Bufs : mstate[m] = "free"} :
         /\ S # {}
         /\ Cardinality(S) <= BURST_SIZE
         /\ \E keyOf \in [S -> KeyValues] :
              pkt' = [m \in Bufs |->
                        IF m \in S
                        THEN [key |-> keyOf[m], payload |-> NoReply, mirrored |-> FALSE]
                        ELSE pkt[m]]
         /\ bufs' = SetToSeq(S)
         /\ mstate' = [m \in Bufs |-> IF m \in S THEN "rx" ELSE mstate[m]]
    /\ i' = 1
    /\ pc' = "proc"
    /\ UNCHANGED <<store, read_counter, force_quit, lastSent, tx_loop, left>>

\* nb_rx == 0: `continue` to the next iteration.
RxEmpty ==
    /\ pc = "rx"
    /\ ~force_quit
    /\ UNCHANGED vars

-----------------------------------------------------------------------------
(* Processing one packet                                                   *)

\* Mutation: the counter never wraps.
NextReadCounterNoWrap == read_counter + 1

\* read_counter = (read_counter+1) % 100
NextReadCounter == (read_counter + 1) % 100

\* READ: value = array[key]; *value = htobe64(*value);
\* write_value_to_packet copies the element into the packet.
ReadOp(m, k) ==
    /\ store' = [store EXCEPT ![k] = bswap(@)]
    /\ pkt' = [pkt EXCEPT ![m].payload = store'[k], ![m].mirrored = TRUE]

\* WRITE: *(uint64_t*)array[key] = key, then *value = 0 and the copy into
\* the packet through `value`, which is uninitialised here.
WriteOp(m, k) ==
    /\ store' = [store EXCEPT ![k] = <<k, 0>>]
    /\ pkt' = [pkt EXCEPT ![m].payload = Garbage, ![m].mirrored = TRUE]

\* if (read_counter < READ_PERCENT): a READ operation.
IsRead == read_counter < READ_PERCENT

\* One iteration of `for (i = 0; i < nb_rx; i++)`.
ProcessPacket ==
    /\ pc = "proc"
    /\ i <= Len(bufs)
    /\ LET m == bufs[i]
           key == pkt[m].key
       IN IF key < NB_KEYS
          THEN /\ IF IsRead
                     THEN ReadOp(m, key)
                     ELSE WriteOp(m, key)
               /\ read_counter' = NextReadCounter
          ELSE \* "Out of order key! ... Packet Dropped!": the packet is left as is
               UNCHANGED <<store, pkt, read_counter>>
    /\ i' = i + 1
    /\ UNCHANGED <<mstate, bufs, pc, force_quit, lastSent, tx_loop, left>>

-----------------------------------------------------------------------------
(* Transmitting                                                            *)

\* Mutation: the free loop starts one past the first unsent mbuf.
UnsentFromNext(nb_tx) == {bufs[j] : j \in (nb_tx + 2)..Len(bufs)}

\* The mbufs `for (buf = nb_tx; buf < nb_rx; buf++)` frees.
Unsent(nb_tx) == {bufs[j] : j \in (nb_tx + 1)..Len(bufs)}

\* Descriptors of the transmit ring not holding a packet.
RingFree == TX_RING - Cardinality({m \in Bufs : mstate[m] = "tx"})

\* What rte_eth_tx_burst may return for n packets: at least one when the
\* ring has room, at most what fits.
Accepts(n) == IF n > 0 /\ RingFree > 0 THEN 1..Min({n, RingFree}) ELSE {0}

\* The first nb_tx mbufs of s, which the NIC now holds.
Sent(s, nb_tx) == {s[k] : k \in 1..nb_tx}

HandOver(S) == mstate' = [m \in Bufs |-> IF m \in S THEN "tx" ELSE mstate[m]]

\* rte_eth_tx_burst(port, 0, bufs, nb_rx) takes the first nb_tx packets.
\* Without TX_LOOP the unsent ones are freed; with it, the retry loop
\* takes over the rest.
TxBurst ==
    /\ pc = "proc"
    /\ i > Len(bufs)
    /\ \E nb_tx \in Accepts(Len(bufs)) :
         /\ lastSent' = {pkt[m] : m \in Sent(bufs, nb_tx)}
         /\ IF tx_loop /\ nb_tx < Len(bufs)
               THEN /\ HandOver(Sent(bufs, nb_tx))
                    /\ left' = SubSeq(bufs, nb_tx + 1, Len(bufs))
                    /\ pc' = "txloop"
                    /\ UNCHANGED pkt
               ELSE /\ mstate' = [m \in Bufs |->
                                   IF m \in Sent(bufs, nb_tx) THEN "tx"
                                   ELSE IF m \in Unsent(nb_tx) THEN "free"
                                   ELSE mstate[m]]
                    /\ pkt' = [m \in Bufs |-> IF m \in Unsent(nb_tx) THEN NoPacket ELSE pkt[m]]
                    /\ pc' = "rx"
                    /\ UNCHANGED left
    /\ UNCHANGED <<store, bufs, i, read_counter, force_quit, tx_loop>>

\* Mutation: the retry loop does not move past what it sent.
RetryLeftStuck(l, nb_tx) == l

\* nb_rx -= nb_tx; not_sent += nb_tx
RetryLeft(l, nb_tx) == SubSeq(l, nb_tx + 1, Len(l))

\* One iteration of do { rte_eth_tx_burst(port, 0, not_sent, nb_rx) ... }
\* while (nb_rx != 0), which never looks at force_quit.
TxRetry ==
    /\ pc = "txloop"
    /\ \E nb_tx \in Accepts(Len(left)) :
         /\ HandOver(Sent(left, nb_tx))
         /\ lastSent' = lastSent \cup {pkt[m] : m \in Sent(left, nb_tx)}
         /\ left' = RetryLeft(left, nb_tx)
         /\ pc' = IF RetryLeft(left, nb_tx) = <<>> THEN "rx" ELSE "txloop"
    /\ UNCHANGED <<store, pkt, bufs, i, read_counter, force_quit, tx_loop>>

\* The NIC has sent a packet; its mbuf returns to the pool.
TxDone ==
    /\ \E m \in Bufs :
         /\ mstate[m] = "tx"
         /\ mstate' = [mstate EXCEPT ![m] = "free"]
         /\ pkt' = [pkt EXCEPT ![m] = NoPacket]
    /\ UNCHANGED <<store, bufs, i, pc, read_counter, force_quit, lastSent, tx_loop, left>>

-----------------------------------------------------------------------------
(* Signals and exit                                                        *)

signal_handler ==
    /\ ~force_quit
    /\ force_quit' = TRUE
    /\ UNCHANGED <<store, mstate, pkt, bufs, i, pc, read_counter, lastSent, tx_loop, left>>

\* while (!force_quit) fails: print the statistics and return.
Quit ==
    /\ pc = "rx"
    /\ force_quit
    /\ pc' = "exit"
    /\ UNCHANGED <<store, mstate, pkt, bufs, i, read_counter, force_quit, lastSent, tx_loop, left>>

-----------------------------------------------------------------------------

\* create_array has written i*2 into element i.
\* main: rte_eal_init, an even number (>= 2) of ports, the mbuf pool, and
\* port_init of every port (rte_eth_dev_configure with one Rx and one Tx
\* ring, descriptor adjustment, queue set-up, rte_eth_dev_start): any
\* failure is rte_exit.  The signal handlers are already installed.
SetupFails ==
    /\ pc = "setup"
    /\ pc' = "exit"
    /\ UNCHANGED <<store, mstate, pkt, bufs, i, read_counter, force_quit, lastSent, tx_loop, left>>

\* array = create_array(NB_KEYS, 0) at the start of lcore_main: element i
\* of the zeroed block holds i*2 (the region models say which lines).
CreatedArray == [k \in Keys |-> <<k * 2, 0>>]

\* Every step succeeds and lcore_main starts with the array created.
SetupDone ==
    /\ pc = "setup"
    /\ store' = CreatedArray
    /\ pc' = "rx"
    /\ UNCHANGED <<mstate, pkt, bufs, i, read_counter, force_quit, lastSent, tx_loop, left>>

\* force_quit = false; signal(...): main before rte_eal_init.
Init ==
    /\ store = [k \in Keys |-> <<0, 0>>]
    /\ mstate = [m \in Bufs |-> "free"]
    /\ pkt = [m \in Bufs |-> NoPacket]
    /\ bufs = <<>>
    /\ i = 1
    /\ pc = "setup"
    /\ read_counter = 0
    /\ force_quit = FALSE
    /\ lastSent = {}
    /\ tx_loop \in BOOLEAN
    /\ left = <<>>

Next ==
    \/ RxBurst \/ RxEmpty \/ ProcessPacket \/ TxBurst \/ TxRetry \/ TxDone
    \/ signal_handler \/ Quit \/ SetupFails \/ SetupDone

\* The steps of the master lcore, which runs main and then lcore_main.
Lcore == SetupFails \/ SetupDone \/ RxBurst \/ ProcessPacket \/ TxBurst \/ TxRetry \/ Quit

\* The lcore polls without end and the NIC drains its ring; packets and
\* signals arrive when they will.
Spec == Init /\ [][Next]_vars /\ WF_vars(Lcore) /\ WF_vars(TxDone)

-----------------------------------------------------------------------------
(* Properties                                                              *)

TypeOK ==
    /\ store \in [Keys -> Word]
    /\ mstate \in [Bufs -> {"free", "rx", "tx"}]
    /\ pc \in {"setup", "rx", "proc", "txloop", "exit"}
    /\ left \in Seq(Bufs)
    /\ read_counter \in 0..99
    /\ force_quit \in BOOLEAN

\* Between bursts every mbuf of the last burst has been handed to the NIC
\* or freed: no mbuf leaks when rte_eth_tx_burst sends only part of it.
BurstBuffersAccounted == pc \in {"rx", "exit"} => \A m \in Bufs : mstate[m] # "rx"

\* After SIGINT or SIGTERM, lcore_main returns: in both builds, the burst
\* in hand is finished -- with TX_LOOP, retried until the NIC has taken
\* all of it -- and the loop test then sees force_quit.
ExitAfterSignal == force_quit ~> pc = "exit"

\* Every reply to an in-range key carries, as the client decodes it, the
\* value create_array stored for that key (READ never changes the store).
ReplyMatchesStore ==
    \A p \in lastSent :
        p.key < NB_KEYS /\ p.payload \in Word => bswap(p.payload) = <<p.key * 2, 0>>

\* A packet with an out-of-range key is dropped, as the code's message
\* "Out of order key! ... Packet Dropped!" says: it is never transmitted.
OutOfRangeDropped == \A p \in lastSent : p.key < NB_KEYS

=============================================================================

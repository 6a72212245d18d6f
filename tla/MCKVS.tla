------------------------------- MODULE MCKVS -------------------------------
(***************************************************************************)
(* Model-checking instance of KVS: two array elements, packets carrying   *)
(* key 0, 1 or the out-of-range key 2, a pool of two mbufs and bursts of  *)
(* up to two packets; the NIC ring holds one packet, so bursts are taken   *)
(* in part and the TX_LOOP retry runs.  read_counter runs through all of 0..99, so the      *)
(* point where it wraps is reached.                                        *)
(***************************************************************************)
EXTENDS KVS

CONSTANTS b1, b2

MCBufs == {b1, b2}
MCKeyValues == 0..2

=============================================================================

--------------------------- MODULE MCIceResPool ----------------------------
(***************************************************************************)
(* Model-checking instance of IceResPool as ice_dev_init uses it: base 1, *)
(* num_msix_vectors - 1 entries for functions of 1, 2, 4 or 8 vectors,   *)
(* and requests of RTE_MIN(nb_qps, RTE_MAX_RXTX_INTR_VEC_ID) for 0..3     *)
(* queue pairs: invalid, exact, split and too-large requests all occur.  *)
(***************************************************************************)
EXTENDS IceResPool

MCBases == {1}
MCSizes == {n - 1 : n \in {1, 2, 4, 8}}
MCRequests == 0..3

=============================================================================

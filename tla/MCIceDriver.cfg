\* Two queues, up to two resets; ICE_MAX_VSI = 2 stands for the base
\* code's VSI handle limit, so that the second reset meets it.
\* ICE_MAX_Q_PER_TC and RTE_MAX_RXTX_INTR_VEC_ID exceed every queue count.
CONSTANTS
    NB_QUEUES = 2
    NumMsixVectors <- MCNumMsixVectors
    LanQps <- MCLanQps
    ICE_MAX_Q_PER_TC = 8
    RTE_MAX_RXTX_INTR_VEC_ID = 16
    ICE_MAX_VSI = 2
    MaxResets = 2
    NULL = NULL

SPECIFICATION Spec

INVARIANT TypeOK
INVARIANT StartFailureStopsQueues
INVARIANT MainVsiLiveWhenUp

\* A failed probe and a removed port end the application thread.
CHECK_DEADLOCK FALSE

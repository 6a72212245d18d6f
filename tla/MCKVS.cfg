CONSTANTS
    NB_KEYS = 2
    KeyValues <- MCKeyValues
    b1 = b1
    b2 = b2
    Bufs <- MCBufs
    BURST_SIZE = 2
    READ_PERCENT = 100
    TX_RING = 1
    NoReply = NoReply
    Garbage = Garbage
SPECIFICATION Spec
INVARIANT TypeOK
INVARIANT BurstBuffersAccounted
PROPERTY ExitAfterSignal
\* The program exits after SIGINT/SIGTERM: that final state has no successor.
CHECK_DEADLOCK FALSE

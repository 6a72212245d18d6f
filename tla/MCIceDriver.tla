--------------------------- MODULE MCIceDriver ---------------------------
EXTENDS IceDriver

\* One MSI-X vector (the pool init fails), two (fewer than the queue pairs
\* may ask for) and eight.
MCNumMsixVectors == {1, 2, 8}

\* Queue-pair capabilities: a power of two, and 6, which is not one.
MCLanQps == {2, 6}

=============================================================================

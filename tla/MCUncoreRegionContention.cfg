CONSTANTS
    NUMBER_SLICES = 3
    NUMBER_POLLING = 2
    Owner <- MCOwner
    MaxNoise = 2
    MaxCalls = 10
    MaxRuns = 2
    None = None
    NB_KEYS = 2
    Target = 0
SPECIFICATION Spec
INVARIANT RegionInSlice
\* create_array returns, or the program exits for good.
CHECK_DEADLOCK FALSE

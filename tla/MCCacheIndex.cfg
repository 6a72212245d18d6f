\* Both geometries, 256 addresses, every valid and two invalid levels.
CONSTANTS
    Addrs <- MCAddrs
    Levels <- MCLevels
SPECIFICATION Spec
INVARIANT IndexMatchesGeometry
INVARIANT StrideKeepsIndex
\* An invalid level ends the program.
CHECK_DEADLOCK FALSE

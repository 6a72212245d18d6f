CONSTANTS
    Bases <- MCBases
    Targets <- MCTargets
    MaxKeys <- MCMaxKeys
SPECIFICATION Spec
INVARIANT WithinAllocation
CHECK_DEADLOCK FALSE

CONSTANTS
    Bases <- MCBases
    Targets <- MCTargets
    MaxKeys <- MCMaxKeys
SPECIFICATION Spec
INVARIANT TypeOK
INVARIANT ScanBounded
PROPERTY BuilderRefinesRegion
\* create_array returns: its final state has no successor.
CHECK_DEADLOCK FALSE

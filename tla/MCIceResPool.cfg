CONSTANTS
    Bases <- MCBases
    Sizes <- MCSizes
    Requests <- MCRequests
    EINVAL = EINVAL
    ENOMEM = ENOMEM
SPECIFICATION Spec
INVARIANT TypeOK
INVARIANT NoFalseExhaustion
PROPERTY PoolRefinesAbstract

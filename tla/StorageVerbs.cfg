CONSTANTS
    Actors = {a1, a2}
    NoOne = NoOne
    Domains = {1, 2}
    Master = 1
    PoolSizes = {1, 2}
    MaxTimeouts = 1
SYMMETRY Symmetry
SPECIFICATION Spec
INVARIANTS LockTable OnlyKnownDeadlocks DomainWorkAlone ImageWorkAlone
CHECK_DEADLOCK FALSE

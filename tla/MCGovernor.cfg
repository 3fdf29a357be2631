SPECIFICATION Spec
CONSTANTS
    Pids = {1, 2, 3}
    Nobody = 0
    Failing <- Everything
INVARIANTS
    TypeOK
    ExcludedSpared
    CacheTruthful
PROPERTY ForegroundFreed

SPECIFICATION ArchiveSpec
CONSTANTS
    Tenants = {t1}
    Events = {e1, e2}
    Ops = {p1}
    Workers = {w1}
    Genesis = genesis
    None = none
    MaxPending = 2
    MaxAttempts = 1
    Lease = 1
    MaxSkew = 0
    MaxRequeues = 0
    Verifiers = {v1}
    MaxArchives = 3
SYMMETRY Symmetry
INVARIANT NothingLost
PROPERTY VerdictExplained

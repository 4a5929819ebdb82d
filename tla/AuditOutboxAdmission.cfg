SPECIFICATION Spec
CONSTANTS
    Tenants = {t1}
    Events = {e1, e2, e3}
    Ops = {p1, p2}
    Workers = {w1}
    Genesis = genesis
    None = none
    MaxPending = 2
    MaxAttempts = 1
    Lease = 1
    MaxSkew = 0
    MaxRequeues = 0
SYMMETRY Symmetry
INVARIANT ChainIntact
PROPERTIES HonestReply ImplementsQueue

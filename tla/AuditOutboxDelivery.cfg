SPECIFICATION FairSpec
CONSTANTS
    Tenants = {t1}
    Events = {e1, e2}
    Ops = {p1}
    Workers = {w1, w2}
    Genesis = genesis
    None = none
    MaxPending = 1
    MaxAttempts = 2
    Lease = 1
    MaxSkew = 1
    MaxRequeues = 1
INVARIANTS TypeOK PendingCounted DeliveredIffLogged
PROPERTIES Fenced EventuallySettled

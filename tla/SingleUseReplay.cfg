SPECIFICATION TokenSpec
CONSTANTS
    Tokens = {t1, t2}
    Requests = {p1, p2}
    NoToken = none
SYMMETRY Symmetry
CHECK_DEADLOCK FALSE
INVARIANT ReplayRejected

SPECIFICATION Spec
CONSTANTS
  None = None
  Sids = {s1, s2}
  Pairs = {a1, a2, a3}
  Requests = {p1, p2}
  Scenes <- MCDeadlock
SYMMETRY Symmetry
INVARIANT OneWins
CHECK_DEADLOCK FALSE

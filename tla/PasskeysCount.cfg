SPECIFICATION Spec
CONSTANTS
  None = None
  Requests = {p1, p2}
  Creds = {c1}
  MaxSign = 3
  MaxChallenges = 4
  MaxRequests = 4
SYMMETRY Symmetry
INVARIANT CountOnceAlways
CHECK_DEADLOCK FALSE

SPECIFICATION Spec
CONSTANTS
  None = None
  Requests = {p1, p2}
  Creds = {c1}
  MaxSign = 3
  MaxChallenges = 4
  MaxRequests = 4
SYMMETRY Symmetry
INVARIANTS ChallengeOnce CopyNoticed
PROPERTY RevokedRefused
CHECK_DEADLOCK FALSE

SPECIFICATION Spec
CONSTANTS
  None = None
  Requests = {p1, p2}
  TOTPMaxAttempts = 1
  TOTPReplayPeriods = 4
  MaxRequests = 4
  MaxPeriods = 5
  Scenes <- MCEnrolment
PROPERTIES ReenrolNeverDisables
CHECK_DEADLOCK FALSE

SPECIFICATION Spec
CONSTANTS
  None = None
  Requests = {p1, p2}
  MaxLoginAttempts = 2
  LoginPerAccountMax = 1
  LoginCaptchaAfterFails = 1
  MaxLockoutMultiplier = 2
  MaxGuesses = 3
SYMMETRY Symmetry
INVARIANTS AnsweredCounted LimitsHold
PROPERTIES LockHeld LocksGrow
CHECK_DEADLOCK FALSE

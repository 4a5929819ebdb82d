SPECIFICATION Spec
CONSTANTS
  None = None
  Requests = {p1, p2}
  Emails = {e1, e2}
  Subs = {g1}
  RegisterPerIPMax = 2
  ResendMax = 2
  ResendPerEmailMax = 1
  MaxUsers = 2
  Scenes <- MCScenes
SYMMETRY Symmetry
INVARIANT ErasedStaysErased
CHECK_DEADLOCK FALSE

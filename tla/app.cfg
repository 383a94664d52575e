SPECIFICATION FairSpec
CONSTANTS
  Call = {c1, c2}
  MaxRestarts = 2
  Worlds <- Both
  None = None
INVARIANTS Attended StopSticks
PROPERTIES ComesBack
CHECK_DEADLOCK FALSE

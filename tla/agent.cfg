SPECIFICATION FairSpec
CONSTANTS
  Decider = {d1, d2}
  Canceller = {c1}
  MaxSteps = 2
  MaxTurns = 3
  Faults = TRUE
  Restarts = TRUE
  None = None
INVARIANTS ApprovedOnly OneLoop WaitingIsPending
PROPERTIES TaskEnds
CHECK_DEADLOCK FALSE

SPECIFICATION LivingSpec
CONSTANTS
  Node = {n1, n2}
  Call = {a1, a2}
  LeaseTime = 1
  BeatTime = 1
  ForgetTime = 1
  MaxTime = 2
  Worlds <- DyingOrSlipping
  SameId = FALSE
  None = None
PROPERTIES RequestsEnd LossIsNoticed
CHECK_DEADLOCK FALSE

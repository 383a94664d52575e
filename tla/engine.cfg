SPECIFICATION EngineSpec
CONSTANTS
  Node = {n1, n2, n3}
  Call = {a1, a2}
  LeaseTime = 2
  BeatTime = 1
  ForgetTime = 4
  MaxTime = 6
  Worlds <- Many
  SameId = FALSE
  None = None
SYMMETRY Symmetry
INVARIANTS OneBeliever OneNodeOpens
PROPERTIES NotStolen
CHECK_DEADLOCK FALSE

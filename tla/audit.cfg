SPECIFICATION FairSpec
CONSTANTS
  Node = {n1, n2}
  MaxRows = 3
  Batch = 1
  Rounds = 2
  MaxTrouble = 1
  None = None
INVARIANTS TypeOK
PROPERTIES Exports OnceUnlessTroubled Exported
CHECK_DEADLOCK FALSE

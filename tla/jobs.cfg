SPECIFICATION FairSpec
CONSTANTS
  Kinds = {"sync", "hosted", "alert", "dbt", "reverse", "snapshot"}
  Node = {n1, n2}
  Run = {r1, r2}
  MaxMishaps = 1
  None = None
INVARIANTS TypeOK OneRunPerNode Armed
PROPERTIES OnePerSlot DisabledStays KeepsRunning
CHECK_DEADLOCK FALSE

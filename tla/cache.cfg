SPECIFICATION Spec
CONSTANTS
  Text = {t1}
  Reader = {r1, r2}
  Writer = {w1}
  Size = {1, 2, 3}
  MaxBytes = 3
  MaxEntry = 2
  MaxData = 2
  BumpFaults = TRUE
  None = None
SYMMETRY Symmetry
INVARIANTS CurrentWithinEpoch BytesAreExact

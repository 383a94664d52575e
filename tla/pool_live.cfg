SPECIFICATION RecyclingSpec
CONSTANTS
  Workspace = {w1}
  Engine = {e1, e2}
  Caller = {c1, c2}
  Fingerprint = {f1, f2}
  Hot = {h1, h2}
  MaxCached = 1
  OpenFaults = {"create"}
  ConnectFaults = FALSE
  None = None
INVARIANTS CacheIsLive
PROPERTIES WaitingEnds ClosingEnds

SPECIFICATION Spec
CONSTANTS
  Workspace = {w1, w2}
  Engine = {e1, e2, e3, e4}
  Caller = {c1, c2}
  Fingerprint = {f1, f2}
  Hot = {h1}
  MaxCached = 1
  OpenFaults = {"create", "setup"}
  ConnectFaults = TRUE
  None = None
SYMMETRY Symmetry
INVARIANTS TypeOK NoCloseUnderConnection SingleInstance DrainingIsTracked CacheIsLive
PROPERTIES NoWorkAfterClose

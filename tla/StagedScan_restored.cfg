\* One analysis, and an edit that is taken back.
SPECIFICATION StagedSpec
CONSTANTS
  a = a  b = b  c = c  p = p
  k1 = k1  k2 = k2  o1 = o1  o2 = o2
  None = None
  Scans = {a, b, c}
  Pruners = {p}
  Keys = {k1, k2}
  Objects = {o1, o2}
  Outputs <- Shared
  MaxRots = 1
  MaxCrashes = 1
  Files = {1}
  Language <- GoAndPython
  Enabled = {"go-syntax"}
  Contents = {1, 2}
  MaxScans = 2
  MaxEdits = 2
  MaxFailures = 0
INVARIANTS CachedIsGenuine
CHECK_DEADLOCK FALSE

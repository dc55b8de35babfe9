CONSTANTS
  j1 = j1  j2 = j2  c1 = c1  c2 = c2  c3 = c3  r1 = r1  r2 = r2  g1 = g1  g2 = g2
  Jobs = {j1, j2}
  Kinds = {"command"}
  Requests = {}
  Callers = {c1, c2}
  MaxJobs = 1
  Portable = FALSE
  Posts = {j1, j2, c3}
  MaximumConcurrent = 2
  None = None
SPECIFICATION MCSpec
SYMMETRY Symmetry
INVARIANTS TableSound ReportsSound ServersSound SlotsHeld
PROPERTY ConnectionsSound
CHECK_DEADLOCK FALSE

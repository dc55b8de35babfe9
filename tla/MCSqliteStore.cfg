SPECIFICATION MCSpec
CONSTANTS
  c1 = c1  c2 = c2  c3 = c3
  d1 = d1  d2 = d2
  b1 = b1  b2 = b2  b3 = b3
  p1 = p1  p2 = p2
  s1 = s1  s2 = s2
  r1 = r1  r2 = r2
  w1 = w1  w2 = w2
  Handles = {d1, d2}
  Clients = {c1, c2, c3}
  Home <- MCHome
  Builds = {b1, b2, b3}
  Repos = {p1}
  SnapIds = {s1, s2}
  Records = {r1}
  Refs <- MCRefs
  None = None
  MaxOpen = 2
  MaxRecords = 2
SYMMETRY Symmetry
CHECK_DEADLOCK FALSE
INVARIANTS NoLeakedLease IInv BackendsSound
PROPERTIES ImplementsContract BuildsOwned StoreStepsSound

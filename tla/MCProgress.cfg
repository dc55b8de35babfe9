SPECIFICATION MCSpec
CONSTANTS
  p1 = p1  p2 = p2  p3 = p3
  d1 = d1  d2 = d2
  g1 = g1  g2 = g2
  a = a  r1 = r1
  None = None
  Samples = 3
  Attempts = 3
  Kills = 2
  Lag = 2
  MaxFailures = 2
CHECK_DEADLOCK FALSE
INVARIANTS GuardSound
PROPERTIES LeftoversGo RequestsEnd

SPECIFICATION MCSpec
CONSTANTS
  p1 = p1  p2 = p2  p3 = p3  r1 = r1
  g1 = g1  g2 = g2  g3 = g3  g4 = g4
  a = a  b = b  u = u
  None = None
  Publishers = {p1, p2, p3}
  Dirs = {g1, g2, g3, g4}
  UserDirs = {u}
  NoDir = NoDir
  MaxStrikes = 3
  MaxEdits = 2
  Scans = {p1, p2, p3}
  SnapIds = {g1, g2, g3}
  Options = {{}, {"database"}, {"state"}, {"database", "state"}}
  MaxFaults = 2
  Sources = {a, b}
  Gens = {g1, g2, g3}
  Writers = {p1, p2, p3}
  Readers = {r1}
  Nothing = Nothing
  MaxMishaps = 2
  MaxPolicies = 1
CHECK_DEADLOCK FALSE
SYMMETRY Symmetry
INVARIANTS ScanSound OutputSound GenerationsSound
PROPERTIES StepsSound

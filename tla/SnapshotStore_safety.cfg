SPECIFICATION Spec
CONSTANTS
  Txns = {t1, t2}
  Admins = {a1}
  SnapIds = {s1}
  Bundles = {b1, b2}
  None = None
  MaxMishaps = 1
SYMMETRY Symmetry
CHECK_DEADLOCK FALSE
INVARIANTS
  IInv
  LiveBuildKept
  PublishedComplete
  CurrentPublished
PROPERTIES
  PublishedForever
  RemovalUnderLease

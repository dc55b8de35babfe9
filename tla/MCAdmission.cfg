SPECIFICATION MCSpec
CONSTANTS
  Pids = {1, 2, 3, 4}
  Workload = {3}
  Cpus = 1
  Share <- MCShare
  MaxClock = 3
  MaxStarts = 2
  Inodes = {i1, i2}
  NoInode = none
  MaxChanges = 4
  Tids = {1, 2, 3}
  Passes = 2
  MaxDrifts = 1
  Calls = {g1, g2}
  Batch = 2
  Needs <- Requests
  Top = 15
  MaxRSS = 10
  Dimensions = {1, 2}
  MaxAlterations = 2
  ArgLists <- CommandLines
  Operand = operand
  Dashes = dashes
  i1 = i1  i2 = i2  none = none  operand = operand  dashes = dashes  g1 = g1  g2 = g2
  p1 = p1  p2 = p2  good = good  bad = bad  copy = copy
INVARIANTS AdmissionSound IndexesSound ProviderSound
PROPERTY AdmissionMeasured
CHECK_DEADLOCK FALSE

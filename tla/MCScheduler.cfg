SPECIFICATION MCSpec
CONSTANTS
  s1 = s1
  s2 = s2
  s3 = s3
  Stages = {s1, s2, s3}
  Order <- MCOrder
  None = None
  Workers = 2
  Dims <- MCDims
  Budgets <- MCBudgets
  Cost <- MCCost
  StageIds = {s1, s2}
  NoStage = None
  MaxAttempts = 2
  MaxRecords = 8
CHECK_DEADLOCK FALSE
INVARIANTS BatchesSound OutcomeProven JournalSound
PROPERTIES StopsAfterFailure Returns

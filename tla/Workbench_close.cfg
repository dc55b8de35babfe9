CONSTANTS
  Jobs = {j1, j2}
  Kinds = {"command"}
  Requests = {}
  Callers = {c1}
  MaxJobs = 1
  Portable = FALSE
  None = None
SPECIFICATION Spec
INVARIANT CloseProves
CHECK_DEADLOCK FALSE

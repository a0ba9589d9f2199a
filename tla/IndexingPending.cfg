\* A dataset that failed is in no index.
SPECIFICATION Spec
CONSTANTS
  u = u
  f1 = f1
  None = None
  Messages = {u}
  Uploads = {u}
  Profilers = {f1}
  Deleters = {}
  Prefetch = 2
  Outcomes = {"rows", "empty", "tooBig", "error"}
  MayReject = FALSE
  Lag = FALSE
  MaxFaults = 0
INVARIANTS
  NotProfiledPending
CHECK_DEADLOCK FALSE

\* Elasticsearch fails, or the profiler dies, between two deletions.
SPECIFICATION Spec
CONSTANTS
  m1 = m1
  m2 = m2
  f1 = f1
  None = None
  Messages = {m1, m2}
  Uploads = {}
  Profilers = {f1}
  Deleters = {}
  Prefetch = 2
  Outcomes = {"rows"}
  MayReject = FALSE
  Lag = FALSE
  MaxFaults = 1
SYMMETRY Symmetry
INVARIANTS
  NoOrphans
CHECK_DEADLOCK FALSE

\* One profiler that prefetches, every outcome, refused documents and a fault.
SPECIFICATION FairSpec
CONSTANTS
  u = u
  m1 = m1
  f1 = f1
  None = None
  Messages = {u, m1}
  Uploads = {u}
  Profilers = {f1}
  Deleters = {}
  Prefetch = 2
  Outcomes = {"rows", "empty", "tooBig", "error"}
  MayReject = TRUE
  Lag = FALSE
  MaxFaults = 1
INVARIANTS
  TypeOK
  OneAtATime
PROPERTIES
  AnnouncedIndexed
  Processed
  Resolved
CHECK_DEADLOCK FALSE

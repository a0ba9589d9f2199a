\* An upload, its reprocessing and its deletion on two profilers, with a fault.
SPECIFICATION Spec
CONSTANTS
  u = u
  m1 = m1
  f1 = f1
  f2 = f2
  d1 = d1
  None = None
  Messages = {u, m1}
  Uploads = {u}
  Profilers = {f1, f2}
  Deleters = {d1}
  Prefetch = 1
  Outcomes = {"rows", "empty", "error", "tooBig"}
  MayReject = FALSE
  Lag = TRUE
  MaxFaults = 1
SYMMETRY Symmetry
INVARIANTS
  Settles
  Accounted
  IInv
  OrphansExplained
CHECK_DEADLOCK FALSE

\* Requests of two apiservers and a profiler on a dataset that needs a conversion.
SPECIFICATION Spec
CONSTANTS
  Datasets = {d}
  Stored = {}
  Converted = {d}
  DataIds = {}
  h1 = h1
  h2 = h2
  h3 = h3
  s1 = s1
  s2 = s2
  Handlers = {h1, h2, h3}
  Threads = {t1}
  Server <- TwoServers
  Endpoints <- TwoKinds
  CreateMayFail = TRUE
  None = None
INVARIANTS
  TypeOK
  IInv
  InputsHeld
  NothingKept
  CircularWaitsExplained
PROPERTIES
  PromisesKept
CHECK_DEADLOCK FALSE

\* Two apiservers wait for each other.
SPECIFICATION Spec
CONSTANTS
  Datasets = {d}
  Stored = {}
  Converted = {d}
  DataIds = {d}
  h1 = h1
  h2 = h2
  h3 = h3
  s1 = s1
  s2 = s2
  Handlers = {h1, h2, h3}
  Threads = {}
  Server <- TwoServers
  Endpoints <- TwoKinds
  CreateMayFail = TRUE
  None = None
INVARIANTS
  NoCircularWait
CHECK_DEADLOCK FALSE

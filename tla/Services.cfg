\* Each component that shares no state with the others, on an instance of its own.
SPECIFICATION Spec
CONSTANTS
  b1 = b1
  b2 = b2
  c1 = c1
  d1 = d1
  d2 = d2
  d3 = d3
  e1 = e1
  e2 = e2
  e3 = e3
  f0 = f0
  f1 = f1
  f2 = f2
  q1 = q1
  q2 = q2
  r1 = r1
  r2 = r2
  Callers = {c1, c2}
  Timeouts = {"zero", "some"}
  MaxLockFaults = 1
  Handlers = {h1, h2, h3}
  Graceful = {h1, h2}
  Listed = {d1, d2}
  Cap = 2
  Attempts = 2
  MaxListEvents = 4
  Entries = {e1, e2, e3}
  CacheOf <- MCCacheOf
  Size <- MCSize
  High = 3
  Low = 2
  Threads = {t1, t2}
  MaxCreations = 3
  Mirrored = {d1, d2, d3}
  Domain <- MCDomain
  Domains <- MCDomains
  MaxPortalEvents = 2
  Records = {r1, r2}
  Files <- MCFiles
  Supported = {"a", "c", "e"}
  MaxZenodoEvents = 2
  Groups = {g1, g2}
  MaxUazEvents = 2
  Asking = {q1, q2}
  Replicas = {p1, p2}
  Concurrent = 2
  MaxQueryFaults = 2
  TextColumns = {b1, b2}
  TextVersions = {v1, v2}
  Deleters = {x1}
  Servers = {w1, w2}
  Contents = {f1, f2}
  Csv <- MCCsv
  Formats = {"csv", "d3m"}
  MaxRequests = 2
  MaxDrops = 2
  Searches = {q1, q2}
  FileOf <- MCFileOf
  Found <- MCFound
  NoData = f0
  HasSession = TRUE
  MaxSearches = 2
  LocalFiles = {f1, f2}
  ColumnsOf <- MCColumnsOf
  MaxFileQueries = 3
  MaxProfiles = 2
INVARIANTS
  TypeOK
  LocksHold
  StopsIdle
  KeepsNewest
  SketchesMatch
  IngestedTruthfully
  ClientsServed
  PagesConsistent
PROPERTIES
  CallsEnd
  CopiesCatchUp
CHECK_DEADLOCK FALSE

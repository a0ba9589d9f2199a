\* Every call returns: lookups against a cleaner that retries.
SPECIFICATION FairSpec
CONSTANTS
  c1 = c1
  c2 = c2
  d1 = d1
  NoFile = NoFile
  Clients = {c1, c2}
  Cleaners = {d1}
  Inodes = {1, 2, 3}
  TempKind = "file"
  CreateMayFail = FALSE
  MayCrash = FALSE
ACTION_CONSTRAINTS
  LowestInode
  Retrying
INVARIANTS
  OneCleanerRobsNobody
PROPERTIES
  CallsEnd
  Served

SPECIFICATION Spec
CHECK_DEADLOCK FALSE
CONSTANTS
  BatchSize = 2
  MinSplit = 2
  MaxRequests = 3
  PageSize = 2
  MaxFailed = 3
  Ranges = 3
  Limit = 9
  Window = 6
  Now = 3
  TopK = 3
  Same = 2
INVARIANTS
  RequestsServed
  ResultsComplete
  TablesKept
  ProfilesCoherent
  SearchesSound

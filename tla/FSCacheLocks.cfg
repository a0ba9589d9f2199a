\* Entries that are directories; creations fail and processes are killed.
SPECIFICATION Spec
CONSTANTS
  c1 = c1
  c2 = c2
  d1 = d1
  d2 = d2
  i1 = i1
  i2 = i2
  i3 = i3
  i4 = i4
  NoFile = NoFile
  Clients = {c1, c2}
  Cleaners = {d1, d2}
  Inodes = {i1, i2, i3, i4}
  TempKind = "dir"
  CreateMayFail = TRUE
  MayCrash = TRUE
SYMMETRY Symmetry
CONSTRAINT UntilBroken
INVARIANTS
  TypeOK
  IInv
  ProtectedUnlessBroken
  ErrorsExplainedUnlessBroken
  NeverStale
PROPERTIES
  ImplementsContract

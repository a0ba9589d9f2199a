\* A reader's entry is removed or changed.
SPECIFICATION Spec
CONSTANTS
  c1 = c1
  c2 = c2
  d1 = d1
  i1 = i1
  i2 = i2
  i3 = i3
  i4 = i4
  NoFile = NoFile
  Clients = {c1, c2}
  Cleaners = {d1}
  Inodes = {i1, i2, i3, i4}
  TempKind = "file"
  CreateMayFail = TRUE
  MayCrash = FALSE
SYMMETRY Symmetry
INVARIANTS
  ReadersProtected

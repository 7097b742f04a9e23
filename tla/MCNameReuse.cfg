CONSTANTS
  Procs = {p1, p2}
  Inodes = {i1, i2, i3}
  NoProc = NoProc
  NoFile = NoFile
  MaxIncs = 3
  MaxCrashes = 1
  LateUnlink = TRUE
SPECIFICATION Spec
SYMMETRY Symmetry
INVARIANT NameKept
CHECK_DEADLOCK FALSE

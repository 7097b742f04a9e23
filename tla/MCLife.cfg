CONSTANTS
  Procs = {p1, p2}
  Inodes = {i1, i2, i3}
  NoProc = NoProc
  NoFile = NoFile
  MaxIncs = 3
  MaxCrashes = 1
  LateUnlink = FALSE
  Callers = {c1, c2, c3}
  MaxWatches = 2
  MaxFaults = 1
SPECIFICATION MCSpec
SYMMETRY MCSymmetry
INVARIANTS LockedOnce NameKept OpenerSeesComplete 
INVARIANTS LifeKept ExitIsReal CallComes
CHECK_DEADLOCK FALSE

CONSTANTS
  p1 = p1
  p2 = p2
  p3 = p3
  Producers = {p1, p2, p3}
  Local = {p3}
  Closable = {p1, p2, p3}
  NoProc = NoProc
  Capacity = 32
  Lengths = {0, 8}
  NSlots = 2
  Limits = {1, 2}
  Start = 24
  MaxClaims = 3
  MaxCrashes = 1
SPECIFICATION MCSpec
SYMMETRY Symmetry
INVARIANTS CursorOrder PayloadIntact FreeSpaceIsZero  AttributableHere
PROPERTY RefinesLog

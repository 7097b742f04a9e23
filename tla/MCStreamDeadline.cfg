CONSTANTS
  Writers = {w1}
  WriteLen = 3
  Limit = 2
  ReadLens = {3}
  Room = 2
  MaxWrites = 1
  MaxSets = 2
  Times = {"none", "later"}
  Mortal = FALSE
SPECIFICATION Spec
INVARIANT EveryByteRead
CHECK_DEADLOCK FALSE

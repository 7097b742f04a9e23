CONSTANTS
  s1 = s1
  s2 = s2
  Senders = {s1, s2}
  Capacity = 2
  Sizes = {1, 2}
  Kinds = {"send", "claim"}
  Backlog = 1
  PipeBuf = 2
  PipeCap = 4
  MaxSends = 2
  MaxCrashes = 1
  Mortal = {s1, s2, "receiver"}
  Closable = {s1, s2, "receiver"}
  Unlinks = TRUE
  Cancels = TRUE
SPECIFICATION MCSpec
SYMMETRY Symmetry
INVARIANTS WaitersCounted  GoneIsGone SendersWoken
CHECK_DEADLOCK FALSE

SPECIFICATION FairSpec
CONSTANTS
  Senders = {s1, s2}
  Capacity = 2
  Sizes = {1, 2}
  Kinds = {"claim"}
  Backlog = 0
  PipeBuf = 2
  PipeCap = 4
  MaxSends = 2
  MaxCrashes = 1
  Mortal = {s1}
  Closable = {}
  Unlinks = FALSE
  Cancels = FALSE
PROPERTY DeadClaimNoWedge
CHECK_DEADLOCK FALSE

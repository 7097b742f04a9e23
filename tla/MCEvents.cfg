SPECIFICATION MCSpec
CONSTANTS
  c1 = c1
  c2 = c2
  Waiters = {w1, w2}
  Readers = {r1, r2}
  PipeBuf = 2
  PipeCap = 2
  Bursts = {3}
  MaxWaits = 3
  MaxSignals = 1
  Closes = TRUE
INVARIANTS TokensKept WaitsKnown NoFalseFailure HandlesKept
PROPERTIES CloseReleases WaitsMet
CHECK_DEADLOCK FALSE

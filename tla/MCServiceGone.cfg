CONSTANTS
  Clients = {c1}
  MaxServes = 1
  MaxCalls = 1
  MaxDeaths = 1
SPECIFICATION Spec
INVARIANT ClientReported
CHECK_DEADLOCK FALSE

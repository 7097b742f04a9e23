CONSTANTS
  c1 = c1
  c2 = c2
  w1 = w1
  w2 = w2
  Clients = {c1, c2}
  MaxServes = 2
  MaxCalls = 2
  MaxDeaths = 1
SPECIFICATION MCSpec
INVARIANTS   WritesWhole DeadlineReal CheckSound CodecsAgree
PROPERTIES ReplyIsMine   OpsEnd
CHECK_DEADLOCK FALSE

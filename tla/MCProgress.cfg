CONSTANTS
  p1 = p1
  p2 = p2
  Producers = {p1, p2}
  Local = {}
  Closable = {}
  NoProc = NoProc
  Capacity = 32
  Lengths = {0}
  NSlots = 2
  Limits = {1}
  Start = 24
  MaxClaims = 2
  MaxCrashes = 1
  s1 = s1
  s2 = s2
  Senders = {s1, s2}
  Room = 2
  Sizes = {1, 2}
  Kinds = {"send", "claim"}
  PipeBuf = 2
  PipeCap = 4
SPECIFICATION MCSpec
PROPERTIES NoWedge SenderUnparks SentIsReceived
CHECK_DEADLOCK FALSE

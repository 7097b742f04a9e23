CONSTANTS
  Ops = {o1, o2, o3}
  Closers = {c1, c2}
  NoOne = NoOne
SPECIFICATION FairSpec
INVARIANT NoUseAfterUnmap
PROPERTIES  RefinesGate CloseReturns

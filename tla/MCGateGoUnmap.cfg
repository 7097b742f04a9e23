CONSTANTS
  Ops = {o1, o2}
  Closers = {c1}
  NoOne = NoOne
SPECIFICATION Spec
INVARIANT NoUseAfterUnmap

SPECIFICATION Spec
CONSTANTS
  c1 = c1
  c2 = c2
  w1 = w1
  w2 = w2
  k1 = k1
  k2 = k2
  Consumers = {c1, c2}
  Waiters = {w1, w2}
  Clocks = {k1, k2}
  Graphs <- MCGraphs
  Settings <- MCSprints
  MaxRuns = 4
  None = None
INVARIANT NoSelfTrigger
CHECK_DEADLOCK FALSE

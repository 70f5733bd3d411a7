SPECIFICATION Spec
CONSTANTS
  Keys = {k1, k2}
  Callers = {c1, c2, c3}
  Mutexes = {m1, m2, m3}
  None = None
INVARIANTS
  TypeOK
  MutualExclusion
  NoStaleEntry
  IInv
PROPERTIES
  ImplementsKeyedMutex

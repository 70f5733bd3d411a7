SPECIFICATION FairSpec
CONSTANTS
  c1 = c1
  c2 = c2
  c3 = c3
  r1 = r1
  r2 = r2
  v1 = v1
  v2 = v2
  k1 = k1
  Conns = {c1, c2, c3}
  Replicas = {r1, r2}
  Convs = {v1, v2}
  Keys = {k1}
  Home = r1
  None = None
  Settings <- MCSettings
INVARIANTS
  TypeOK
  NoOrphan
  RunsLinked
PROPERTIES
  Converges
  WatchdogSpares
  TurnsEnd
CHECK_DEADLOCK FALSE

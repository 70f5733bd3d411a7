SPECIFICATION Spec
CONSTANTS
  c1 = c1
  c2 = c2
  r1 = r1
  Conns = {c1, c2}
  Replicas = {r1}
  Settings <- MCSettings
  None = None
INVARIANTS
  ConnectedIsOnline
CHECK_DEADLOCK FALSE

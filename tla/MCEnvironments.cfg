SPECIFICATION FairSpec
CONSTANTS
  u1 = u1
  u2 = u2
  u3 = u3
  r1 = r1
  n1 = n1
  t1 = t1
  t2 = t2
  b1 = b1
  Calls = {u1, u2, u3}
  Replicas = {r1}
  Jobs = {j1}
  Turns = {t1, t2}
  Profiles = {p}
  Profile <- OneProfile
  Reapers = {n1}
  Reconcilers = {b1}
  Settings <- MCSettings
  Lifespan = 4
  Bare = Bare
  None = None
INVARIANTS
  TypeOK
  NotStranded
  RowNamesContainer
PROPERTIES
  Settles
  SparesWorkers
CHECK_DEADLOCK FALSE

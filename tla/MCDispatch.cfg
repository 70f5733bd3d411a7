SPECIFICATION Spec
CONSTANTS
  Conversations = {a, b, c}
  Chats = {c}
  Calls = {t1, t2, t3}
  Replicas = {r1, r2}
  Kinds = {"assign", "start", "update"}
  OnBusy = {"queue"}
  InitialLimit = 1
  Limits = {2}
  FailingSteps = {"publishing", "counting", "dequeueing"}
  MaxErrors = 1
  MaxCrashes = 1
  None = None
SYMMETRY QueueSymmetry
INVARIANTS
  TypeOK
  LimitRespected
  QueuedIsRecorded
  IInv
CHECK_DEADLOCK FALSE

SPECIFICATION Spec
CONSTANTS
  Conversations = {a, b}
  Chats = {b}
  Calls = {t1, t2, t3}
  Replicas = {r1}
  Kinds = {"assign", "start", "resume", "stop"}
  OnBusy = {"queue", "force"}
  InitialLimit = 1
  Limits = {1}
  FailingSteps = {"publishing", "telling"}
  MaxErrors = 1
  MaxCrashes = 0
  None = None
SYMMETRY QueueSymmetry
INVARIANTS
  RunningIsWork
CHECK_DEADLOCK FALSE

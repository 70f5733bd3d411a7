SPECIFICATION FairSpec
CONSTANTS
  Conversations = {a, b, c}
  Chats = {}
  Calls = {t1, t2, t3}
  Replicas = {r1}
  Kinds = {"assign", "resume"}
  OnBusy = {"queue", "force"}
  InitialLimit = 1
  Limits = {1}
  FailingSteps = {}
  MaxErrors = 0
  MaxCrashes = 0
  None = None
INVARIANTS
  DispatchedOnce
PROPERTIES
  QueueAdvances
CHECK_DEADLOCK FALSE

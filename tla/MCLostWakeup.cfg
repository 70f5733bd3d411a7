SPECIFICATION FairSpec
CONSTANTS
  Conversations = {a, b}
  Chats = {}
  Calls = {t1, t2}
  Replicas = {r1}
  Kinds = {"assign"}
  OnBusy = {"queue"}
  InitialLimit = 1
  Limits = {1}
  FailingSteps = {}
  MaxErrors = 0
  MaxCrashes = 0
  None = None
PROPERTIES
  QueuedIsDispatched
CHECK_DEADLOCK FALSE

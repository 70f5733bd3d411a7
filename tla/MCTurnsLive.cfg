SPECIFICATION FairSpec
CONSTANTS
  Conversations = {c1, c2}
  Chats = {c1}
  EnvBacked = {c2}
  Turns = {t1, t2}
  Controls = {}
  Reaper = Reaper
  MaxConcurrent = 1
  MaxCrashes = 1
  MaxErrors = 1
  None = None
INVARIANTS
  WithinLimit
  RunningRowHasTurn
  IInv
PROPERTIES
  TriggersHandled
  IdleSandboxReclaimed
CHECK_DEADLOCK FALSE

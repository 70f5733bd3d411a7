SPECIFICATION Spec
CONSTANTS
  Conversations = {c1, c2}
  Chats = {c1}
  EnvBacked = {c2}
  Turns = {t1, t2}
  Controls = {w1, w2}
  Reaper = Reaper
  MaxConcurrent = 2
  MaxCrashes = 0
  MaxErrors = 0
  None = None
SYMMETRY TurnSymmetry
INVARIANTS
  TypeOK
  CachedIndexFresh
  SandboxInUseStaysUp
  OneOwner
CHECK_DEADLOCK FALSE

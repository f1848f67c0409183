CONSTANTS
  NoOne = NoOne
  Callers = {a, b}
  Methods = {"unlock", "set_lock_sound", "sync_time"}
  STEPS = 2
  TOKENS = 4
  UNLOCK_KEY = 3
  THRESHOLD = 1
  Skews = {2}
  MaxCalls = 3
  MaxGiveUps = 2
  MaxDrops = 1
  MaxTime = 2
SPECIFICATION Spec
SYMMETRY Symmetry
INVARIANTS
  TypeOK
  HandshakeShieldsTheReply
PROPERTIES
  ReturnMeansStored
  SyncBoundsTheError
CHECK_DEADLOCK FALSE

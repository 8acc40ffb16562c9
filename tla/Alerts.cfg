SPECIFICATION Spec
CONSTANTS
  k1 = k1
  k2 = k2
  t1 = t1
  Keys <- KeySet
  Threads <- ThreadSet
  None = None
  Capacity = 2
  Cooldown = 2
  MaxAttempts = 2
  MaxLag = 1
  MaxLogs = 4
INVARIANTS Accounted
PROPERTIES Throttled Story Settled
CHECK_DEADLOCK FALSE

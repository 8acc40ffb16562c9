\* Two requests and a background task share a pool of two connections, one of
\* which may stay idle.  A day is two ticks.
SPECIFICATION FairSpec
CONSTANTS
  Processes <- MCProcesses
  Requests = {"r1", "r2"}
  Serves <- MCServes
  PoolSize = 1
  MaxOverflow = 1
  PingAfter = 1
  DropAfter = 1
  Day = 2
  At = 0
  MaxNow = 2
  MaxSetBacks = 1
INVARIANTS NoneHeldWhileWaiting  RoleHeld DisposedLast
PROPERTIES OncePerDay Stops
CHECK_DEADLOCK FALSE

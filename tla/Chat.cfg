SPECIFICATION FairSpec
CONSTANTS
  c1 = c1
  Customers = {c1}
  Anonymous = Anonymous
  Absent = Absent
  MaxTurns = 2
  MaxFaults = 1
  Cap = 2
  MaxRounds = 2
  MaxTries = 2
INVARIANTS
  OwnData
  
  
PROPERTIES
  FullStaysFull
  
  Settled
CHECK_DEADLOCK FALSE

SPECIFICATION FairSpec
CONSTANTS
  r1 = r1  r2 = r2  c1 = c1 
  None = None
  Replicas = {r1, r2}
  Calls = {c1}
  Last = 1
  MaxStarts = 2
  MaxFaults = 1
INVARIANTS
  ServesWholeSchema
  StopLosesOnlyLate
PROPERTIES
  SomeoneComesUp
  StopEnds
CHECK_DEADLOCK FALSE

SPECIFICATION Spec
CONSTANTS
  MaxRuns = 2
  Codes = {c1}
  Devices = {d1, d2}
  MaxOpenCodes = 1
  FreeAttempts = 1
  MaxPosts = 2
  MaxEvents = 1
INVARIANT HandoffInv
 
 
CHECK_DEADLOCK FALSE

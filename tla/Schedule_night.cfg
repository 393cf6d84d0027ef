SPECIFICATION Spec
CONSTANTS
  Day = 8
  WindowStart = 6
  WindowEnd = 3
  Offsets = {0, 1, 3}
  Interval = 5
  OverdueSpan = 9
  OverdueCooldown = 8
  Lead = 1
  TickEvery = 0
  Horizon = 16
  Env = {}
INVARIANT ScheduleInv
PROPERTY StartsInWindow
PROPERTY RemindersSpaced
 
CHECK_DEADLOCK FALSE

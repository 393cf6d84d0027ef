SPECIFICATION Spec
CONSTANTS
  Day = 8
  WindowStart = 2
  WindowEnd = 7
  Offsets = {0, 2}
  Interval = 5
  OverdueSpan = 9
  OverdueCooldown = 8
  Lead = 2
  TickEvery = 1
  Horizon = 11
  Env = {"slow_discovery", "late_ticks", "aborted_ticks"}
INVARIANT AttemptsBounded
CHECK_DEADLOCK FALSE

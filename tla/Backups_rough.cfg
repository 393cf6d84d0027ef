SPECIFICATION Spec
CONSTANTS
  Devices = {d1}
  MaxRuns = 3
  MaxQueue = 2
  Env = {"quick_restart", "busy_queue", "stalled_beat", "racing_remove", "db_fault"}
INVARIANT OneWriter
INVARIANT GenerationsWhole

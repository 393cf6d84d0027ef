SPECIFICATION SchemaFairSpec
CONSTANTS
  Procs = {web, worker}
  Release = 4
  Baseline = 2
  StartVersions = {0, 1, 2, 3, 4, 5}
  MaxClock = 4
  SameSecond = FALSE
  MaxFaults = 2
INVARIANT SchemaTypeOK
INVARIANT StepsMatchVersion
INVARIANT StartedOnRelease
INVARIANT OriginalKept
PROPERTY Settled
CHECK_DEADLOCK FALSE

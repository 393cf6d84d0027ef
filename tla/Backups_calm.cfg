SPECIFICATION FairSpec
CONSTANTS
  Devices = {d1}
  MaxRuns = 3
  MaxQueue = 2
  Env = {}
INVARIANT TypeOK
INVARIANT WriterHasRunningRow
INVARIANT NoStuckRow
PROPERTY SucceededHasGeneration
PROPERTY LedgerSpec
PROPERTY RunningEnds
PROPERTY DeviceFreed

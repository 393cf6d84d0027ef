SPECIFICATION EngineSpec
CONSTANTS
  PasscodeTimeout = 1
  StallTimeout = 2
  MaxCalls = 3
  MaxSilence = 5
  MaxEvents = 1
INVARIANT CallsInv
INVARIANT AnswerIsTrue
PROPERTY BackupEnds
CHECK_DEADLOCK FALSE

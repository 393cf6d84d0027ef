SPECIFICATION Spec
CONSTANTS
  PeriodLength <- MCPeriodLength
  Policies <- MCPolicies
  CheckedPolicies <- MCCheckedPolicies
  Times <- MCTimes
  Sample <- MCSample
  MaxQueue = 1
  MaxEvents = 2
 
INVARIANT PlanMatchesRestic
PROPERTY PinnedBeforePlanStays
PROPERTY ChecksGoOn

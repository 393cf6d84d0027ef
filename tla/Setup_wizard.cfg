SPECIFICATION Spec
CONSTANTS
  MaxClicks = 2
  MaxQueue = 1
  MaxEvents = 1
 
PROPERTY MarkAnswered
 
CHECK_DEADLOCK FALSE

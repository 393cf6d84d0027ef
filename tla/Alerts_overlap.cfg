SPECIFICATION Spec
CONSTANTS
  phone = phone
  admin = admin
  laptop = laptop
  tablet = tablet
  Devices <- MCDevices
  Users <- MCUsers
  Subscriptions <- MCSubscriptions
  SubscriberOf <- MCSubscriberOf
  PushReach <- MCPushReach
  Cooldown = 2
  MaxAlerts = 2
  MaxClock = 2
  Env = {}
SYMMETRY Symmetry
INVARIANT VerdictsTrue
 
CHECK_DEADLOCK FALSE

SPECIFICATION Spec
CONSTANTS
  WifiCapacity = 3
  TimerQueueLength = 1
  MaxTroubles = 3
  MaxOwnRetries = 1
INVARIANTS
  TypeOK
  NetworkEventsAlternate
  RetryScheduled
  FsmFollowsLink
PROPERTIES
  KeepsTrying
  UpIsNoticed
CHECK_DEADLOCK FALSE

SPECIFICATION Spec
CONSTANTS
  LoopCapacity = 2
  TxCapacity = 1
  CommandTopics = {t1, t2}
  MaxTroubles = 2
INVARIANTS
  TypeOK
  StartFindsNothingRunning
  ServicesFollowClient
PROPERTIES
  ComesUp
CHECK_DEADLOCK FALSE

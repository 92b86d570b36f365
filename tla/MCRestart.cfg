SPECIFICATION Spec
CONSTANTS
  LoopCapacity = 2
  TxCapacity = 1
  CommandTopics = {t1}
  MaxTroubles = 2
INVARIANT StartedOnceUp
CHECK_DEADLOCK FALSE

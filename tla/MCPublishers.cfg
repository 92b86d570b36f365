SPECIFICATION Spec
CONSTANTS
  LoopCapacity = 2
  TxCapacity = 1
  CommandTopics = {t1}
  MaxTroubles = 2
PROPERTY DismissedPublishersEnd
CHECK_DEADLOCK FALSE

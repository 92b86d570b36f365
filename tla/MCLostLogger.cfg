SPECIFICATION Spec
CONSTANTS
  NONE = NONE
  DELETED = DELETED
  Publishers = {"publisher"}
  Displays = {}
  Deletable = {"mqtt_task"}
  ResponseCapacity = 1
  MaxSamples = 2
  MaxDeletions = 1
PROPERTY
  CallbackNeverBlocked
CHECK_DEADLOCK FALSE

SPECIFICATION Spec
CONSTANTS
  NONE = NONE
  DELETED = DELETED
  Publishers = {"publisher"}
  Displays = {}
  Deletable = {"mqtt_task"}
  ResponseCapacity = 1
  MaxSamples = 2
  MaxDeletions = 1
INVARIANTS
  TypeOK
  CopiesWhole
PROPERTIES
  ShownForward
  ImplementsSnapshotStore
  AnswersTaken
  HandlersReturn
CHECK_DEADLOCK FALSE

SPECIFICATION Spec
CONSTANTS
  LoopCapacity = 2
  AlertCapacity = 2
  CoreEvents = {"FAULT_LOW_PRESSURE", "REGEN_STARTED"}
  MaxFailures = 3
  MaxEvents = 3
INVARIANTS
  TypeOK
  RunningHasItsNeeds
  AllOrNothing
PROPERTIES
  SetupEnds
  AlertsInOrder
  AlertsDrain
CHECK_DEADLOCK FALSE

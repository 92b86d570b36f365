SPECIFICATION Spec
CONSTANTS
  ClockSize = 5
  MaxRegenTime = 3
  MaxTurn = 2
  CommandCapacity = 2
  MaxRequests = 1
  MaxSensorChanges = 2
INVARIANTS
  TypeOK
  TimerExact
PROPERTIES
  ImplementsRegenCycle
  StartInterlock
  CycleEnds

SPECIFICATION Spec
CONSTANTS
  input = input
  state = state
  coil = coil
  can = can
  setpoint = setpoint
  report = report
  unknown = unknown
  NONE = NONE
  TagId = {coil, can, setpoint, report}
  Registry <- MCRegistryOfCommands
  Access <- MCAccess
  TopicType <- MCTopicType
  Source <- MCSource
  DataType <- MCDataType
  Address <- MCAddress
  Quantity <- MCQuantity
  FunctionCode <- MCFunctionCode
  CoreState = NONE
  Arrivals <- MCArrivalsOfCommands
  DispatchCapacity = 2
  ResponseCapacity = 1
  ModbusQueueLimit = 1
  SubscriberCapacity = 1
  MaxSample = 1
  MaxCommands = 2
INVARIANTS
  RoutesApart
  OnlyCommandsExecuted
  CommandsInOrder
PROPERTIES
  LostOnlyWhenGivenUp
  CommandsSettle

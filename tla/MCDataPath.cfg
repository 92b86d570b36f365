SPECIFICATION SafeSpec
CONSTANTS
  input = input
  state = state
  coil = coil
  can = can
  setpoint = setpoint
  report = report
  unknown = unknown
  NONE = NONE
  TagId = {input, coil, state}
  Registry <- MCRegistry
  Access <- MCAccess
  TopicType <- MCTopicType
  Source <- MCSource
  DataType <- MCDataType
  Address <- MCAddress
  Quantity <- MCQuantity
  FunctionCode <- MCFunctionCode
  CoreState = state
  Arrivals <- MCArrivals
  DispatchCapacity = 1
  ResponseCapacity = 2
  ModbusQueueLimit = 1
  SubscriberCapacity = 1
  MaxSample = 2
  MaxCommands = 1
INVARIANTS
  TypeOK
  SamplesInOrder
PROPERTIES
  SamplesNeverGoBack
  ImplementsSampledStore

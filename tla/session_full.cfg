SPECIFICATION Spec
CONSTANTS
  MaxServers = 2
  MaxRequests = 2
  ReqLen = 1
  RespLen = 2
  Https = TRUE
  Destinations <- AnyDestination
  Split = TRUE
  Failures <- AnyFailure
  Timeouts = TRUE
  Signals = TRUE
INVARIANTS
  TypeOK
  ManagedExact
  OneServerConnection
  TimerFlag
  OneRead
  ResponseOrdered
  NeverAsserted
  StopWindow

SPECIFICATION TimedSpec
CONSTANTS
  MaxServers = 2
  MaxRequests = 2
  ReqLen = 1
  RespLen = 1
  Https = TRUE
  Destinations <- AnyDestination
  Split = FALSE
  Failures <- AnyFailure
  Timeouts = TRUE
  Signals = TRUE
PROPERTIES
  StopPropagates
  ShutdownCompletes

SPECIFICATION Spec
CONSTANTS
  MaxServers = 1
  MaxRequests = 1
  ReqLen = 1
  RespLen = 2
  Https = FALSE
  Destinations <- ValidDestination
  Split = TRUE
  Failures <- NoFailure
  Timeouts = FALSE
  Signals = FALSE
INVARIANTS
  KeptAliveAfterResponse

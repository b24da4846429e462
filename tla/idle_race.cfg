SPECIFICATION Spec
CONSTANTS
  MaxServers = 2
  MaxRequests = 2
  ReqLen = 1
  RespLen = 1
  Https = FALSE
  Destinations <- ValidDestination
  Split = TRUE
  Failures <- NoFailure
  Timeouts = TRUE
  Signals = FALSE
INVARIANTS
  NeverStranded

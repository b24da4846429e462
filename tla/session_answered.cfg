SPECIFICATION FairSpec
CONSTANTS
  MaxServers = 3
  MaxRequests = 3
  ReqLen = 1
  RespLen = 2
  Https = TRUE
  Destinations <- ValidDestination
  Split = FALSE
  Failures <- Disconnects
  Timeouts = FALSE
  Signals = FALSE
INVARIANTS
  NoFault
PROPERTIES
  RequestAnswered

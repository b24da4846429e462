SPECIFICATION Spec
CONSTANTS
  MaxServers = 3
  MaxRequests = 3
  ReqLen = 2
  RespLen = 2
  Https = TRUE
  Destinations <- AnyDestination
  Split = FALSE
  Failures <- AnyFailure
  Timeouts = TRUE
  Signals = TRUE
INVARIANTS
  RequestForwardedOnce
  ResponseWhole
  TlsBeforeData
  BufferHeld
PROPERTIES
  StoppedIsFinal
  OneExchangeAtATime

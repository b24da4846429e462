SPECIFICATION ProxySpec
CONSTANTS
  ConfPort = 8080
  Failures <- Anything
  MaxConnections = 3
  MaxThrows = 2
  Origins <- SomeOrigins
  Malformed = TRUE
  MaxRequests = 4
INVARIANTS AcceptTargetHeld ManagedAccepted KeepsAccepting RightServer CertificateForHost
PROPERTY SignalStops

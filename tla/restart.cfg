SPECIFICATION ProxySpec
CONSTANTS
  ConfPort = 0
  Failures = {"session"}
  MaxConnections = 3
  MaxThrows = 1
  Origins <- SomeOrigins
  Malformed = TRUE
  MaxRequests = 2
INVARIANT AcceptsIntoCurrent

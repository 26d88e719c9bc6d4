CONSTANTS
  MaxOpen = 3
  MaxSources = 3
SPECIFICATION FairSpec
INVARIANTS RunsOwnCode
PROPERTIES HandshakeSpec CloseReturns StreamIsServed
CHECK_DEADLOCK FALSE

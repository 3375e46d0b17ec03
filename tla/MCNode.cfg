SPECIFICATION Spec
CHECK_DEADLOCK FALSE
CONSTANTS
  MaxStarts = 2
  MaxServers = 2
  MaxSessions = 1
INVARIANT
  NodeOK
PROPERTIES
  NoStrayServer
  ClosedCoreIsReleased

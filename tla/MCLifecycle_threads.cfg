SPECIFICATION LifecycleSpec
CHECK_DEADLOCK FALSE
CONSTANTS
  MaxChanges = 3
  MaxStarts = 2
  MaxFails = 1
  Torn = Torn
  App = {xa}
  Peer = {pa, pb}
  MaxConnections = 1
  MaxCalls = 3
  StopsFirst = FALSE
  NoConn = NoConn
INVARIANTS DiskIsSafe 
PROPERTIES ChangesReachDisk ServerStopReturns

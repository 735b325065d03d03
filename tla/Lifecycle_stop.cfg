SPECIFICATION LifeSpec
CHECK_DEADLOCK FALSE
CONSTANTS
  App = {xa}
  Peer = {pa, pb}
  MaxConnections = 2
  MaxCalls = 4
  StopsFirst = FALSE
  NoConn = NoConn
PROPERTIES StopShutsEstablished

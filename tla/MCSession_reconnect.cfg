SPECIFICATION FairSpec
CONSTANTS
  a1 = a1
  a2 = a2
  c1 = c1
  Nobody = Nobody
  App <- OneApp
  Channel <- OneChannel
  QueueSize = 1
  MaxOps = 3
  MaxSubs = 1
  MaxRequests = 2
  MaxReaders = 2
  MaxConns = 3
INVARIANTS SessionReachesServer OneReader AnsweredOnce
 
CHECK_DEADLOCK FALSE

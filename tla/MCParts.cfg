SPECIFICATION PartsSpec
CHECK_DEADLOCK FALSE
CONSTANTS
  ka = ka
  kb = kb
  NoValue = NoValue
  Conn = {ta, tb}
  Name = {na}
  LockName = lk
  Datum = {ta}
  MaxTopics = 1
  MaxClock = 2
  NoChannel = NoChannel
  Client = {ca, cb}
  Channel = {ka, kb}
  Hash <- HashOfChannel
  MaxTelemetryChannels = 1
  MaxTelemetrySubscribers = 1
  Ttl = 3
  Keepalive = 1
  MaxLost = 1
  NoLine = NoLine
  Worker = {wa, wb}
  HistorySize = 2
  UnreadLogLimit = 2
  MaxLines = 4
  MaxStops = 2
  Topic = {ma, mb}
  Kind = {"Int32", "Int64", "StringList"}
  QueueSize = 2
  MaxRecords = 4
  NoEntry = NoEntry
  Gaps = {0, 1, 7, 9, 12, 40}
  MaxGap = 12
  MinStreak = 2
  Margin = 3
  BusyPoll = 1
  MaxReads = 6
  W8 = 4
  W16 = 5
  W32 = 6
  W64 = 7
  FloatBits = 5
  DoubleBits = 6
  NotANumber = 999
  Sentinel = 13
  Lengths = {0, 1, 15, 16, 32}
  MaxItems = 2
  MaxPuts = 2
  PyThread = {ya, yb}
  Recv = {ra, rb, rc}
  ClosesFirst = TRUE
  MaxPyCalls = 4
  NoThread = NoThread
  Item <- BoundaryItems
  Figure = {da, db}
  MaxListed = 2
  Bad = Bad
  NaN = NaN
  NullPtr = NullPtr
  NoPut = NoPut
INVARIANTS
  OneOwner  LeasesHold  WakeIsHeard 
  PredictionSound   NoStandoff 

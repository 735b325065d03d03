SPECIFICATION Spec
CONSTANTS
  t1 = t1
  t2 = t2
  robot = robot
  d1 = d1
  d2 = d2
  NoValue = NoValue
  Topic <- OneTopic
  BaseName = {robot}
  PubUid = {1}
  SubUid = {1,2}
  DataType = {"double"}
  Datum = {}
  Stamp = {0}
  SubInput <- ToT1Twice
  PropInput <- Plain
  PropUpdate <- None
  UpsertTopic <- None
  SavedTopic <- None
  MaxPerClient = 2
  MaxTopics = 100
  MaxClients = 1
  MaxRestarts = 0
  MaxGeneration = 0
INVARIANT SubscribedAreFed
CHECK_DEADLOCK FALSE

SPECIFICATION ValuesSpec
CONSTANTS
  t1 = t1
  t2 = t2
  robot = robot
  d1 = d1
  d2 = d2
  NoValue = NoValue
  Topic <- TwoTopics
  BaseName = {robot}
  PubUid = {1, 2, 3}
  SubUid = {1, 2, 3}
  DataType = {"double", "string"}
  Datum = {d1}
  Stamp = {0, 1}
  SubInput <- AnySub
  PropInput <- PlainOrPersistent
  PropUpdate <- PersistenceUpdates
  UpsertTopic <- OneTopic
  SavedTopic <- SavedBoth
  MaxPerClient = 2
  MaxTopics = 100
  MaxClients = 2
  MaxRestarts = 1
  MaxGeneration = 2
CHECK_DEADLOCK FALSE
INVARIANTS
  NoDanglingIds HoldAValueUnlessSwitched
PROPERTIES
  GenerationTracksSnapshot

SPECIFICATION FairSpec
CONSTANTS
  Messages = {m1, m2, m3, c1}
  Control = {c1}
  Ids = {i1, i2}
  NoId = NoId
  NoResult = NoResult
  QueueMessages = FALSE
  Disruptions = {"socket", "idle", "disconnected"}
CHECK_DEADLOCK FALSE
PROPERTIES KeepsContract EveryPublishSettles

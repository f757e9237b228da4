SPECIFICATION FairSpec
CONSTANTS
  Messages = {m1, m2, m3}
  Control = {}
  Ids = {i1}
  NoId = NoId
  NoResult = NoResult
  QueueMessages = TRUE
  Disruptions = {"socket", "idle", "clientid"}
CHECK_DEADLOCK FALSE
INVARIANTS ResultIsOwn SettledIsNotSent
PROPERTY ResentInOrder

SPECIFICATION Spec
CONSTANTS
  Messages = {m1, m2, c1}
  Control = {c1}
  Ids = {i1, i2}
  NoId = NoId
  NoResult = NoResult
  QueueMessages = TRUE
  Disruptions = {"socket", "idle", "disconnected", "fallback", "fatal", "clientid", "overlap", "offline", "early"}
CHECK_DEADLOCK FALSE
SYMMETRY Symmetry
INVARIANTS NothingLost DrainedWhenGivenUp

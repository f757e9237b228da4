SPECIFICATION Spec
CONSTANTS
  t1 = t1
  t2 = t2
  None = None
  Transports = {t1, t2}
  FallbackHosts = TRUE
  MaxLostRetries = 1
  Disruptions = {"refused", "unreachable", "socket", "idle", "disconnected", "unavailable", "noerror", "closed",
                 "token", "fatal", "sameturn", "overlap", "authorize"}
SYMMETRY Symmetry
INVARIANTS RetryScheduled ConnectingIsTimed

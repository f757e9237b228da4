SPECIFICATION FairPingSpec
CONSTANTS
  t1 = t1
  t2 = t2
  t3 = t3
  p1 = p1
  p2 = p2
  None = None
  Transports = {t1, t2, t3}
  Pings = {p1, p2}
  FallbackHosts = TRUE
  MaxLostRetries = 1
  Disruptions = {"refused", "unreachable", "socket", "idle", "disconnected"}
INVARIANTS OneTransport ClosedIsQuiet ConnectedIsServed
PROPERTIES TransitionsEnd RoundTripIsOwn PingsEnd

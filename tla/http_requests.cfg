SPECIFICATION PublishSpec
CONSTANTS
  r1 = r1
  r2 = r2
  p = p
  f = f
  alice = alice
  bob = bob
  None = None
  Requests = {r1, r2}
  Hosts <- MCHosts
  RealtimeHosts = {f}
  ClientId = None
  Grants <- MCGrants
  RetryTimeout = 1
  MaxDuration = 0
  TimeToLive = 1
  MaxStarts = 3
  MaxPublishes = 2
  MaxNow = 2
SYMMETRY Symmetry
CHECK_DEADLOCK FALSE
INVARIANT PublishedOnce
PROPERTIES RefusedOnlyAfterRenewal PrimaryComesBack

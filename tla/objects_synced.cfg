SPECIFICATION FairSpec
CONSTANTS
  Maps <- MCMaps
  map = map
  Counters = {counter}
  counter = counter
  Root = root
  Sites = {own, other}
  None = None
  Keys = {k}
  k = k
  Own = own
  Writes <- MCWrites
  Getters = {g}
  Remote <- MCRemote
  MaxInFlight = 1
  MaxOps = 4
  MaxDisruptions = 1
  Disruptions = {"lost", "suspended", "detached", "failed", "resync", "whole", "refused"}
CHECK_DEADLOCK FALSE
INVARIANTS EachOperationOnce SeenWhole ClearedStaysEmpty
PROPERTY WaitsEnd

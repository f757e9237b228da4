SPECIFICATION Spec
CONSTANTS
  Maps <- MCMaps
  Counters = {counter}
  Root = root
  Sites = {a, b}
  None = None
  Keys = {k}
  k = k
  map = map
  counter = counter
  Templates <- MCTemplates
  MaxOps = 3
  MaxEvents = 2
SYMMETRY SiteSymmetry
CHECK_DEADLOCK FALSE
INVARIANTS ShowsWhatItReceived PathsLeadBack
PROPERTY OperationsAreHeard

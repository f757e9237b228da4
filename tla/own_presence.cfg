SPECIFICATION FairSpec
CONSTANTS
  Clients = {c,d}
  None = None
  MaxCalls = 2
  MaxDisruptions = 2
  Disruptions = {"lost", "resumed", "suspended", "closed", "detached", "failed", "refused", "detach", "timeout"}
CHECK_DEADLOCK FALSE
INVARIANTS StaysEntered OwnMembersAreCurrent
PROPERTY EveryCallAnswered

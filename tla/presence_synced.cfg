SPECIFICATION FairSpec
CONSTANTS
  Keys = {a, b}
  None = None
  MaxEvents = 4
  MaxInFlight = 2
  Disruptions = {"cut", "lost", "suspended", "detached", "crash", "stale", "resync"}
INVARIANTS NothingOutlivesTheSync MembersAreTheServers
PROPERTIES EventsTellMembers GetAnswered

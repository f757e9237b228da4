SPECIFICATION FairSpec
CONSTANTS
  MaxMessages = 2
  MaxInFlight = 2
  Disruptions = {"lost", "suspended", "closed", "failed", "error", "update", "denied", "detached", "reattached",
                 "undecodable", "unreadable", "whole", "forgotten", "timeout", "again", "options"}
INVARIANTS PendingIsTimed SuspendedRetries AttachedIsServed NothingGarbled DeliveredOnce
PROPERTY WaitersAnswered

SPECIFICATION FairSpec
CONSTANTS
  MaxAttempts = 1
  Events = {"blip", "dial", "expire", "create", "ice", "path", "cancel"}
  MaxEvents = 2
INVARIANTS TypeOK NoOrphanSocket CandidatesKept ConfigAwaited LinkSurvivesRelay
PROPERTIES CancelledIsQuiet ImplementsRendezvous LostContactIsReported MeetingIsOffered
CHECK_DEADLOCK FALSE

SPECIFICATION FairSpec
CONSTANTS
  Family = {"ipv4", "ipv6"}
  Limit = 2
  Sessions <- SmallSessions
INVARIANTS
  EvidenceStands
  ResultsAreTwoEnded
  NoSocketEscapesClose
PROPERTY
  SessionEnds

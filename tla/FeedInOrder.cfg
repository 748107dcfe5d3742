SPECIFICATION FairFeedSpec
CONSTANTS
  Writers = {1, 2, 3}
  Nodes = {n1}
  Gateways = {g1, g2}
  NoGateway = NoGateway
  Absent = Absent
  PageLimit = 2
  Settle = 2
  MaxAge = 2
  MaxLatency = 1
  MaxClock = 5
  MaxFailures = 1
INVARIANTS
  JournalInv
  OnlyLateSkipped
PROPERTIES
  GoneOverOnce
  EveryChangeIsPassed

SPECIFICATION Spec
CONSTANTS
  MaxIssue = 2
  Filters <- NarrowOrWide
  Proc = {p1, p2}
  Batch = 1
  Overlap = 2
  IndexLag = 1
  Worlds <- Scenarios
  NoOne = NoOne
CHECK_DEADLOCK FALSE
INVARIANTS
  CredentialInv
  NothingLeftBehind
  TokenOfItsQuery
PROPERTIES
  ImportsAdvance
  EveryUpdateArrives

SPECIFICATION Spec
CONSTANTS
  MaxIssue = 2
  Filters <- NarrowOrWide
  Proc = {p1, p2}
  Batch = 2
  Overlap = 2
  IndexLag = 1
  Worlds <- Edited
  NoOne = NoOne
CHECK_DEADLOCK FALSE
INVARIANTS
  FilterCovered

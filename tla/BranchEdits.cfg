SPECIFICATION Spec
CONSTANTS
  MaxNode = 4
  MaxRevision = 7
  Txn = {t1, t2}
  InitialTrees <- Trees
  PayloadRules = {TRUE, FALSE}
SYMMETRY Requests
CHECK_DEADLOCK FALSE
INVARIANTS
  TreeInv
  RootedForest
  HistoryIsCurrent
PROPERTIES
  GuardedEdits
  AcceptedOverClosedWork

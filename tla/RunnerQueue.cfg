SPECIFICATION Spec
CONSTANTS
  MaxCircle = 2
  w1 = w1
  w2 = w2
  Workspace = {w1, w2}
  Home <- Apart
  Runner = {r1, r2}
  Member = {m1, m2}
  Scenarios <- Cases
  Nobody = Nobody
CHECK_DEADLOCK FALSE
INVARIANTS
  QueueInv
PROPERTIES
  ResultsStand
  RemovedStands
  EveryStageGetsItsTurn
  AttemptsEnd

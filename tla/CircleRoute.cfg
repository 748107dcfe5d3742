SPECIFICATION Spec
CONSTANTS
  Steps = {s1, s2, s3}
  Executions = {e1, e2, e3}
  alice = alice
  bob = bob
  Actors <- MCActors
  Runner = Runner
  Nobody = Nobody
  NoStep = NoStep
  Exchange = Exchange
  Offers <- MCOffers
  StageTypes <- MCStageTypes
  MaxStages = 3
  MaxAttempts = 3
SYMMETRY Symmetry
INVARIANTS
  CircleInv
  RouteOrder
PROPERTIES
  ProgressKept
  ResultsAreFinal
  ImplementsSequentialRoute

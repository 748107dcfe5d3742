SPECIFICATION Spec
CONSTANTS
  Actors = {alice, bob}
  Nobody = Nobody
  NoPromise = NoPromise
  Promises <- MCPromises
  StageModes <- MCStageModes
  MaxAttempts = 3
SYMMETRY Symmetry
INVARIANTS ExchangeInv StatisticsReproducible
PROPERTY WinnerStarts

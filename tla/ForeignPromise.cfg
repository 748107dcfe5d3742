SPECIFICATION Spec
CONSTANTS
  Actors = {alice, bob}
  Nobody = Nobody
  NoPromise = NoPromise
  Promises <- MCPromises
  StageModes <- MCStageModes
  MaxAttempts = 2

INVARIANT PromiseOfPerformer

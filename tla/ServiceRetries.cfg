SPECIFICATION Spec
CONSTANTS
  Requests = {r1, r2, r3}
  Keys = {k1, k2}
  Contents = {c1, c2}
  Nothing = Nothing
  Nobody = Nobody
  Others = Others
  MaxRevision = 2
SYMMETRY Symmetry
INVARIANTS TypeOK OneNodePerKey RevisionsDistinct
PROPERTY ImplementsIdempotentCreate

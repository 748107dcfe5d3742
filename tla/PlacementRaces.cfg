SPECIFICATION FairSpec
CONSTANTS
  Callers = {c1, c2}
  Versions = {v1, v2}
  Parents = {p1}
  Nobody = Nobody
  Nothing = Nothing
  MaxAttempts = 2
  MaxOps = 3
INVARIANTS
  PlacementInv
  OneNode
  MappingTellsContent
PROPERTIES
  NodeKept
  RetriesEnd

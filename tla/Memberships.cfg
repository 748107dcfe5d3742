SPECIFICATION Spec
CONSTANTS
  Person = {p1, p2, p3}
  Name = {"ann", "Ann", "bob", "owner"}
  OwnerName = "owner"
  Fold <- Lower
  Workspace = {w1, w2}
  Existing = {w1}
  Request = {q1, q2}
  Scenarios <- Cases
SYMMETRY Alike
CHECK_DEADLOCK FALSE
INVARIANTS
  MembershipInv
  OneActorEach
PROPERTIES
  SameActorAgain
  ImplementsRoster

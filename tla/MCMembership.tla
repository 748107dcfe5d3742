---------------------------- MODULE MCMembership ----------------------------
(* Instances of Membership: a workspace from before authentication and one    *)
(* that is founded; two names that differ in case only and two others.        *)
EXTENDS Membership, TLC

Lower == [n \in Name |-> IF n = "Ann" THEN "ann" ELSE n]

\* Persons and requests are interchangeable, in Init, in Next and in every property.
Alike == Permutations(Person) \cup Permutations(Request)

Old == [name |-> OwnerName, hasAccount |-> TRUE, kind |-> "person"]
Listed(n) == [name |-> n, hasAccount |-> FALSE, kind |-> "person"]

Budget(r, f, i, a, s, c, m, j, e) ==
  [register |-> r, found |-> f, invite |-> i, actor |-> a, service |-> s,
   role |-> c, remove |-> m, join |-> j, expire |-> e]

\* Two that set up at once, open and closed; invitations that cross; leaving
\* and coming back; roles that change under a request; several workspaces.
Cases == {
  [open |-> FALSE, actors |-> <<Old, Listed("ann")>>, left |-> Budget(2, 0, 1, 0, 0, 0, 0, 1, 0)],
  [open |-> TRUE,  actors |-> <<Old>>, left |-> Budget(2, 1, 1, 0, 0, 0, 0, 1, 0)],
  [open |-> FALSE, actors |-> <<Old, Listed("ann"), Listed("bob")>>, left |-> Budget(1, 0, 2, 0, 0, 0, 1, 2, 0)],
  [open |-> FALSE, actors |-> <<Old>>, left |-> Budget(1, 0, 1, 0, 0, 2, 1, 1, 1)],
  [open |-> FALSE, actors |-> <<Old>>, left |-> Budget(1, 0, 1, 1, 1, 0, 0, 1, 0)]}
=============================================================================

----------------------------- MODULE MCWorkTree -----------------------------
(* Instances of WorkTree: trees to start from.  A larger tree starts at a      *)
(* later revision and has fewer steps to the bound.                            *)
EXTENDS WorkTree, TLC

Planned(f, r) == [parent |-> f, root |-> [n \in DOMAIN f |-> 1],
                  status |-> [n \in DOMAIN f |-> "planned"], revision |-> r]

\* The goal is at work and what it consists of is accepted.
Ripe == [parent |-> <<0, 1>>, root |-> <<1, 1>>, revision |-> 5,
         status |-> <<"started", "closed">>]

\* A chain to which a node may be added, the same with a sibling of 2.
Trees == {Planned(<<0, 1, 2>>, 4), Planned(<<0, 1, 2, 1>>, 5), Ripe}
OneTask == {Planned(<<0, 1>>, 2)}
Requests == Permutations(Txn)
=============================================================================

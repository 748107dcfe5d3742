--------------------------- MODULE MCServiceCommands ---------------------------
(* Three requests under two keys with two contents for TLC. *)
EXTENDS ServiceCommands, TLC

Symmetry == Permutations(Requests) \cup Permutations(Keys) \cup Permutations(Contents)
=============================================================================

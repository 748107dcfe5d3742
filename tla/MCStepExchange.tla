---------------------------- MODULE MCStepExchange ----------------------------
(* Two bidders and several rounds for TLC. *)
EXTENDS StepExchange, TLC

MCPromises == {1, 2}
MCStageModes == {"inherit", "exchange"}

Symmetry == Permutations(Actors)
=============================================================================

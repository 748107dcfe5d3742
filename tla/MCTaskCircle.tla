---------------------------- MODULE MCTaskCircle ----------------------------
(* A circle of up to MaxStages stages for TLC. *)
EXTENDS TaskCircle, TLC

CONSTANTS alice, bob

\* alice may claim directly, bob only wins a bidding.
MCActors == {alice, bob}
MCOffers == {{}, {alice}}
MCStageTypes == {"human", "api"}

Symmetry == Permutations(Steps) \cup Permutations(Executions)
=============================================================================

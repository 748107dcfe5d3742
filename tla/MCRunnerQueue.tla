--------------------------- MODULE MCRunnerQueue ---------------------------
(* Instances of RunnerQueue: two circles of one workspace or of two.          *)
EXTENDS RunnerQueue, TLC

CONSTANTS w1, w2

Apart == 1 :> w1 @@ 2 :> w2
From(c, d, e, p, f) ==
  [config |-> <<c, d>>, left |-> [edits |-> e, changes |-> p, faults |-> f]]
\* Attempts, retries and lost calls; stages that are added while modules and
\* secrets are disabled; a refused stage ahead of another one.
Cases == {From("open", "none", 2, 0, 1), From("none", "none", 2, 1, 0),
          From("guarded", "open", 1, 0, 0), From("guarded", "open", 0, 2, 0),
          From("open", "guarded", 0, 1, 1)}
=============================================================================

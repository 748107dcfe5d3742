----------------------------- MODULE MCJiraSync -----------------------------
(* Instances of JiraSync: two filters, time zones, and what may happen.       *)
EXTENDS JiraSync

Narrow == {1}
Wide == {1, 2}
NarrowOrWide == {Narrow, Wide}

Budget(m, u, f, e, x, c, d) ==
  [minutes |-> m, updates |-> u, faults |-> f, edits |-> e, expiries |-> x,
   consents |-> c, disables |-> d]

World(z, b) == [zone |-> z, budget |-> b]

\* Pages and faults; administrators; tokens and authorizations; the time zones
\* before and after UTC; statements that fail with their errors discarded.
Scenarios == {World(1, Budget(2, 1, 1, 0, 0, 0, 0)), World(1, Budget(2, 0, 0, 2, 0, 0, 0)),
              World(1, Budget(0, 0, 0, 1, 1, 1, 0)), World(1, Budget(0, 0, 1, 0, 1, 1, 0)),
              World(1, Budget(0, 0, 0, 0, 1, 1, 1)),
              World(3, Budget(2, 1, 0, 0, 0, 0, 0)), World(0 - 2, Budget(3, 1, 0, 0, 0, 0, 0)),
              World(1, Budget(1, 0, 2, 0, 0, 0, 0))}
Edited == {World(1, Budget(2, 0, 0, 2, 0, 0, 0))}
=============================================================================

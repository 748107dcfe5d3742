---------------------------- MODULE RunnerQueue ----------------------------
(***************************************************************************)
(* The queue of the runners (internal/httpapi/runner.go), the runners'     *)
(* loops (internal/httprunner, internal/bashrunner), and what members and  *)
(* administrators do to stages, modules and secrets under way              *)
(* (performWorkAction, addWorkflowStep, updateWorkflowStep, removeNode,    *)
(* modules.go, secrets.go).                                                *)
(*                                                                         *)
(* The queue is one for all workspaces.  A circle has at most one stage    *)
(* here, and that is an automated one; TaskCircle has whole routes.        *)
(* Transactions are kept apart by two kinds of locks, the row of the       *)
(* circle (stage, attempt and node) and the row of its workspace, which    *)
(* not all of them take in the same order.                                 *)
(***************************************************************************)
EXTENDS Integers, Sequences, FiniteSets

CONSTANTS MaxCircle,   \* circles are 1 .. MaxCircle, in the order of created_at
          Workspace,
          Home,        \* the workspace of each circle
          Runner,      \* runner processes
          Member,      \* requests of members in progress at once
          Scenarios,   \* the stages there are, and bounds on what happens: edits,
                       \* changes of the policy, faults
          Nobody       \* nobody holds the lock

Circle == 1 .. MaxCircle

ASSUME QueueAssumption ==
  /\ MaxCircle \in Nat \ {0} /\ Home \in [Circle -> Workspace]
  /\ Runner \cap Member = {} /\ Nobody \notin Runner \cup Member
ASSUME ScenarioAssumption ==
  \A b \in Scenarios : b.config \in [Circle -> {"none", "open", "guarded"}]

VARIABLES stage,     \* step_status; "none" before the stage is added
          life,      \* lifecycle_status of the node
          removed,   \* removed_revision is not NULL
          config,    \* configuration: "open", or "guarded" by policy and secret
          attempts,  \* workflow_step_executions of the stage, by number
          policy,    \* workspace_module_installations: enabled (and trusted),
                     \* whether its hosts and allow_secrets permit "guarded";
                     \* and whether the secret is enabled
          row,       \* who holds stage, attempt and node of a circle
          workspace, \* who holds the row of a workspace
          runner,    \* the loop of each runner
          request,   \* the requests of members
          admin,     \* a disabling whose check for references has passed
          lost,      \* attempts whose runner, lease or report was lost or refused
          left       \* what is left of the budget

vars == <<stage, life, removed, config, attempts, policy, row, workspace,
          runner, request, admin, lost, left>>
circles == <<stage, life, removed, config, attempts>>

Polling == [pc |-> "poll", circle |-> 1, attempt |-> 0, outcome |-> "none"]
Quiet == [pc |-> "quiet", op |-> "none", circle |-> 1, config |-> "open"]
NoCheck == [what |-> "none", workspace |-> CHOOSE w \in Workspace : TRUE]

Last(c) == Len(attempts[c])
Running(c, n) == n \in 1 .. Last(c) /\ attempts[c][n] = "running"
Permitted(c, f) ==
  LET p == policy[Home[c]] IN p.enabled /\ (f = "guarded" => p.permits /\ p.secret)

\* Seeded fault: the node is read whether it is removed or not.
RemovedOrNot(c) == TRUE

\* nodeByIDSQL, with which everybody reads the node.
NodeByID(c) == ~removed[c]

Spend(what) == left[what] > 0 /\ left' = [left EXCEPT ![what] = @ - 1]
-----------------------------------------------------------------------------
(* A runner: lease. *)

\* The join with the installation looks at enabled and publisher_trusted; the
\* condition on the node says nothing of its removal.
InQueue(c) ==
  stage[c] = "ready" /\ life[c] = "planned" /\ policy[Home[c]].enabled

\* Seeded fault: the newest stage is served first.
Newest(S) == CHOOSE c \in S : \A d \in S : d <= c

\* Seeded fault: the query takes no locks.
Unlocked(c) == TRUE

First(S) == CHOOSE c \in S : \A d \in S : c <= d
Available(c) == row[c] = Nobody      \* SKIP LOCKED

Lease(r) ==
  LET ready == {c \in Circle : InQueue(c) /\ Available(c)}
  IN  /\ runner[r].pc = "poll" /\ ready # {}
      /\ row' = [row EXCEPT ![First(ready)] = r]
      /\ runner' = [runner EXCEPT ![r].pc = "check", ![r].circle = First(ready)]
      /\ UNCHANGED <<circles, policy, workspace, request, admin, lost, left>>

Unlock(r) == row' = [c \in Circle |-> IF row[c] = r THEN Nobody ELSE row[c]]

\* The node is read, the policy asked again and the secret opened.
Check(r) ==
  LET c == runner[r].circle
  IN  /\ runner[r].pc = "check"
      /\ IF NodeByID(c) /\ Permitted(c, config[c])
           THEN /\ runner' = [runner EXCEPT ![r].pc = "activate"]
                /\ UNCHANGED row
           ELSE /\ runner' = [runner EXCEPT ![r] = Polling]
                /\ Unlock(r)
      /\ UNCHANGED <<circles, policy, workspace, request, admin, lost, left>>

\* Attempt, stage and node in one transaction, once the workspace is free.  The
\* answer may be lost: then no runner knows of the attempt.
Activate(r) ==
  LET c == runner[r].circle
      n == Last(c) + 1
  IN  /\ runner[r].pc = "activate" /\ workspace[Home[c]] = Nobody
      /\ attempts' = [attempts EXCEPT ![c] = Append(@, "running")]
      /\ stage' = [stage EXCEPT ![c] = "active"]
      /\ life' = [life EXCEPT ![c] = "active"]
      /\ Unlock(r)
      /\ \/ /\ runner' = [runner EXCEPT ![r].pc = "work", ![r].attempt = n]
            /\ UNCHANGED <<lost, left>>
         \/ /\ Spend("faults")
            /\ runner' = [runner EXCEPT ![r] = Polling]
            /\ lost' = lost \cup {<<c, n>>}
      /\ UNCHANGED <<removed, config, policy, workspace, request, admin>>
-----------------------------------------------------------------------------
(* A runner: work and report. *)

Outcomes == {"succeeded", "failed", "timed_out"}

Work(r) ==
  /\ runner[r].pc = "work"
  /\ \E o \in Outcomes :
       runner' = [runner EXCEPT ![r].pc = "report", ![r].outcome = o]
  /\ UNCHANGED <<circles, policy, row, workspace, request, admin, lost, left>>

\* monitorCancellation: the work is broken off and nothing is reported.
SeeCancelled(r) ==
  /\ runner[r].pc = "work"
  /\ attempts[runner[r].circle][runner[r].attempt] = "cancelled"
  /\ runner' = [runner EXCEPT ![r] = Polling]
  /\ UNCHANGED <<circles, policy, row, workspace, request, admin, lost, left>>

\* Seeded fault: a time-out is no outcome.
WithoutTimeout == {"succeeded", "failed"}

\* Seeded fault: the attempt is found whatever its status is.
FoundAnyway(c, n) == TRUE

Reportable == Outcomes
Found(c, n) == Running(c, n)

\* A result of no known kind and an attempt that is over are refused.  The node of
\* an attempt that runs is read under its lock: when it has been removed all is
\* rolled back, and the runner, which has a refusal too, goes on polling.
Report(r) ==
  LET c == runner[r].circle
      n == runner[r].attempt
      Refuse == runner' = [runner EXCEPT ![r] = Polling] /\ UNCHANGED row
  IN  /\ runner[r].pc = "report"
      /\ \/ /\ ~(runner[r].outcome \in Reportable /\ Found(c, n))
            /\ Refuse /\ UNCHANGED lost
         \/ /\ runner[r].outcome \in Reportable /\ Found(c, n)
            /\ row[c] = Nobody
            /\ IF NodeByID(c)
                 THEN /\ row' = [row EXCEPT ![c] = r]
                      /\ runner' = [runner EXCEPT ![r].pc = "finish"]
                      /\ UNCHANGED lost
                 ELSE Refuse /\ lost' = lost \cup {<<c, n>>}
      /\ UNCHANGED <<circles, policy, workspace, request, admin, left>>

Finish(r) ==
  LET c == runner[r].circle
      succeeded == runner[r].outcome = "succeeded"
  IN  /\ runner[r].pc = "finish" /\ workspace[Home[c]] = Nobody
      /\ attempts' = [attempts EXCEPT ![c][runner[r].attempt] = runner[r].outcome]
      /\ stage' = [stage EXCEPT ![c] = IF succeeded THEN "completed" ELSE "failed"]
      /\ life' = [life EXCEPT ![c] = IF succeeded THEN "review" ELSE "blocked"]
      /\ Unlock(r)
      /\ runner' = [runner EXCEPT ![r] = Polling]
      /\ UNCHANGED <<removed, config, policy, workspace, request, admin, lost, left>>

\* What a runner has begun comes to nothing: its transaction is rolled back, and
\* the attempt it holds will not be reported by anybody.
Drop(r) ==
  /\ runner' = [runner EXCEPT ![r] = Polling]
  /\ Unlock(r)
  /\ lost' = IF runner[r].attempt = 0 THEN lost
             ELSE lost \cup {<<runner[r].circle, runner[r].attempt>>}
  /\ UNCHANGED <<circles, policy, workspace, request, admin>>

\* A call or the runner itself is lost.
Fault(r) == runner[r].pc # "poll" /\ Spend("faults") /\ Drop(r)
-----------------------------------------------------------------------------
(* Members. *)

Operations == {"add", "edit", "cancel", "retry", "return", "remove", "restore",
               "sweep"}

\* performWorkAction and addWorkflowStep take the row of the workspace first;
\* the edits of a stage and of a branch take it last, like the runners do.
\* The removal of a branch meets what has joined it only after that.
WorkspaceFirst == {"add", "cancel", "retry", "return", "sweep"}

Allowed(q) ==
  LET c == q.circle
  IN  CASE q.op = "add"     -> life[c] = "planned" /\ NodeByID(c) /\ stage[c] = "none"
        [] q.op = "edit"    -> /\ life[c] = "planned" /\ NodeByID(c)
                               /\ stage[c] # "none" /\ Permitted(c, q.config)
        [] q.op = "cancel"  -> life[c] = "active" /\ NodeByID(c) /\ Running(c, Last(c))
        [] q.op = "retry"   -> life[c] = "blocked" /\ NodeByID(c) /\ stage[c] = "failed"
        [] q.op = "return"  -> life[c] = "review" /\ NodeByID(c) /\ stage[c] = "completed"
        [] q.op = "remove"  -> life[c] = "planned" /\ ~removed[c]
        [] q.op = "restore" -> removed[c]
        [] q.op = "sweep"   -> ~removed[c]      \* nothing else is asked

Apply(q) ==
  LET c == q.circle
      To(s, l) == stage' = [stage EXCEPT ![c] = s] /\ life' = [life EXCEPT ![c] = l]
      End(s) == attempts' = [attempts EXCEPT ![c][Last(c)] = s]
      Same == UNCHANGED <<stage, life, attempts>>
  IN  /\ CASE q.op = "add"    -> To("ready", "planned") /\ UNCHANGED attempts
            [] q.op = "cancel" -> To("failed", "blocked") /\ End("cancelled")
            [] q.op = "retry"  -> To("ready", "planned") /\ UNCHANGED attempts
            [] q.op = "return" -> To("ready", "planned") /\ End("returned")
            [] OTHER           -> Same
      /\ config' = IF q.op \in {"add", "edit"}
                     THEN [config EXCEPT ![c] = q.config] ELSE config
      /\ removed' = [removed EXCEPT ![c] =
                       q.op \in {"remove", "sweep"} \/ (@ /\ q.op # "restore")]

Begins(m, o, c, f, pc) ==
  /\ request[m].pc = "quiet" /\ Spend("edits")
  /\ request' = [request EXCEPT ![m] = [pc |-> pc, op |-> o, circle |-> c, config |-> f]]

\* addWorkflowStep asks the policy before its transaction.
BeginAdd(m) ==
  /\ \E c \in Circle, f \in {"open", "guarded"} :
       Permitted(c, f) /\ Begins(m, "add", c, f, "first")
  /\ UNCHANGED <<circles, policy, row, workspace, runner, admin, lost>>

\* removeNode has read and locked a branch and found it planned; now a circle, planned
\* too, joins the branch, and the statement that removes it will find the circle there
\* whatever has become of it by then.
BeginSweep(m) ==
  /\ \E c \in Circle :
       /\ Begins(m, "sweep", c, config[c], "first")
       /\ life[c] = "planned" /\ ~removed[c]
       /\ row[c] = Nobody /\ workspace[Home[c]] = Nobody
  /\ UNCHANGED <<circles, policy, row, workspace, runner, admin, lost>>

TakeWorkspace(m) ==
  LET w == Home[request[m].circle]
  IN  /\ request[m].pc = "first" /\ workspace[w] = Nobody
      /\ workspace' = [workspace EXCEPT ![w] = m]
      /\ request' = [request EXCEPT ![m].pc = "second"]
      /\ UNCHANGED <<circles, policy, row, runner, admin, lost, left>>

\* performWorkAction, when it has the workspace.
BeginAction(m) ==
  /\ \E o \in WorkspaceFirst \ {"add", "sweep"}, c \in Circle :
       /\ Begins(m, o, c, config[c], "second")
       /\ workspace[Home[c]] = Nobody
       /\ workspace' = [workspace EXCEPT ![Home[c]] = m]
  /\ UNCHANGED <<circles, policy, row, runner, admin, lost>>

\* An edit, when it has the row and its conditions hold; otherwise it is refused.
BeginEdit(m) ==
  /\ \E o \in Operations \ WorkspaceFirst, c \in Circle, f \in {"open", "guarded"} :
       /\ o # "edit" => f = config[c]
       /\ Begins(m, o, c, f, "second")
       /\ row[c] = Nobody /\ Allowed(request'[m])
       /\ row' = [row EXCEPT ![c] = m]
  /\ UNCHANGED <<circles, policy, workspace, runner, admin, lost>>

Ends(m) ==
  /\ Unlock(m)
  /\ workspace' = [w \in Workspace |-> IF workspace[w] = m THEN Nobody ELSE workspace[w]]
  /\ request' = [request EXCEPT ![m] = Quiet]
  /\ UNCHANGED <<policy, runner, admin, lost, left>>

\* The second lock, the change and the commit.
Commit(m) ==
  LET q == request[m]
  IN  /\ q.pc = "second"
      /\ IF q.op \in WorkspaceFirst THEN row[q.circle] = Nobody
                                    ELSE workspace[Home[q.circle]] = Nobody
      /\ IF q.op \in WorkspaceFirst => Allowed(q) THEN Apply(q)
                                                  ELSE UNCHANGED circles
      /\ Ends(m)
-----------------------------------------------------------------------------
(* Deadlocks.  A runner and an action of a member lock in opposite orders;  *)
(* the database ends one of two transactions that wait for each other.      *)

WaitsForWorkspace(p, w) ==
  \/ /\ p \in Runner /\ runner[p].pc \in {"activate", "finish"}
     /\ Home[runner[p].circle] = w
  \/ /\ p \in Member /\ request[p].pc = "second"
     /\ request[p].op \notin WorkspaceFirst /\ Home[request[p].circle] = w

Deadlocked(p, m) ==
  /\ request[m].pc = "second" /\ request[m].op \in WorkspaceFirst
  /\ row[request[m].circle] = p
  /\ WaitsForWorkspace(p, Home[request[m].circle])

Victim(p, m) ==
  /\ Deadlocked(p, m)
  /\ \/ Ends(m) /\ UNCHANGED circles
     \/ p \in Runner /\ Drop(p) /\ UNCHANGED left
     \/ p \in Member /\ Ends(p) /\ UNCHANGED circles
-----------------------------------------------------------------------------
(* Administrators. *)

Unfinished(c) == stage[c] \notin {"none", "completed", "failed"}
Referenced(what, w) ==
  \E c \in Circle : /\ Home[c] = w /\ Unfinished(c)
                    /\ what = "secret" => config[c] = "guarded"

\* Disabling asks for references with one statement and disables with the next.
CheckReferences(what, w) ==
  /\ admin = NoCheck /\ Spend("changes")
  /\ ~Referenced(what, w)
  /\ admin' = [what |-> what, workspace |-> w]
  /\ UNCHANGED <<circles, policy, row, workspace, runner, request, lost>>

Disable ==
  /\ admin # NoCheck
  /\ policy' = [policy EXCEPT ![admin.workspace] =
       IF admin.what = "module" THEN [@ EXCEPT !.enabled = FALSE]
                                ELSE [@ EXCEPT !.secret = FALSE]]
  /\ admin' = NoCheck
  /\ UNCHANGED <<circles, row, workspace, runner, request, lost, left>>

\* A module that stays enabled may be given other permissions at any time; a
\* rotated secret is enabled.
ChangePolicy(w) ==
  /\ Spend("changes")
  /\ \/ \E b \in BOOLEAN :
            policy' = [policy EXCEPT ![w] = [@ EXCEPT !.enabled = TRUE, !.permits = b]]
     \/ policy' = [policy EXCEPT ![w].secret = TRUE]
  /\ UNCHANGED <<circles, row, workspace, runner, request, admin, lost>>
-----------------------------------------------------------------------------
Init ==
  /\ \E b \in Scenarios :
       /\ stage = [c \in Circle |-> IF b.config[c] = "none" THEN "none" ELSE "ready"]
       /\ config = [c \in Circle |-> IF b.config[c] = "none" THEN "open" ELSE b.config[c]]
       /\ left = b.left
  /\ life = [c \in Circle |-> "planned"]
  /\ removed = [c \in Circle |-> FALSE]
  /\ attempts = [c \in Circle |-> <<>>]
  /\ policy = [w \in Workspace |-> [enabled |-> TRUE, permits |-> TRUE, secret |-> TRUE]]
  /\ row = [c \in Circle |-> Nobody]
  /\ workspace = [w \in Workspace |-> Nobody]
  /\ runner = [r \in Runner |-> Polling]
  /\ request = [m \in Member |-> Quiet]
  /\ admin = NoCheck
  /\ lost = {}

Loop(r) ==
  \/ Lease(r) \/ Check(r) \/ Activate(r)
  \/ Work(r) \/ SeeCancelled(r) \/ Report(r) \/ Finish(r)
Transaction(m) == TakeWorkspace(m) \/ Commit(m)
Detector == \E p \in Runner \cup Member, m \in Member : Victim(p, m)

Next ==
  \/ \E r \in Runner : Loop(r) \/ Fault(r)
  \/ \E m \in Member :
       \/ BeginAdd(m) \/ BeginAction(m) \/ BeginEdit(m) \/ BeginSweep(m)
       \/ Transaction(m)
  \/ Detector
  \/ Disable
  \/ \E w \in Workspace :
       ChangePolicy(w) \/ \E what \in {"module", "secret"} : CheckReferences(what, w)

\* Runners poll for ever and work has a time limit; a waiting
\* statement is in the queue of its lock; the database finds deadlocks.
Fairness ==
  /\ \A r \in Runner : WF_vars(Loop(r))
  /\ \A m \in Member : SF_vars(Transaction(m))
  /\ WF_vars(Detector)

Spec == Init /\ [][Next]_vars /\ Fairness
-----------------------------------------------------------------------------
Over == {"succeeded", "failed", "timed_out", "cancelled", "returned"}

TypeOK ==
  /\ stage \in [Circle -> {"none", "ready", "active", "completed", "failed"}]
  /\ life \in [Circle -> {"planned", "active", "review", "blocked"}]
  /\ removed \in [Circle -> BOOLEAN] /\ config \in [Circle -> {"open", "guarded"}]
  /\ attempts \in [Circle -> Seq({"running"} \cup Over)]
  /\ row \in [Circle -> Runner \cup Member \cup {Nobody}]
  /\ workspace \in [Workspace -> Member \cup {Nobody}]
  /\ \A r \in Runner :
       runner[r].pc \in {"check", "activate", "finish"} => row[runner[r].circle] = r

\* Two runners that poll at once, reports and cancellations that cross: a stage
\* has one attempt that runs while it is active, and none otherwise.
OneRunningAttempt ==
  \A c \in Circle :
    Cardinality({n \in 1 .. Last(c) : Running(c, n)}) = IF stage[c] = "active" THEN 1 ELSE 0

\* Stage and node are written by different statements of different handlers and
\* agree after every commit.
LifecycleAgrees ==
  \A c \in Circle :
    /\ life[c] = "planned" <=> stage[c] \in {"none", "ready"}
    /\ life[c] = "active" <=> stage[c] = "active"
    /\ life[c] = "blocked" <=> stage[c] = "failed"

\* Types, and what stage, attempts and node say of one another.
QueueInv == TypeOK /\ OneRunningAttempt /\ LifecycleAgrees

\* docs/roadmap.md:31: "cancelled attempts must reject late results".  An attempt
\* that is over keeps its result; only a requester returns one that succeeded.
ResultsStand ==
  [][\A c \in Circle : \A n \in 1 .. Last(c) :
       attempts[c][n] \in Over =>
         \/ attempts'[c][n] = attempts[c][n]
         \/ attempts[c][n] = "succeeded" /\ attempts'[c][n] = "returned"]_vars

\* A circle may be removed while it is at work, when it has joined the removed branch
\* late.  Until it is restored nobody works on it: no lease, no report, no action and
\* no edit that had begun before the removal changes it.
RemovedStands ==
  [][\A c \in Circle : removed[c] /\ removed'[c] =>
       /\ stage'[c] = stage[c] /\ life'[c] = life[c]
       /\ config'[c] = config[c] /\ attempts'[c] = attempts[c]]_vars

\* A stage that is ready is served in the end, or its module is disabled, or the
\* queue is held up: by a stage, this or an older one, that every lease refuses.
Refused(c) == InQueue(c) /\ (removed[c] \/ ~Permitted(c, config[c]))
EveryStageGetsItsTurn ==
  \A c \in Circle :
    stage[c] = "ready" ~>
      \/ stage[c] # "ready" \/ ~policy[Home[c]].enabled
      \/ \E d \in 1 .. c : Refused(d)

\* A stage is active until its attempt ends, unless the lease, the runner or the
\* report of the attempt is lost, or the report is refused because the circle has
\* been removed; then it is active until the requester cancels, which he cannot while
\* it is removed.
AttemptsEnd ==
  \A c \in Circle :
    stage[c] = "active" ~> stage[c] # "active" \/ <<c, Last(c)>> \in lost
=============================================================================

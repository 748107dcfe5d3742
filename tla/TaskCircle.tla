------------------------------ MODULE TaskCircle ------------------------------
(***************************************************************************)
(* One Task circle of the httpapi server: the ordered route of stages of a *)
(* work node, the execution attempts of those stages, and the lifecycle of *)
(* the node.  Every action is one committed transaction: each handler      *)
(* takes the workspace row (nextRevision) before it commits and locks the  *)
(* node row before it reads the lifecycle, so two transactions on one      *)
(* circle are serialised or one of them is aborted and changes nothing.    *)
(* How the locks interleave is the subject of RunnerQueue.                 *)
(*                                                                         *)
(* The node is not removed here, and the requester is the caller of every  *)
(* action that only the requester may take.                                *)
(***************************************************************************)
EXTENDS Naturals, FiniteSets

CONSTANTS
  Steps,        \* identities of rows of workflow_steps
  Executions,   \* identities of rows of workflow_step_executions
  Actors,       \* the human members of the workspace
  Runner,       \* the automation actor of the HTTP and Bash runners
  Nobody,       \* SQL NULL in claimed_by, and in started_by before a start
  NoStep,       \* the stage of an execution row that does not exist
  Exchange,     \* the offer of a stage whose effective mode is 'exchange'
  Offers,       \* the sets of actors a simple stage may be open to
  StageTypes,   \* the stage types in use
  MaxStages,    \* bound on the length of the route
  MaxAttempts   \* bound on the attempts recorded for one stage

ASSUME CircleAssumption ==
  /\ Runner \notin Actors
  /\ Nobody \notin Actors \cup {Runner}
  /\ NoStep \notin Steps
  /\ {} \in Offers /\ Exchange \notin Offers
  /\ Offers \subseteq SUBSET Actors
  /\ StageTypes \subseteq {"human", "api", "script"}
  /\ MaxStages \in Nat
  /\ MaxAttempts \in Nat

VARIABLES
  lifecycle,    \* work_nodes.lifecycle_status
  stepStatus,   \* workflow_steps.step_status, "absent" when there is no row
  position,     \* workflow_steps.position, 0 when there is no row
  stepType,     \* workflow_steps.step_type
  offer,        \* who may claim the stage directly, or Exchange
  claimedBy,    \* workflow_steps.claimed_by
  execStatus,   \* execution_status; "unused": no row yet, "erased": deleted
  execStep,     \* workflow_step_executions.workflow_step_id
  attempt,      \* workflow_step_executions.attempt_number
  startedBy     \* workflow_step_executions.started_by

stepVars == <<stepStatus, position, stepType, offer, claimedBy>>
execVars == <<execStatus, execStep, attempt, startedBy>>
vars == <<lifecycle, stepVars, execVars>>

-----------------------------------------------------------------------------
Lifecycle == {"planned", "active", "blocked", "review", "closed"}
StepStatus == {"absent", "pending", "ready", "assigned", "active", "completed", "failed"}
Failures == {"failed", "cancelled", "timed_out"}
Finished == Failures \cup {"succeeded", "returned", "superseded"}
ExecStatus == {"unused", "erased", "running"} \cup Finished
Automated == {"api", "script"}
Positions == 1..MaxStages

WithStatus(S) == {s \in Steps : stepStatus[s] \in S}
Route == {s \in Steps : stepStatus[s] # "absent"}

\* ORDER BY position LIMIT 1, and ORDER BY position DESC LIMIT 1.
First(S) == {s \in S : \A t \in S : position[s] <= position[t]}
Last(S) == {s \in S : \A t \in S : position[t] <= position[s]}

AttemptsOf(s) == {e \in Executions : execStep[e] = s}

Init ==
  /\ lifecycle = "planned"
  /\ stepStatus = [s \in Steps |-> "absent"]
  /\ position = [s \in Steps |-> 0]
  /\ stepType = [s \in Steps |-> "human"]
  /\ offer = [s \in Steps |-> {}]
  /\ claimedBy = [s \in Steps |-> Nobody]
  /\ execStatus = [e \in Executions |-> "unused"]
  /\ execStep = [e \in Executions |-> NoStep]
  /\ attempt = [e \in Executions |-> 0]
  /\ startedBy = [e \in Executions |-> Nobody]

-----------------------------------------------------------------------------
(* Editing the route: addWorkflowStep, updateWorkflowStep,                 *)
(* deleteWorkflowStep, addWorkRequirement and addWorkKnowledgeRequirement. *)

\* p is COALESCE(MAX(position),0)+1.
IsNextPosition(p) ==
  /\ \A s \in Route : position[s] < p
  /\ p = 1 \/ \E s \in Route : position[s] = p - 1

\* Seeded fault: every new stage is ready, whatever stands before it.
NewStageAlwaysReady == "ready"

\* The first stage of an empty route is ready, any other waits.
NewStageStatus == IF Route = {} THEN "ready" ELSE "pending"

AddStep(s, type, o) ==
  /\ lifecycle = "planned"
  /\ s \notin Route
  /\ \E p \in Positions :
       /\ IsNextPosition(p)
       /\ position' = [position EXCEPT ![s] = p]
  /\ stepStatus' = [stepStatus EXCEPT ![s] = NewStageStatus]
  /\ stepType' = [stepType EXCEPT ![s] = type]
  /\ offer' = [offer EXCEPT ![s] = o]
  /\ UNCHANGED <<lifecycle, claimedBy, execVars>>

\* A new definition: other requirements, another distribution mode.  The
\* status of the stage is not consulted.  What the members are qualified for
\* and the default mode of the workspace may change meanwhile, so that the
\* offer after the edit is any of them.
UpdateStep(s, o) ==
  /\ lifecycle = "planned"
  /\ s \in Route
  /\ offer' = [offer EXCEPT ![s] = o]
  /\ UNCHANGED <<lifecycle, stepStatus, position, stepType, claimedBy, execVars>>

\* A requirement of the node is copied to the first stage that is not
\* completed.  It opens a stage that had none and narrows any other.
AddRequirement(qualified) ==
  \E s \in First(Route \ WithStatus({"completed"})) :
    /\ offer[s] # Exchange
    /\ offer[s] = {} \/ qualified \subseteq offer[s]
    /\ offer' = [offer EXCEPT ![s] = qualified]
    /\ UNCHANGED <<lifecycle, stepStatus, position, stepType, claimedBy, execVars>>

\* position = position - 1 for the stages after the deleted one.
Compacted(s) ==
  [t \in Steps |-> CASE t = s -> 0
                     [] t # s /\ position[t] > position[s] -> position[t] - 1
                     [] OTHER -> position[t]]

\* ON DELETE CASCADE takes the attempts of the stage with it.
ErasedWith(s) ==
  [e \in Executions |-> IF e \in AttemptsOf(s) THEN "erased" ELSE execStatus[e]]

\* Any stage of a planned circle can go, whatever its status.
DeleteStep(s) ==
  /\ lifecycle = "planned"
  /\ s \in Route
  /\ position' = Compacted(s)
  /\ stepStatus' = [stepStatus EXCEPT ![s] = "absent"]
  /\ stepType' = [stepType EXCEPT ![s] = "human"]
  /\ offer' = [offer EXCEPT ![s] = {}]
  /\ claimedBy' = [claimedBy EXCEPT ![s] = Nobody]
  /\ execStatus' = ErasedWith(s)
  /\ execStep' = [e \in Executions |-> IF e \in AttemptsOf(s) THEN NoStep ELSE execStep[e]]
  /\ attempt' = [e \in Executions |-> IF e \in AttemptsOf(s) THEN 0 ELSE attempt[e]]
  /\ startedBy' = [e \in Executions |-> IF e \in AttemptsOf(s) THEN Nobody ELSE startedBy[e]]
  /\ UNCHANGED lifecycle

-----------------------------------------------------------------------------
(* Starting a stage.                                                       *)

\* n is COALESCE(MAX(attempt_number),0)+1.
IsNextAttempt(s, n) ==
  /\ \A e \in AttemptsOf(s) : attempt[e] < n
  /\ n = 1 \/ \E e \in AttemptsOf(s) : attempt[e] = n - 1

StartExecution(s, by) ==
  \E e \in Executions, n \in 1..MaxAttempts :
    /\ execStatus[e] = "unused"
    /\ IsNextAttempt(s, n)
    /\ execStatus' = [execStatus EXCEPT ![e] = "running"]
    /\ execStep' = [execStep EXCEPT ![e] = s]
    /\ attempt' = [attempt EXCEPT ![e] = n]
    /\ startedBy' = [startedBy EXCEPT ![e] = by]

Activate(s, by) ==
  /\ stepStatus' = [stepStatus EXCEPT ![s] = "active"]
  /\ claimedBy' = [claimedBy EXCEPT ![s] = by]
  /\ StartExecution(s, by)
  /\ lifecycle' = "active"
  /\ UNCHANGED <<position, stepType, offer>>

\* selectWorkflowStepBid: the requester closes the bidding on a ready human
\* stage and the winner holds it.  The bids themselves are not modelled here.
Assign(s, winner) ==
  /\ stepStatus[s] = "ready"
  /\ stepType[s] = "human"
  /\ claimedBy[s] = Nobody
  /\ offer[s] = Exchange
  /\ stepStatus' = [stepStatus EXCEPT ![s] = "assigned"]
  /\ claimedBy' = [claimedBy EXCEPT ![s] = winner]
  /\ UNCHANGED <<lifecycle, position, stepType, offer, execVars>>

\* The current stage belongs to its winner, or to anyone it is open to.
MayClaim(s, actor) ==
  \/ stepStatus[s] = "assigned" /\ claimedBy[s] = actor
  \/ stepStatus[s] = "ready" /\ offer[s] # Exchange /\ actor \in offer[s]

Claim(actor) ==
  /\ lifecycle = "planned"
  /\ \E s \in First(WithStatus({"ready", "assigned"})) :
       MayClaim(s, actor) /\ Activate(s, actor)

\* leaseHTTPExecution and leaseBashExecution.
Lease(s) ==
  /\ stepStatus[s] = "ready"
  /\ stepType[s] \in Automated
  /\ lifecycle = "planned"
  /\ Activate(s, Runner)

-----------------------------------------------------------------------------
(* Finishing a stage.                                                      *)

\* The stage is completed and the next one becomes ready; after the final
\* stage the circle goes back to its requester.
CompleteStage(s) ==
  LET waiting == WithStatus({"pending"}) IN
  \/ /\ waiting = {}
     /\ stepStatus' = [stepStatus EXCEPT ![s] = "completed"]
     /\ lifecycle' = "review"
  \/ \E next \in First(waiting) :
       /\ stepStatus' = [stepStatus EXCEPT ![s] = "completed", ![next] = "ready"]
       /\ lifecycle' = "planned"

\* The 'submit' action of the performer.
Submit(actor) ==
  /\ lifecycle = "active"
  /\ \E s \in First({t \in WithStatus({"active"}) : claimedBy[t] = actor}) :
       /\ \E e \in AttemptsOf(s) :
            /\ execStatus[e] = "running"
            /\ execStatus' = [execStatus EXCEPT ![e] = "succeeded"]
       /\ CompleteStage(s)
  /\ UNCHANGED <<position, stepType, offer, claimedBy, execStep, attempt, startedBy>>

\* Seeded fault: a report is accepted whatever became of the attempt.
ReportAlwaysAccepted(e) == execStep[e] # NoStep

\* A report is accepted for a running execution only, else it is not found.
ReportAccepted(e) == execStep[e] # NoStep /\ execStatus[e] = "running"

LifecycleAfterFailure == "blocked"

FailStage(s) ==
  /\ stepStatus' = [stepStatus EXCEPT ![s] = "failed"]
  /\ lifecycle' = LifecycleAfterFailure

\* completeHTTPExecution: the runner that holds execution e reports it.
Complete(e, outcome) ==
  /\ startedBy[e] = Runner
  /\ ReportAccepted(e)
  /\ execStatus' = [execStatus EXCEPT ![e] = outcome]
  /\ IF outcome = "succeeded" THEN CompleteStage(execStep[e])
                              ELSE FailStage(execStep[e])
  /\ UNCHANGED <<position, stepType, offer, claimedBy, execStep, attempt, startedBy>>

\* Seeded fault: the attempt of a cancelled stage is left running.
LeftRunning(e) == UNCHANGED execStatus

CancelExecution(e) == execStatus' = [execStatus EXCEPT ![e] = "cancelled"]

\* The requester cancels the active automated stage.
Cancel ==
  /\ lifecycle = "active"
  /\ \E s \in First({t \in WithStatus({"active"}) :
                       /\ stepType[t] \in Automated
                       /\ \E e \in AttemptsOf(t) : execStatus[e] = "running"}) :
       /\ \E e \in AttemptsOf(s) : execStatus[e] = "running" /\ CancelExecution(e)
       /\ FailStage(s)
  /\ UNCHANGED <<position, stepType, offer, claimedBy, execStep, attempt, startedBy>>

\* The requester retries the failed automated stage of a blocked circle.
Retry ==
  /\ lifecycle = "blocked"
  /\ \E s \in First({t \in WithStatus({"failed"}) : stepType[t] \in Automated}) :
       /\ stepStatus' = [stepStatus EXCEPT ![s] = "ready"]
       /\ claimedBy' = [claimedBy EXCEPT ![s] = Nobody]
  /\ lifecycle' = "planned"
  /\ UNCHANGED <<position, stepType, offer, execVars>>

-----------------------------------------------------------------------------
(* Acceptance by the requester.                                            *)

\* Descendants of the node are the matter of the tree modules.
Close ==
  /\ lifecycle = "review"
  /\ lifecycle' = "closed"
  /\ UNCHANGED <<stepVars, execVars>>

From(s) == {t \in Route : position[t] >= position[s]}

\* Seeded fault: only the returned stage is reset, later ones stay completed.
OnlyReturned(s) == [stepStatus EXCEPT ![s] = "ready"]

ReturnedStatus(s) ==
  [t \in Steps |-> CASE t = s -> "ready"
                     [] t # s /\ t \in From(s) -> "pending"
                     [] OTHER -> stepStatus[t]]

\* The result of the returned stage is returned, later results are superseded.
ReturnedResults(s) ==
  [e \in Executions |->
     CASE execStatus[e] = "succeeded" /\ execStep[e] = s -> "returned"
       [] execStatus[e] = "succeeded" /\ execStep[e] \in From(s) \ {s} -> "superseded"
       [] OTHER -> execStatus[e]]

Return(s) ==
  /\ lifecycle = "review"
  /\ stepStatus[s] = "completed"
  /\ stepStatus' = ReturnedStatus(s)
  /\ claimedBy' = [t \in Steps |-> IF t \in From(s) THEN Nobody ELSE claimedBy[t]]
  /\ execStatus' = ReturnedResults(s)
  /\ lifecycle' = "planned"
  /\ UNCHANGED <<position, stepType, offer, execStep, attempt, startedBy>>

\* The last stage of a closed circle is opened again.
Reopen ==
  /\ lifecycle = "closed"
  /\ \E s \in Last(Route) :
       /\ stepStatus' = [stepStatus EXCEPT ![s] = "ready"]
       /\ claimedBy' = [claimedBy EXCEPT ![s] = Nobody]
       /\ execStatus' = [e \in Executions |->
                           IF execStep[e] = s /\ execStatus[e] = "succeeded"
                           THEN "returned" ELSE execStatus[e]]
  /\ lifecycle' = "planned"
  /\ UNCHANGED <<position, stepType, offer, execStep, attempt, startedBy>>

-----------------------------------------------------------------------------
Edit ==
  \/ \E s \in Steps, type \in StageTypes, o \in Offers \cup {Exchange} : AddStep(s, type, o)
  \/ \E s \in Steps, o \in Offers \cup {Exchange} : UpdateStep(s, o)
  \/ \E qualified \in Offers : AddRequirement(qualified)
  \/ \E s \in Steps : DeleteStep(s)

Perform ==
  \/ \E s \in Steps, winner \in Actors : Assign(s, winner)
  \/ \E actor \in Actors : Claim(actor) \/ Submit(actor)
  \/ \E s \in Steps : Lease(s)
  \/ \E e \in Executions, outcome \in {"succeeded", "failed", "timed_out"} : Complete(e, outcome)

Decide ==
  \/ Cancel
  \/ Retry
  \/ Close
  \/ \E s \in Steps : Return(s)
  \/ Reopen

Next == Edit \/ Perform \/ Decide

Spec == Init /\ [][Next]_vars

-----------------------------------------------------------------------------
(* Properties.                                                             *)

\* Every column keeps to the values the schema and the handlers allow.
TypeOK ==
  /\ lifecycle \in Lifecycle
  /\ stepStatus \in [Steps -> StepStatus]
  /\ position \in [Steps -> 0..MaxStages]
  /\ stepType \in [Steps -> StageTypes \cup {"human"}]
  /\ offer \in [Steps -> Offers \cup {Exchange}]
  /\ claimedBy \in [Steps -> Actors \cup {Runner, Nobody}]
  /\ execStatus \in [Executions -> ExecStatus]
  /\ execStep \in [Executions -> Steps \cup {NoStep}]
  /\ attempt \in [Executions -> 0..MaxAttempts]
  /\ startedBy \in [Executions -> Actors \cup {Runner, Nobody}]

\* Additions and deletions keep the stages numbered 1, 2, ... without a gap
\* and without two stages at one place: the compaction of a deletion and the
\* MAX+1 of an addition (circle.go:507, workflow_edit.go:271) fit together.
RouteNumbered ==
  /\ \A s \in Steps : position[s] = 0 <=> s \notin Route
  /\ \A s, t \in Route : position[s] = position[t] => s = t
  /\ \A s \in Route : \A p \in 1..position[s] : \E t \in Route : position[t] = p

\* Stages run strictly one after the other: whatever is completed, returned,
\* cancelled, retried, added or deleted, a stage that is not waiting has only
\* completed stages before it (docs/concepts.md:288).
RouteOrder ==
  \A s, t \in Route :
    position[s] < position[t] /\ stepStatus[t] # "pending" => stepStatus[s] = "completed"

\* The node's lifecycle, which every handler writes from its own case, and
\* the statuses of the stages never disagree about what the circle is doing.
LifecycleMatchesRoute ==
  /\ lifecycle = "active" <=> WithStatus({"active"}) # {}
  /\ lifecycle = "blocked" <=> WithStatus({"failed"}) # {}
  /\ lifecycle \in {"review", "closed"} =>
       Route # {} /\ \A s \in Route : stepStatus[s] = "completed"

\* The attempt the stage is in: the one with the highest number.
IsLatest(e) == \A f \in AttemptsOf(execStep[e]) : attempt[f] <= attempt[e]

\* A stage is active exactly while its latest attempt runs, started by the
\* actor that claims the stage: no work goes on unseen, none is waited for
\* that nobody performs.  Performers, both runners and the requester's
\* cancellation all write the two rows.
RunningMatchesActive ==
  /\ \A e \in Executions : execStatus[e] = "running" =>
       /\ execStep[e] \in WithStatus({"active"})
       /\ claimedBy[execStep[e]] = startedBy[e]
       /\ IsLatest(e)
  /\ \A s \in WithStatus({"active"}) :
       \E e \in AttemptsOf(s) : execStatus[e] = "running"
  /\ \A e, f \in Executions :
       execStatus[e] = "running" /\ execStatus[f] = "running" => e = f

\* A stage counts as completed exactly when the latest attempt of it has a
\* standing success, and no older success stands beside it: a return or a
\* reopening withdraws the results of all stages it opens again.
CompletedMatchesResult ==
  /\ \A s \in WithStatus({"completed"}) :
       \E e \in AttemptsOf(s) : execStatus[e] = "succeeded"
  /\ \A e \in Executions : execStatus[e] = "succeeded" =>
       execStep[e] \in WithStatus({"completed"}) /\ IsLatest(e)

\* A stage is failed exactly when its latest attempt failed, timed out or was
\* cancelled, and its circle waits for the requester's retry.
FailedMatchesResult ==
  \A s \in WithStatus({"failed"}) :
    \E e \in AttemptsOf(s) : IsLatest(e) /\ execStatus[e] \in Failures

\* Attempts of a stage are numbered without gaps and without repetition
\* (UNIQUE in migration 17), also across returns and retries.
AttemptsNumbered ==
  /\ \A e \in Executions : attempt[e] = 0 <=> execStep[e] = NoStep
  /\ \A e \in Executions : execStatus[e] \in {"unused", "erased"} <=> execStep[e] = NoStep
  /\ \A e, f \in Executions :
       execStep[e] # NoStep /\ execStep[e] = execStep[f] /\ attempt[e] = attempt[f] => e = f
  /\ \A e \in Executions : \A n \in 1..attempt[e] :
       \E f \in AttemptsOf(execStep[e]) : attempt[f] = n

\* The inductive invariant: the parts above lean on each other, so that none
\* of them but TypeOK can be proved alone.
CircleInv ==
  /\ TypeOK
  /\ RouteNumbered
  /\ RouteOrder
  /\ LifecycleMatchesRoute
  /\ RunningMatchesActive
  /\ CompletedMatchesResult
  /\ FailedMatchesResult
  /\ AttemptsNumbered

\* What a step may do to the attempts that came to an end.
ResultsKept ==
  \A e \in Executions : execStatus[e] \in Finished =>
    \/ execStatus'[e] = execStatus[e]
    \/ /\ execStatus[e] = "succeeded"
       /\ execStatus'[e] \in {"returned", "superseded"}
       /\ lifecycle \in {"review", "closed"}
    \/ execStatus'[e] = "erased" /\ lifecycle = "planned"

\* What an attempt came to is final: a late report, a second report or a
\* report that crosses a cancellation never rewrites it.  Only the requester,
\* with the whole circle before him, withdraws a success, and only the
\* deletion of the stage removes the row.
ResultsAreFinal == [][ResultsKept]_vars

\* What a step may do to the stages that are completed.
CompletionKept ==
  \A s \in WithStatus({"completed"}) :
    \/ stepStatus'[s] = "completed"
    \/ lifecycle \in {"review", "closed"} /\ lifecycle' = "planned"
    \/ stepStatus'[s] = "absent"

\* Progress is only given up by the requester: outside review and closed no
\* stage that is completed becomes anything else, short of its deletion.
ProgressKept == [][CompletionKept]_vars

-----------------------------------------------------------------------------
(* The circle as its members see it.                                       *)

Phase ==
  CASE lifecycle = "active" -> "working"
    [] lifecycle = "blocked" -> "stopped"
    [] lifecycle \in {"review", "closed"} -> lifecycle
    [] OTHER -> IF WithStatus({"ready", "assigned"}) # {} THEN "offered" ELSE "idle"

Sequential == INSTANCE SequentialRoute WITH
  length <- Cardinality(Route),
  done <- Cardinality(WithStatus({"completed"})),
  phase <- Phase

\* A circle implements the sequential route: a handler of the server does
\* one step of it or none, whatever the rows look like.
ImplementsSequentialRoute == Sequential!Spec

=============================================================================

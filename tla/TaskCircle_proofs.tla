-------------------------- MODULE TaskCircle_proofs --------------------------
(* Proofs about one Task circle, for every value of the constants. *)
EXTENDS TaskCircle, FiniteSetTheorems, TLAPS

\* No handler writes a value outside the columns' ranges.
LEMMA TypeStep ==
  ASSUME TypeOK, [Next]_vars
  PROVE  TypeOK'
<1> USE CircleAssumption DEF TypeOK, Lifecycle, StepStatus, ExecStatus, Failures, Finished
<1>1. ASSUME NEW s \in Steps, NEW type \in StageTypes, NEW o \in Offers \cup {Exchange},
             AddStep(s, type, o)
      PROVE  TypeOK'
  BY <1>1 DEF AddStep, Positions, NewStageStatus, execVars
<1>2. ASSUME NEW s \in Steps, NEW o \in Offers \cup {Exchange}, UpdateStep(s, o)
      PROVE  TypeOK'
  BY <1>2 DEF UpdateStep, execVars
<1>3. ASSUME NEW q \in Offers, AddRequirement(q)
      PROVE  TypeOK'
  BY <1>3 DEF AddRequirement, First, Route, execVars
<1>4. ASSUME NEW s \in Steps, DeleteStep(s)
      PROVE  TypeOK'
  <2>1. position' \in [Steps -> 0..MaxStages]
    BY <1>4 DEF DeleteStep, Compacted, Route
  <2>2. execStatus' \in [Executions -> ExecStatus]
    BY <1>4 DEF DeleteStep, ErasedWith
  <2>3. /\ execStep' \in [Executions -> Steps \cup {NoStep}]
        /\ attempt' \in [Executions -> 0..MaxAttempts]
        /\ startedBy' \in [Executions -> Actors \cup {Runner, Nobody}]
    BY <1>4 DEF DeleteStep
  <2>4. /\ lifecycle' \in Lifecycle
        /\ stepStatus' \in [Steps -> StepStatus]
        /\ stepType' \in [Steps -> StageTypes \cup {"human"}]
        /\ offer' \in [Steps -> Offers \cup {Exchange}]
        /\ claimedBy' \in [Steps -> Actors \cup {Runner, Nobody}]
    BY <1>4 DEF DeleteStep
  <2> QED BY <2>1, <2>2, <2>3, <2>4
<1>5. ASSUME NEW s \in Steps, NEW by \in Actors \cup {Runner}, Activate(s, by)
      PROVE  TypeOK'
  BY <1>5 DEF Activate, StartExecution
<1>6. ASSUME NEW s \in Steps, NEW a \in Actors, Assign(s, a)
      PROVE  TypeOK'
  BY <1>6 DEF Assign, execVars
<1>7. ASSUME NEW s, CompleteStage(s)
      PROVE  lifecycle' \in Lifecycle /\ stepStatus' \in [Steps -> StepStatus]
  BY <1>7 DEF CompleteStage
<1>8. ASSUME NEW s, FailStage(s)
      PROVE  lifecycle' \in Lifecycle /\ stepStatus' \in [Steps -> StepStatus]
  BY <1>8 DEF FailStage, LifecycleAfterFailure
<1>9. ASSUME NEW a \in Actors, Submit(a)
      PROVE  TypeOK'
  BY <1>9, <1>7 DEF Submit
<1>10. ASSUME NEW e \in Executions, NEW r \in {"succeeded", "failed", "timed_out"},
              Complete(e, r)
       PROVE  TypeOK'
  BY <1>10, <1>7, <1>8 DEF Complete
<1>11. CASE Cancel
  BY <1>11, <1>8 DEF Cancel, CancelExecution
<1>12. CASE Retry
  BY <1>12 DEF Retry, execVars
<1>13. CASE Close
  BY <1>13 DEF Close, stepVars, execVars
<1>14. ASSUME NEW s \in Steps, Return(s)
       PROVE  TypeOK'
  BY <1>14 DEF Return, ReturnedStatus, ReturnedResults
<1>15. CASE Reopen
  BY <1>15 DEF Reopen
<1>16. CASE UNCHANGED vars
  BY <1>16 DEF vars, stepVars, execVars
<1> QED
  BY <1>1, <1>2, <1>3, <1>4, <1>5, <1>6, <1>9, <1>10, <1>11, <1>12, <1>13, <1>14,
     <1>15, <1>16
  DEF Next, Edit, Perform, Decide, Claim, Lease, First, WithStatus

\* Every reachable state of a circle is well typed: positions stay within the
\* bound through additions and compaction, statuses within the schema's checks.
THEOREM TypeCorrect == Spec => []TypeOK
<1>1. Init => TypeOK
  BY CircleAssumption DEF Init, TypeOK, Lifecycle, StepStatus, ExecStatus
<1> QED
  BY <1>1, TypeStep, PTL DEF Spec

-----------------------------------------------------------------------------
(* The inductive invariant.                                                *)

\* A stage that is neither waiting nor completed is the only one of its kind:
\* everything before it is completed and everything after it waits.
LEMMA OneCurrentStage ==
  ASSUME CircleInv, NEW s \in Steps,
         stepStatus[s] \in {"ready", "assigned", "active", "failed"}
  PROVE  \A t \in Route : t # s =>
           \/ position[t] < position[s] /\ stepStatus[t] = "completed"
           \/ position[s] < position[t] /\ stepStatus[t] = "pending"
<1> SUFFICES ASSUME NEW t \in Route, t # s
             PROVE  \/ position[t] < position[s] /\ stepStatus[t] = "completed"
                    \/ position[s] < position[t] /\ stepStatus[t] = "pending"
  OBVIOUS
<1>1. s \in Route /\ t \in Steps
  BY DEF Route
<1>2. position[s] \in Nat /\ position[t] \in Nat
  BY <1>1, CircleAssumption DEF CircleInv, TypeOK
<1>3. position[s] # position[t]
  BY <1>1 DEF CircleInv, RouteNumbered
<1> QED
  BY <1>1, <1>2, <1>3 DEF CircleInv, RouteOrder

\* Completing the active stage with the success of its attempt.
LEMMA Completing ==
  ASSUME CircleInv, TypeOK', NEW e \in Executions, execStatus[e] = "running",
         execStatus' = [execStatus EXCEPT ![e] = "succeeded"],
         CompleteStage(execStep[e]),
         UNCHANGED <<position, stepType, offer, claimedBy, execStep, attempt, startedBy>>
  PROVE  CircleInv'
<1> DEFINE s == execStep[e]
<1>1. s \in Steps /\ stepStatus[s] = "active" /\ IsLatest(e)
  BY DEF CircleInv, RunningMatchesActive, WithStatus
<1>2. \A t \in Route : t # s =>
           \/ position[t] < position[s] /\ stepStatus[t] = "completed"
           \/ position[s] < position[t] /\ stepStatus[t] = "pending"
  BY <1>1, OneCurrentStage
<1>3. stepStatus' \in [Steps -> StepStatus] /\ stepStatus \in [Steps -> StepStatus]
  BY DEF CircleInv, TypeOK
<1>4. \A f \in Executions : f # e => execStatus[f] # "running" /\ execStatus'[f] = execStatus[f]
  BY DEF CircleInv, RunningMatchesActive, TypeOK
<1>5. execStatus'[e] = "succeeded"
  BY DEF CircleInv, TypeOK
<1>6. CASE /\ WithStatus({"pending"}) = {}
           /\ stepStatus' = [stepStatus EXCEPT ![s] = "completed"]
           /\ lifecycle' = "review"
  <2>1. Route' = Route /\ s \in Route
    BY <1>1, <1>3, <1>6 DEF Route
  <2>2. \A t \in Route : stepStatus'[t] = "completed"
    BY <1>1, <1>2, <1>3, <1>6 DEF Route, WithStatus
  <2>3. RouteNumbered' /\ RouteOrder'
    BY <2>1, <2>2 DEF CircleInv, RouteNumbered, RouteOrder
  <2>4. LifecycleMatchesRoute'
    BY <2>1, <2>2, <1>6 DEF LifecycleMatchesRoute, WithStatus, Route
  <2>5. RunningMatchesActive'
    BY <1>4, <1>5, <2>1, <2>2 DEF RunningMatchesActive, WithStatus, Route
  <2>6. CompletedMatchesResult'
    BY <1>1, <1>4, <1>5, <1>6, <1>3
    DEF CircleInv, CompletedMatchesResult, WithStatus, IsLatest, AttemptsOf
  <2>7. FailedMatchesResult'
    BY <2>1, <2>2 DEF FailedMatchesResult, WithStatus, Route
  <2>8. AttemptsNumbered'
    BY <1>1, <1>4, <1>5, CircleAssumption DEF CircleInv, AttemptsNumbered, AttemptsOf
  <2> QED
    BY <2>3, <2>4, <2>5, <2>6, <2>7, <2>8 DEF CircleInv
<1>7. ASSUME NEW n \in First(WithStatus({"pending"})),
             stepStatus' = [stepStatus EXCEPT ![s] = "completed", ![n] = "ready"],
             lifecycle' = "planned"
      PROVE  CircleInv'
  <2>1. /\ n \in Steps /\ n # s /\ stepStatus[n] = "pending"
        /\ \A t \in Steps : stepStatus[t] = "pending" => position[n] <= position[t]
    BY <1>1 DEF First, WithStatus
  <2>2. /\ stepStatus'[s] = "completed"
        /\ stepStatus'[n] = "ready"
        /\ \A t \in Steps : t # s /\ t # n => stepStatus'[t] = stepStatus[t]
    BY <1>1, <1>3, <1>7, <2>1
  <2>3. Route' = Route /\ s \in Route /\ n \in Route
    BY <1>1, <2>1, <2>2 DEF Route
  <2>4. \A t \in Route : t # s /\ t # n =>
           \/ position[t] < position[n] /\ stepStatus'[t] = "completed"
           \/ position[n] < position[t] /\ stepStatus'[t] = "pending"
    <3> SUFFICES ASSUME NEW t \in Route, t # s, t # n
                 PROVE  \/ position[t] < position[n] /\ stepStatus'[t] = "completed"
                        \/ position[n] < position[t] /\ stepStatus'[t] = "pending"
      OBVIOUS
    <3>1. position[t] \in Nat /\ position[s] \in Nat /\ position[n] \in Nat
      BY <1>1, <2>1, CircleAssumption DEF CircleInv, TypeOK, Route
    <3>2. position[s] < position[n] /\ position[t] # position[n]
      BY <1>2, <2>1, <2>3 DEF CircleInv, RouteNumbered
    <3>3. CASE stepStatus[t] = "pending"
      BY <2>1, <2>2, <3>1, <3>2, <3>3 DEF Route
    <3>4. CASE stepStatus[t] = "completed"
      BY <1>2, <2>2, <3>1, <3>2, <3>4 DEF Route
    <3> QED BY <1>2, <3>3, <3>4
  <2>5. RouteNumbered'
    BY <2>3 DEF CircleInv, RouteNumbered
  <2>6. RouteOrder'
    <3> SUFFICES ASSUME NEW t \in Route, NEW u \in Route, position[t] < position[u],
                        stepStatus'[u] # "pending"
                 PROVE  stepStatus'[t] = "completed"
      BY <2>3 DEF RouteOrder
    <3>1. position[t] \in Nat /\ position[u] \in Nat /\ position[n] \in Nat /\ position[s] \in Nat
      BY <1>1, <2>1, CircleAssumption DEF CircleInv, TypeOK, Route
    <3>2. position[s] < position[n]
      BY <1>2, <2>1, <2>3
    <3> QED BY <2>2, <2>3, <2>4, <3>1, <3>2
  <2>7. LifecycleMatchesRoute'
    BY <2>2, <2>3, <2>4, <1>7 DEF LifecycleMatchesRoute, WithStatus, Route
  <2>8. RunningMatchesActive'
    BY <1>4, <1>5, <2>2, <2>3, <2>4 DEF RunningMatchesActive, WithStatus, Route
  <2>9. CompletedMatchesResult'
    BY <1>1, <1>4, <1>5, <2>1, <2>2
    DEF CircleInv, CompletedMatchesResult, WithStatus, IsLatest, AttemptsOf
  <2>10. FailedMatchesResult'
    BY <2>2, <2>3, <2>4 DEF FailedMatchesResult, WithStatus, Route
  <2>11. AttemptsNumbered'
    BY <1>1, <1>4, <1>5, CircleAssumption DEF CircleInv, AttemptsNumbered, AttemptsOf
  <2> QED
    BY <2>5, <2>6, <2>7, <2>8, <2>9, <2>10, <2>11 DEF CircleInv
<1> QED
  BY <1>6, <1>7 DEF CompleteStage

\* Failing the active stage together with its attempt, by report or by
\* cancellation.
LEMMA Failing ==
  ASSUME CircleInv, TypeOK', NEW e \in Executions, execStatus[e] = "running",
         NEW r \in Failures, execStatus' = [execStatus EXCEPT ![e] = r],
         FailStage(execStep[e]),
         UNCHANGED <<position, stepType, offer, claimedBy, execStep, attempt, startedBy>>
  PROVE  CircleInv'
<1> DEFINE s == execStep[e]
<1>1. s \in Steps /\ stepStatus[s] = "active" /\ IsLatest(e)
  BY DEF CircleInv, RunningMatchesActive, WithStatus
<1>2. \A t \in Route : t # s =>
           \/ position[t] < position[s] /\ stepStatus[t] = "completed"
           \/ position[s] < position[t] /\ stepStatus[t] = "pending"
  BY <1>1, OneCurrentStage
<1>3. /\ stepStatus'[s] = "failed"
      /\ \A t \in Steps : t # s => stepStatus'[t] = stepStatus[t]
      /\ lifecycle' = "blocked"
  BY <1>1 DEF FailStage, LifecycleAfterFailure, CircleInv, TypeOK
<1>4. \A f \in Executions : f # e => execStatus[f] # "running" /\ execStatus'[f] = execStatus[f]
  BY DEF CircleInv, RunningMatchesActive, TypeOK
<1>5. execStatus'[e] = r /\ r \notin {"running", "succeeded", "unused", "erased"}
  BY DEF CircleInv, TypeOK, Failures
<1>6. Route' = Route /\ s \in Route
  BY <1>1, <1>3 DEF Route
<1>7. RouteNumbered'
  BY <1>6 DEF CircleInv, RouteNumbered
<1>8. RouteOrder'
  <2>1. \A t \in Route : position[t] \in Nat
    BY CircleAssumption DEF CircleInv, TypeOK, Route
  <2> QED BY <1>1, <1>2, <1>3, <1>6, <2>1 DEF RouteOrder, Route
<1>9. LifecycleMatchesRoute'
  BY <1>1, <1>2, <1>3 DEF LifecycleMatchesRoute, WithStatus, Route
<1>10. RunningMatchesActive'
  BY <1>1, <1>2, <1>3, <1>4, <1>5 DEF RunningMatchesActive, WithStatus, Route
<1>11. CompletedMatchesResult'
  BY <1>1, <1>3, <1>4, <1>5
  DEF CircleInv, CompletedMatchesResult, WithStatus, IsLatest, AttemptsOf
<1>12. FailedMatchesResult'
  <2> SUFFICES ASSUME NEW t \in Steps, stepStatus'[t] = "failed"
               PROVE  \E f \in AttemptsOf(t) : IsLatest(f) /\ execStatus'[f] \in Failures
    BY DEF FailedMatchesResult, WithStatus, IsLatest, AttemptsOf
  <2>1. t = s
    BY <1>2, <1>3 DEF Route
  <2> QED BY <1>1, <1>5, <2>1 DEF AttemptsOf
<1>13. AttemptsNumbered'
  BY <1>1, <1>4, <1>5, CircleAssumption DEF CircleInv, AttemptsNumbered, AttemptsOf
<1> QED
  BY <1>7, <1>8, <1>9, <1>10, <1>11, <1>12, <1>13 DEF CircleInv

\* Starting the current stage of a planned circle, by a performer or a runner.
LEMMA Activating ==
  ASSUME CircleInv, TypeOK', lifecycle = "planned", NEW s \in Steps,
         stepStatus[s] \in {"ready", "assigned"},
         NEW by \in Actors \cup {Runner}, Activate(s, by)
  PROVE  CircleInv'
<1>1. \A t \in Route : t # s =>
           \/ position[t] < position[s] /\ stepStatus[t] = "completed"
           \/ position[s] < position[t] /\ stepStatus[t] = "pending"
  BY OneCurrentStage
<1>2. /\ stepStatus'[s] = "active"
      /\ claimedBy'[s] = by
      /\ \A t \in Steps : t # s => stepStatus'[t] = stepStatus[t] /\ claimedBy'[t] = claimedBy[t]
      /\ lifecycle' = "active"
      /\ position' = position
  BY DEF Activate, CircleInv, TypeOK
<1>3. PICK e \in Executions, n \in 1..MaxAttempts :
        /\ execStatus[e] = "unused"
        /\ IsNextAttempt(s, n)
        /\ execStatus' = [execStatus EXCEPT ![e] = "running"]
        /\ execStep' = [execStep EXCEPT ![e] = s]
        /\ attempt' = [attempt EXCEPT ![e] = n]
        /\ startedBy' = [startedBy EXCEPT ![e] = by]
  BY DEF Activate, StartExecution
<1>4. /\ execStatus'[e] = "running" /\ execStep'[e] = s /\ attempt'[e] = n /\ startedBy'[e] = by
      /\ \A f \in Executions : f # e =>
           /\ execStatus'[f] = execStatus[f] /\ execStep'[f] = execStep[f]
           /\ attempt'[f] = attempt[f] /\ startedBy'[f] = startedBy[f]
  BY <1>3 DEF CircleInv, TypeOK
<1>5. execStep[e] = NoStep /\ s # NoStep
  BY <1>3, CircleAssumption DEF CircleInv, AttemptsNumbered
<1>6. \A f \in Executions : execStatus[f] # "running"
  BY DEF CircleInv, LifecycleMatchesRoute, RunningMatchesActive
<1>7. \A f \in Executions : attempt[f] \in Nat
  BY CircleAssumption DEF CircleInv, TypeOK
<1>8. \A f \in Executions : execStep[f] = s => attempt[f] < n
  BY <1>3 DEF IsNextAttempt, AttemptsOf
<1>9. Route' = Route /\ s \in Route
  BY <1>2 DEF Route
<1>10. RouteNumbered'
  BY <1>2, <1>9 DEF CircleInv, RouteNumbered
<1>11. RouteOrder'
  <2>1. \A t \in Route : position[t] \in Nat
    BY CircleAssumption DEF CircleInv, TypeOK, Route
  <2> QED BY <1>1, <1>2, <1>9, <2>1 DEF RouteOrder, Route
<1>12. LifecycleMatchesRoute'
  BY <1>1, <1>2, <1>9 DEF LifecycleMatchesRoute, WithStatus, Route
<1>13. RunningMatchesActive'
  <2>1. \A f \in Executions : execStatus'[f] = "running" => f = e
    BY <1>4, <1>6
  <2>2. IsLatest(e)'
    BY <1>4, <1>7, <1>8 DEF IsLatest, AttemptsOf
  <2>3. \A t \in Steps : stepStatus'[t] = "active" => t = s
    BY <1>1, <1>2 DEF Route
  <2> QED
    BY <1>2, <1>4, <2>1, <2>2, <2>3 DEF RunningMatchesActive, WithStatus, AttemptsOf
<1>14. CompletedMatchesResult'
  BY <1>2, <1>3, <1>4, <1>5
  DEF CircleInv, CompletedMatchesResult, WithStatus, IsLatest, AttemptsOf
<1>15. FailedMatchesResult'
  BY <1>1, <1>2 DEF FailedMatchesResult, WithStatus, Route
<1>16. AttemptsNumbered'
  <2>1. \A f \in Executions : /\ attempt'[f] = 0 <=> execStep'[f] = NoStep
                              /\ execStatus'[f] \in {"unused", "erased"} <=> execStep'[f] = NoStep
    BY <1>3, <1>4, <1>5 DEF CircleInv, AttemptsNumbered
  <2>2. \A f, g \in Executions :
          execStep'[f] # NoStep /\ execStep'[f] = execStep'[g] /\ attempt'[f] = attempt'[g] => f = g
    BY <1>4, <1>7, <1>8, <1>3 DEF CircleInv, AttemptsNumbered
  <2>3. \A f \in Executions : \A k \in 1..attempt'[f] :
          \E g \in Executions : execStep'[g] = execStep'[f] /\ attempt'[g] = k
    <3> SUFFICES ASSUME NEW f \in Executions, NEW k \in 1..attempt'[f]
                 PROVE  \E g \in Executions : execStep'[g] = execStep'[f] /\ attempt'[g] = k
      OBVIOUS
    <3>1. CASE f # e
      <4>1. PICK g \in Executions : execStep[g] = execStep[f] /\ attempt[g] = k
        BY <1>4, <3>1 DEF CircleInv, AttemptsNumbered, AttemptsOf
      <4>2. execStep[f] # NoStep
        BY <1>4, <1>7, <3>1 DEF CircleInv, AttemptsNumbered
      <4> QED BY <1>4, <1>5, <3>1, <4>1, <4>2
    <3>2. CASE f = e /\ k = n
      BY <1>4, <3>2
    <3>3. CASE f = e /\ k # n
      <4>1. k \in 1..(n - 1) /\ n # 1
        BY <1>3, <1>4, <3>3
      <4>2. PICK h \in Executions : execStep[h] = s /\ attempt[h] = n - 1
        BY <1>3, <4>1 DEF IsNextAttempt, AttemptsOf
      <4>3. PICK g \in Executions : execStep[g] = s /\ attempt[g] = k
        BY <4>1, <4>2 DEF CircleInv, AttemptsNumbered, AttemptsOf
      <4> QED BY <1>4, <1>5, <3>3, <4>3
    <3> QED BY <3>1, <3>2, <3>3
  <2> QED
    BY <2>1, <2>2, <2>3 DEF AttemptsNumbered, AttemptsOf
<1> QED
  BY <1>10, <1>11, <1>12, <1>13, <1>14, <1>15, <1>16 DEF CircleInv

\* The requester returns a completed stage, or the last stage by reopening:
\* the stage is ready, later stages wait, and no success stands at or after it.
LEMMA Withdrawing ==
  ASSUME CircleInv, TypeOK', lifecycle \in {"review", "closed"}, NEW s \in Route,
         stepStatus' = ReturnedStatus(s), execStatus' = ReturnedResults(s),
         lifecycle' = "planned", UNCHANGED <<position, execStep, attempt, startedBy>>
  PROVE  CircleInv'
<1>1. \A t \in Route : stepStatus[t] = "completed" /\ position[t] \in Nat
  BY CircleAssumption DEF CircleInv, LifecycleMatchesRoute, TypeOK, Route
<1>2. /\ \A t \in Steps : t \notin Route => stepStatus'[t] = "absent"
      /\ stepStatus'[s] = "ready"
      /\ \A t \in Route : t # s =>
           stepStatus'[t] = IF position[s] <= position[t] THEN "pending" ELSE "completed"
  BY <1>1 DEF ReturnedStatus, From, Route
<1>3. Route' = Route
  BY <1>2 DEF Route
<1>4. \A t \in Route : t # s => position[t] # position[s]
  BY DEF CircleInv, RouteNumbered
<1>5. \A e \in Executions : execStatus[e] # "running"
  BY <1>1 DEF CircleInv, RunningMatchesActive, WithStatus, Route
<1>6. \A e \in Executions : execStatus[e] = "succeeded" => execStep[e] \in Route
  BY DEF CircleInv, CompletedMatchesResult, WithStatus, Route
<1>7. \A e \in Executions :
        execStatus'[e] = IF execStatus[e] = "succeeded" /\ execStep[e] = s THEN "returned"
                         ELSE IF execStatus[e] = "succeeded" /\ position[s] <= position[execStep[e]]
                              THEN "superseded" ELSE execStatus[e]
  BY <1>6 DEF ReturnedResults, From
<1>8. RouteNumbered'
  BY <1>3 DEF CircleInv, RouteNumbered
<1>9. RouteOrder'
  BY <1>1, <1>2, <1>3, <1>4 DEF RouteOrder
<1>10. LifecycleMatchesRoute'
  BY <1>2 DEF LifecycleMatchesRoute, WithStatus
<1>11. RunningMatchesActive'
  BY <1>2, <1>5, <1>7 DEF RunningMatchesActive, WithStatus
<1>12. CompletedMatchesResult'
  <2>1. ASSUME NEW t \in Steps, stepStatus'[t] = "completed"
        PROVE  \E e \in Executions : execStep[e] = t /\ execStatus'[e] = "succeeded"
    <3>1. t \in Route /\ t # s /\ ~(position[s] <= position[t])
      BY <1>2, <2>1
    <3>2. PICK e \in Executions : execStep[e] = t /\ execStatus[e] = "succeeded"
      BY <1>1, <3>1 DEF CircleInv, CompletedMatchesResult, WithStatus, AttemptsOf
    <3> QED BY <1>7, <3>1, <3>2
  <2>2. ASSUME NEW e \in Executions, execStatus'[e] = "succeeded"
        PROVE  execStep[e] \in Steps /\ stepStatus'[execStep[e]] = "completed" /\ IsLatest(e)
    <3>1. execStatus[e] = "succeeded" /\ execStep[e] # s /\ ~(position[s] <= position[execStep[e]])
      BY <1>7, <2>2
    <3> QED
      BY <1>2, <1>6, <3>1 DEF CircleInv, CompletedMatchesResult, Route
  <2> QED
    BY <2>1, <2>2 DEF CompletedMatchesResult, WithStatus, IsLatest, AttemptsOf
<1>13. FailedMatchesResult'
  BY <1>2 DEF FailedMatchesResult, WithStatus
<1>14. AttemptsNumbered'
  <2>1. \A e \in Executions :
          execStatus'[e] \in {"unused", "erased"} <=> execStatus[e] \in {"unused", "erased"}
    BY <1>7
  <2> QED BY <2>1, CircleAssumption DEF CircleInv, AttemptsNumbered, AttemptsOf
<1> QED
  BY <1>8, <1>9, <1>10, <1>11, <1>12, <1>13, <1>14 DEF CircleInv

\* Making a stage that is not completed and not running ready or assigned,
\* by a bidding (Assign) or for another try (Retry).
LEMMA Offering ==
  ASSUME CircleInv, TypeOK', NEW s \in Steps, NEW st \in {"ready", "assigned"},
         \/ stepStatus[s] = "ready" /\ lifecycle' = lifecycle
         \/ stepStatus[s] = "failed" /\ lifecycle' = "planned",
         stepStatus' = [stepStatus EXCEPT ![s] = st],
         \A t \in Steps : t # s => claimedBy'[t] = claimedBy[t],
         UNCHANGED <<position, execVars>>
  PROVE  CircleInv'
<1>1. \A t \in Route : t # s =>
           \/ position[t] < position[s] /\ stepStatus[t] = "completed"
           \/ position[s] < position[t] /\ stepStatus[t] = "pending"
  BY OneCurrentStage
<1>2. stepStatus'[s] = st /\ \A t \in Steps : t # s => stepStatus'[t] = stepStatus[t]
  BY DEF CircleInv, TypeOK
<1>3. Route' = Route /\ s \in Route
  BY <1>2 DEF Route
<1>4. RouteNumbered'
  BY <1>3 DEF CircleInv, RouteNumbered
<1>5. RouteOrder'
  <2>1. \A t \in Route : position[t] \in Nat
    BY CircleAssumption DEF CircleInv, TypeOK, Route
  <2> QED BY <1>1, <1>2, <1>3, <2>1 DEF RouteOrder, Route
<1>6. lifecycle' \in {"planned", lifecycle} /\ lifecycle \notin {"review", "closed", "active"}
  <2>1. s \in Route /\ s \notin WithStatus({"completed"})
    BY <1>3 DEF WithStatus
  <2>2. WithStatus({"active"}) = {}
    BY <1>1 DEF WithStatus, Route
  <2> QED BY <2>1, <2>2 DEF CircleInv, LifecycleMatchesRoute, WithStatus
<1>7. LifecycleMatchesRoute'
  BY <1>1, <1>2, <1>3, <1>6 DEF CircleInv, LifecycleMatchesRoute, WithStatus, Route
<1>8. RunningMatchesActive'
  BY <1>2 DEF CircleInv, RunningMatchesActive, WithStatus, AttemptsOf, IsLatest, execVars
<1>9. CompletedMatchesResult'
  BY <1>2 DEF CircleInv, CompletedMatchesResult, WithStatus, AttemptsOf, IsLatest, execVars
<1>10. FailedMatchesResult'
  BY <1>2 DEF CircleInv, FailedMatchesResult, WithStatus, AttemptsOf, IsLatest, execVars
<1>11. AttemptsNumbered'
  BY DEF CircleInv, AttemptsNumbered, AttemptsOf, execVars
<1> QED
  BY <1>4, <1>5, <1>7, <1>8, <1>9, <1>10, <1>11 DEF CircleInv

\* Adding a stage at the end of a planned circle.
LEMMA Adding ==
  ASSUME CircleInv, TypeOK', NEW s \in Steps, NEW type, NEW o, AddStep(s, type, o)
  PROVE  CircleInv'
<1>1. PICK p \in Positions : IsNextPosition(p) /\ position' = [position EXCEPT ![s] = p]
  BY DEF AddStep
<1>2. /\ position'[s] = p /\ p \in Nat /\ p > 0
      /\ \A t \in Steps : t # s => position'[t] = position[t] /\ stepStatus'[t] = stepStatus[t]
      /\ stepStatus'[s] = IF Route = {} THEN "ready" ELSE "pending"
  BY <1>1, CircleAssumption DEF AddStep, NewStageStatus, Positions, CircleInv, TypeOK
<1>3. s \notin Route /\ Route' = Route \cup {s}
  BY <1>2 DEF AddStep, Route
<1>4. \A t \in Route : t # s /\ position[t] \in Nat /\ position[t] < p
  BY <1>1, <1>3, CircleAssumption DEF IsNextPosition, CircleInv, TypeOK, Route
<1>5. lifecycle = "planned" /\ lifecycle' = "planned" /\ UNCHANGED <<claimedBy, execVars>>
  BY DEF AddStep
<1>6. stepStatus[s] = "absent"
  BY <1>3 DEF Route
<1>7. RouteNumbered'
  <2>1. \A t \in Steps : position'[t] = 0 <=> t \notin Route'
    BY <1>2, <1>3 DEF CircleInv, RouteNumbered
  <2>2. \A t, u \in Route' : position'[t] = position'[u] => t = u
    BY <1>2, <1>3, <1>4 DEF CircleInv, RouteNumbered, Route
  <2>3. \A t \in Route' : \A q \in 1..position'[t] : \E u \in Route' : position'[u] = q
    <3> SUFFICES ASSUME NEW t \in Route', NEW q \in 1..position'[t]
                 PROVE  \E u \in Route' : position'[u] = q
      OBVIOUS
    <3>1. \A u \in Route : \A k \in 1..position[u] : \E v \in Route : position[v] = k
      BY DEF CircleInv, RouteNumbered
    <3>2. \A u \in Route : position'[u] = position[u]
      BY <1>2, <1>3 DEF Route
    <3>3. CASE q = p
      BY <1>2, <1>3, <3>3
    <3>4. CASE q # p
      <4>1. PICK u \in Route : q \in 1..position[u]
        <5>1. CASE t = s
          <6>1. p # 1 /\ q \in 1..(p - 1)
            BY <1>2, <3>4, <5>1
          <6> QED BY <1>1, <6>1 DEF IsNextPosition
        <5>2. CASE t # s
          BY <1>3, <3>2, <5>2
        <5> QED BY <5>1, <5>2
      <4> QED BY <1>3, <3>1, <3>2, <4>1
    <3> QED BY <3>3, <3>4
  <2> QED BY <2>1, <2>2, <2>3 DEF RouteNumbered
<1>8. RouteOrder'
  <2> SUFFICES ASSUME NEW t \in Route', NEW u \in Route', position'[t] < position'[u],
                      stepStatus'[u] # "pending"
               PROVE  stepStatus'[t] = "completed"
    BY DEF RouteOrder
  <2>1. CASE u = s
    BY <1>2, <1>3, <1>4, <2>1
  <2>2. CASE u # s
    <3>1. u \in Route /\ t # s
      BY <1>2, <1>3, <1>4, <2>2 DEF Route
    <3> QED BY <1>2, <1>3, <2>2, <3>1 DEF CircleInv, RouteOrder, Route
  <2> QED BY <2>1, <2>2
<1>9. LifecycleMatchesRoute'
  BY <1>2, <1>5 DEF CircleInv, LifecycleMatchesRoute, WithStatus
<1>10. RunningMatchesActive'
  BY <1>2, <1>5, <1>6
  DEF CircleInv, RunningMatchesActive, WithStatus, AttemptsOf, IsLatest, execVars
<1>11. CompletedMatchesResult'
  BY <1>2, <1>5, <1>6
  DEF CircleInv, CompletedMatchesResult, WithStatus, AttemptsOf, IsLatest, execVars
<1>12. FailedMatchesResult'
  BY <1>2, <1>5 DEF CircleInv, FailedMatchesResult, WithStatus, AttemptsOf, IsLatest, execVars
<1>13. AttemptsNumbered'
  BY <1>5 DEF CircleInv, AttemptsNumbered, AttemptsOf, execVars
<1> QED
  BY <1>7, <1>8, <1>9, <1>10, <1>11, <1>12, <1>13 DEF CircleInv

\* Deleting a stage of a planned circle with its attempts, and closing the gap.
LEMMA Deleting ==
  ASSUME CircleInv, TypeOK', NEW s \in Steps, DeleteStep(s)
  PROVE  CircleInv'
<1>1. /\ s \in Route /\ stepStatus'[s] = "absent" /\ position'[s] = 0
      /\ \A t \in Steps : t # s =>
           /\ stepStatus'[t] = stepStatus[t] /\ claimedBy'[t] = claimedBy[t]
           /\ position'[t] = IF position[t] > position[s] THEN position[t] - 1 ELSE position[t]
      /\ lifecycle = "planned" /\ lifecycle' = "planned"
  BY DEF DeleteStep, Compacted, CircleInv, TypeOK
<1>2. Route' = Route \ {s}
  BY <1>1 DEF Route
<1>3. /\ \A t \in Route : position[t] \in Nat /\ position[t] > 0
      /\ \A t, u \in Route : position[t] = position[u] => t = u
  BY CircleAssumption DEF CircleInv, TypeOK, RouteNumbered, Route
<1>4. \A e \in Executions :
        IF execStep[e] = s
        THEN execStatus'[e] = "erased" /\ execStep'[e] = NoStep /\ attempt'[e] = 0
        ELSE /\ execStatus'[e] = execStatus[e] /\ execStep'[e] = execStep[e]
             /\ attempt'[e] = attempt[e] /\ startedBy'[e] = startedBy[e]
  BY DEF DeleteStep, ErasedWith, AttemptsOf
<1>5. s # NoStep /\ \A t \in Steps : t # NoStep
  BY CircleAssumption
<1>6. \A e \in Executions : execStatus[e] # "running"
  BY <1>1 DEF CircleInv, LifecycleMatchesRoute, RunningMatchesActive
<1>7. RouteNumbered'
  <2>1. \A t \in Steps : position'[t] = 0 <=> t \notin Route'
    BY <1>1, <1>2, <1>3 DEF CircleInv, RouteNumbered
  <2>2. \A t, u \in Route' : position'[t] = position'[u] => t = u
    <3> SUFFICES ASSUME NEW t \in Route', NEW u \in Route', position'[t] = position'[u]
                 PROVE  t = u
      OBVIOUS
    <3>1. t \in Route /\ u \in Route /\ t # s /\ u # s /\ t \in Steps /\ u \in Steps
      BY <1>2 DEF Route
    <3>2. position[t] # position[s] /\ position[u] # position[s]
      BY <1>1, <1>3, <3>1
    <3> QED BY <1>1, <1>3, <3>1, <3>2
  <2>3. \A t \in Route' : \A q \in 1..position'[t] : \E u \in Route' : position'[u] = q
    <3> SUFFICES ASSUME NEW t \in Route', NEW q \in 1..position'[t]
                 PROVE  \E u \in Route' : position'[u] = q
      OBVIOUS
    <3>1. \A u \in Route : \A k \in 1..position[u] : \E v \in Route : position[v] = k
      BY DEF CircleInv, RouteNumbered
    <3>2. t \in Route /\ t # s /\ t \in Steps
      BY <1>2 DEF Route
    <3>3. CASE q < position[s]
      <4>1. q \in 1..position[s] /\ position[s] \in Nat
        BY <1>1, <1>3, <3>3
      <4>2. PICK u \in Route : position[u] = q
        BY <1>1, <3>1, <4>1
      <4>3. u # s /\ position'[u] = q /\ u \in Steps
        BY <1>1, <1>3, <3>3, <4>1, <4>2 DEF Route
      <4> QED BY <1>2, <4>2, <4>3
    <3>4. CASE ~(q < position[s])
      <4>1. q + 1 \in 1..position[t]
        BY <1>1, <1>3, <3>2, <3>4
      <4>2. PICK u \in Route : position[u] = q + 1
        BY <3>1, <3>2, <4>1
      <4>3. u # s /\ position'[u] = q
        BY <1>1, <1>3, <3>4, <4>1, <4>2 DEF Route
      <4> QED BY <1>2, <4>2, <4>3
    <3> QED BY <3>3, <3>4
  <2> QED BY <2>1, <2>2, <2>3 DEF RouteNumbered
<1>8. RouteOrder'
  <2> SUFFICES ASSUME NEW t \in Route', NEW u \in Route', position'[t] < position'[u],
                      stepStatus'[u] # "pending"
               PROVE  stepStatus'[t] = "completed"
    BY DEF RouteOrder
  <2>1. t \in Route /\ u \in Route /\ t # s /\ u # s /\ t \in Steps /\ u \in Steps
    BY <1>2 DEF Route
  <2>2. position[t] < position[u]
    BY <1>1, <1>3, <2>1
  <2> QED BY <1>1, <2>1, <2>2 DEF CircleInv, RouteOrder
<1>9. LifecycleMatchesRoute'
  BY <1>1 DEF CircleInv, LifecycleMatchesRoute, WithStatus
<1>10. RunningMatchesActive'
  BY <1>1, <1>4, <1>6 DEF CircleInv, LifecycleMatchesRoute, RunningMatchesActive, WithStatus
<1>11. CompletedMatchesResult'
  BY <1>1, <1>4, <1>5
  DEF CircleInv, CompletedMatchesResult, WithStatus, AttemptsOf, IsLatest
<1>12. FailedMatchesResult'
  BY <1>1, <1>4 DEF CircleInv, LifecycleMatchesRoute, FailedMatchesResult, WithStatus
<1>13. AttemptsNumbered'
  <2>1. \A e \in Executions :
          /\ attempt'[e] = 0 <=> execStep'[e] = NoStep
          /\ execStatus'[e] \in {"unused", "erased"} <=> execStep'[e] = NoStep
    BY <1>4 DEF CircleInv, AttemptsNumbered
  <2>2. \A e, f \in Executions :
          execStep'[e] # NoStep /\ execStep'[e] = execStep'[f] /\ attempt'[e] = attempt'[f] => e = f
    BY <1>4 DEF CircleInv, AttemptsNumbered
  <2>3. \A e \in Executions : \A n \in 1..attempt'[e] :
          \E f \in Executions : execStep'[f] = execStep'[e] /\ attempt'[f] = n
    <3> SUFFICES ASSUME NEW e \in Executions, NEW n \in 1..attempt'[e]
                 PROVE  \E f \in Executions : execStep'[f] = execStep'[e] /\ attempt'[f] = n
      OBVIOUS
    <3>1. execStep[e] # s /\ n \in 1..attempt[e]
      BY <1>4
    <3>2. PICK f \in Executions : execStep[f] = execStep[e] /\ attempt[f] = n
      BY <3>1 DEF CircleInv, AttemptsNumbered, AttemptsOf
    <3> QED BY <1>4, <3>1, <3>2
  <2> QED BY <2>1, <2>2, <2>3 DEF AttemptsNumbered, AttemptsOf
<1> QED
  BY <1>7, <1>8, <1>9, <1>10, <1>11, <1>12, <1>13 DEF CircleInv

\* Steps that touch neither a status, a position, a claim nor an attempt.
LEMMA Untouched ==
  ASSUME CircleInv, TypeOK', UNCHANGED <<stepStatus, position, claimedBy, execVars>>,
         \/ lifecycle' = lifecycle
         \/ lifecycle = "review" /\ lifecycle' = "closed"
  PROVE  CircleInv'
<1>1. Route' = Route
  BY DEF Route
<1>2. RouteNumbered' /\ RouteOrder' /\ LifecycleMatchesRoute'
  BY <1>1 DEF CircleInv, RouteNumbered, RouteOrder, LifecycleMatchesRoute, WithStatus
<1>3. RunningMatchesActive' /\ CompletedMatchesResult' /\ FailedMatchesResult'
  BY DEF CircleInv, RunningMatchesActive, CompletedMatchesResult, FailedMatchesResult,
         WithStatus, AttemptsOf, IsLatest, execVars
<1>4. AttemptsNumbered'
  BY DEF CircleInv, AttemptsNumbered, AttemptsOf, execVars
<1> QED
  BY <1>2, <1>3, <1>4 DEF CircleInv

LEMMA CircleInvInit == Init => CircleInv
<1> SUFFICES ASSUME Init PROVE CircleInv
  OBVIOUS
<1>1. TypeOK
  BY CircleAssumption DEF Init, TypeOK, Lifecycle, StepStatus, ExecStatus
<1>2. Route = {}
  BY DEF Init, Route
<1>3. RouteNumbered /\ RouteOrder
  BY <1>2 DEF Init, RouteNumbered, RouteOrder
<1>4. LifecycleMatchesRoute /\ FailedMatchesResult
  BY DEF Init, LifecycleMatchesRoute, FailedMatchesResult, WithStatus
<1>5. RunningMatchesActive /\ CompletedMatchesResult
  BY DEF Init, RunningMatchesActive, CompletedMatchesResult, WithStatus
<1>6. AttemptsNumbered
  BY CircleAssumption DEF Init, AttemptsNumbered
<1> QED
  BY <1>1, <1>3, <1>4, <1>5, <1>6 DEF CircleInv

\* One step per handler.
LEMMA CircleInvStep ==
  ASSUME CircleInv, [Next]_vars
  PROVE  CircleInv'
<1> USE CircleAssumption
<1>1. TypeOK'
  BY TypeStep DEF CircleInv
<1>2. ASSUME NEW s \in Steps, NEW type \in StageTypes, NEW o \in Offers \cup {Exchange},
             AddStep(s, type, o)
      PROVE  CircleInv'
  BY <1>1, <1>2, Adding
<1>3. ASSUME NEW s \in Steps, NEW o, UpdateStep(s, o)
      PROVE  CircleInv'
  BY <1>1, <1>3, Untouched DEF UpdateStep
<1>4. ASSUME NEW q \in Offers, AddRequirement(q)
      PROVE  CircleInv'
  BY <1>1, <1>4, Untouched DEF AddRequirement
<1>5. ASSUME NEW s \in Steps, DeleteStep(s)
      PROVE  CircleInv'
  BY <1>1, <1>5, Deleting
<1>6. ASSUME NEW s \in Steps, NEW a \in Actors, Assign(s, a)
      PROVE  CircleInv'
  <2>1. \A t \in Steps : t # s => claimedBy'[t] = claimedBy[t]
    BY <1>6 DEF Assign, CircleInv, TypeOK
  <2> QED BY <1>1, <1>6, <2>1, Offering DEF Assign
<1>7. ASSUME NEW a \in Actors, Claim(a)
      PROVE  CircleInv'
  BY <1>1, <1>7, Activating DEF Claim, First, WithStatus
<1>8. ASSUME NEW s \in Steps, Lease(s)
      PROVE  CircleInv'
  BY <1>1, <1>8, Activating DEF Lease
<1>9. ASSUME NEW a \in Actors, Submit(a)
      PROVE  CircleInv'
  <2>1. PICK s \in Steps :
          /\ \E e \in AttemptsOf(s) :
               /\ execStatus[e] = "running"
               /\ execStatus' = [execStatus EXCEPT ![e] = "succeeded"]
          /\ CompleteStage(s)
    BY <1>9 DEF Submit, First, WithStatus
  <2>2. PICK e \in Executions :
          /\ execStep[e] = s /\ execStatus[e] = "running"
          /\ execStatus' = [execStatus EXCEPT ![e] = "succeeded"]
    BY <2>1 DEF AttemptsOf
  <2> QED BY <1>1, <1>9, <2>1, <2>2, Completing DEF Submit
<1>10. ASSUME NEW e \in Executions, NEW r \in {"succeeded", "failed", "timed_out"},
              Complete(e, r)
       PROVE  CircleInv'
  <2>1. CASE r = "succeeded"
    BY <1>1, <1>10, <2>1, Completing DEF Complete, ReportAccepted
  <2>2. CASE r # "succeeded"
    BY <1>1, <1>10, <2>2, Failing DEF Complete, ReportAccepted, Failures
  <2> QED BY <2>1, <2>2
<1>11. CASE Cancel
  <2>1. PICK s \in Steps :
          /\ \E f \in AttemptsOf(s) : execStatus[f] = "running" /\ CancelExecution(f)
          /\ FailStage(s)
    BY <1>11 DEF Cancel, First, WithStatus
  <2>2. PICK e \in AttemptsOf(s) : execStatus[e] = "running" /\ CancelExecution(e)
    BY <2>1
  <2>3. e \in Executions /\ execStep[e] = s
    BY DEF AttemptsOf
  <2> QED
    BY <1>1, <1>11, <2>1, <2>2, <2>3, Failing DEF Cancel, CancelExecution, Failures
<1>12. CASE Retry
  <2>1. PICK s \in Steps : /\ stepStatus[s] = "failed"
                           /\ stepStatus' = [stepStatus EXCEPT ![s] = "ready"]
                           /\ claimedBy' = [claimedBy EXCEPT ![s] = Nobody]
    BY <1>12 DEF Retry, First, WithStatus
  <2>2. \A t \in Steps : t # s => claimedBy'[t] = claimedBy[t]
    BY <2>1 DEF CircleInv, TypeOK
  <2> QED BY <1>1, <1>12, <2>1, <2>2, Offering DEF Retry
<1>13. CASE Close
  BY <1>1, <1>13, Untouched DEF Close, stepVars
<1>14. ASSUME NEW s \in Steps, Return(s)
       PROVE  CircleInv'
  <2>1. s \in Route
    BY <1>14 DEF Return, Route
  <2> QED BY <1>1, <1>14, <2>1, Withdrawing DEF Return
<1>15. CASE Reopen
  <2>1. PICK s \in Last(Route) :
          /\ stepStatus' = [stepStatus EXCEPT ![s] = "ready"]
          /\ execStatus' = [e \in Executions |->
                              IF execStep[e] = s /\ execStatus[e] = "succeeded"
                              THEN "returned" ELSE execStatus[e]]
    BY <1>15 DEF Reopen
  <2>2. s \in Route /\ s \in Steps /\ \A t \in Route : position[t] <= position[s]
    BY DEF Last, Route
  <2>3. From(s) = {s}
    <3>1. \A t \in Route : position[t] \in Nat
      BY DEF CircleInv, TypeOK, Route
    <3>2. \A t \in Route : position[t] = position[s] => t = s
      BY <2>2 DEF CircleInv, RouteNumbered
    <3> QED BY <2>2, <3>1, <3>2 DEF From
  <2>4. stepStatus' = ReturnedStatus(s)
    BY <2>1, <2>2, <2>3 DEF ReturnedStatus, CircleInv, TypeOK
  <2>5. execStatus' = ReturnedResults(s)
    BY <2>1, <2>3 DEF ReturnedResults
  <2> QED BY <1>1, <1>15, <2>2, <2>4, <2>5, Withdrawing DEF Reopen
<1>16. CASE UNCHANGED vars
  BY <1>1, <1>16, Untouched DEF vars, stepVars, execVars
<1> QED
  BY <1>2, <1>3, <1>4, <1>5, <1>6, <1>7, <1>8, <1>9, <1>10, <1>11, <1>12, <1>13, <1>14,
     <1>15, <1>16
  DEF Next, Edit, Perform, Decide

\* The inductive invariant holds of every circle, for any number of stages,
\* attempts and actors.
THEOREM CircleSafe == Spec => []CircleInv
  BY CircleInvInit, CircleInvStep, PTL DEF Spec

\* Stages run strictly one after the other (docs/concepts.md:288).
THEOREM StagesInOrder == Spec => []RouteOrder
  BY CircleSafe, PTL DEF CircleInv

-----------------------------------------------------------------------------
(* What no step does.                                                      *)

\* A handler that changes the status of one running attempt changes no result.
LEMMA OneRunning ==
  ASSUME TypeOK, NEW e \in Executions, execStatus[e] = "running", NEW r,
         execStatus' = [execStatus EXCEPT ![e] = r]
  PROVE  ResultsKept
  BY DEF TypeOK, ResultsKept, Finished, Failures

LEMMA ResultsStep ==
  ASSUME CircleInv, [Next]_vars
  PROVE  ResultsKept
<1> USE DEF Finished, Failures
<1>1. TypeOK
  BY DEF CircleInv
<1>2. ASSUME UNCHANGED execStatus
      PROVE  ResultsKept
  BY <1>2 DEF ResultsKept
<1>3. CASE Edit
  <2>1. ASSUME NEW s \in Steps, DeleteStep(s)
        PROVE  ResultsKept
    BY <2>1 DEF DeleteStep, ErasedWith, ResultsKept
  <2> QED BY <1>2, <1>3, <2>1 DEF Edit, AddStep, UpdateStep, AddRequirement, execVars
<1>4. CASE Perform
  <2>1. ASSUME NEW s \in Steps, NEW by, Activate(s, by)
        PROVE  ResultsKept
    BY <1>1, <2>1 DEF Activate, StartExecution, ResultsKept, TypeOK
  <2>2. ASSUME NEW a \in Actors, Submit(a)
        PROVE  ResultsKept
    BY <1>1, <2>2, OneRunning DEF Submit, AttemptsOf
  <2>3. ASSUME NEW e \in Executions, NEW r, Complete(e, r)
        PROVE  ResultsKept
    BY <1>1, <2>3, OneRunning DEF Complete, ReportAccepted
  <2>4. ASSUME NEW s \in Steps, NEW a \in Actors, Assign(s, a)
        PROVE  ResultsKept
    BY <1>2, <2>4 DEF Assign, execVars
  <2> QED
    BY <1>4, <2>1, <2>2, <2>3, <2>4 DEF Perform, Claim, Lease, First, WithStatus
<1>5. CASE Decide
  <2>1. CASE Cancel
    BY <1>1, <2>1, OneRunning DEF Cancel, CancelExecution, AttemptsOf
  <2>2. CASE Retry \/ Close
    BY <1>2, <2>2 DEF Retry, Close, execVars
  <2>3. ASSUME NEW s \in Steps, Return(s)
        PROVE  ResultsKept
    BY <2>3 DEF Return, ReturnedResults, ResultsKept
  <2>4. CASE Reopen
    BY <2>4 DEF Reopen, ResultsKept
  <2> QED BY <1>5, <2>1, <2>2, <2>3, <2>4 DEF Decide
<1>6. CASE UNCHANGED vars
  BY <1>2, <1>6 DEF vars, execVars
<1> QED
  BY <1>3, <1>4, <1>5, <1>6 DEF Next

\* The outcome of an attempt is never rewritten: not by a late or repeated
\* report of a runner (runner.go:137), not by a performer (circle.go:747) and
\* not by a cancellation (circle.go:937).
THEOREM ResultsFinal == Spec => ResultsAreFinal
<1>1. CircleInv /\ [Next]_vars => [ResultsKept]_vars
  BY ResultsStep
<1> QED
  BY <1>1, CircleSafe, PTL DEF Spec, ResultsAreFinal

LEMMA CompletionStep ==
  ASSUME CircleInv, [Next]_vars
  PROVE  CompletionKept
<1>1. stepStatus \in [Steps -> StepStatus]
  BY DEF CircleInv, TypeOK
<1>2. ASSUME NEW s \in Steps, stepStatus[s] # "completed", NEW v,
             stepStatus' = [stepStatus EXCEPT ![s] = v]
      PROVE  CompletionKept
  BY <1>1, <1>2 DEF CompletionKept, WithStatus
<1>3. ASSUME UNCHANGED stepStatus
      PROVE  CompletionKept
  BY <1>3 DEF CompletionKept, WithStatus
<1>4. CASE Edit
  <2>1. ASSUME NEW s \in Steps, DeleteStep(s)
        PROVE  CompletionKept
    BY <1>1, <2>1 DEF DeleteStep, CompletionKept, WithStatus
  <2>2. ASSUME NEW s \in Steps, NEW type, NEW o, AddStep(s, type, o)
        PROVE  CompletionKept
    BY <1>2, <2>2 DEF AddStep, Route
  <2> QED BY <1>3, <1>4, <2>1, <2>2 DEF Edit, UpdateStep, AddRequirement
<1>5. ASSUME NEW e \in Executions, execStatus[e] = "running", CompleteStage(execStep[e])
      PROVE  CompletionKept
  BY <1>1, <1>5 DEF CompleteStage, First, WithStatus, CompletionKept
<1>6. ASSUME NEW e \in Executions, execStatus[e] = "running", FailStage(execStep[e])
      PROVE  CompletionKept
  <2>1. execStep[e] \in Steps /\ stepStatus[execStep[e]] = "active"
    BY <1>6 DEF CircleInv, RunningMatchesActive, WithStatus
  <2> QED BY <1>2, <1>6, <2>1 DEF FailStage
<1>7. CASE Perform
  <2>1. ASSUME NEW s \in Steps, stepStatus[s] # "completed", NEW by, Activate(s, by)
        PROVE  CompletionKept
    BY <1>2, <2>1 DEF Activate
  <2>2. ASSUME NEW a \in Actors, Submit(a)
        PROVE  CompletionKept
    BY <1>5, <2>2 DEF Submit, AttemptsOf
  <2>3. ASSUME NEW e \in Executions, NEW r, Complete(e, r)
        PROVE  CompletionKept
    BY <1>5, <1>6, <2>3 DEF Complete, ReportAccepted
  <2>4. ASSUME NEW s \in Steps, NEW a \in Actors, Assign(s, a)
        PROVE  CompletionKept
    BY <1>2, <2>4 DEF Assign
  <2> QED
    BY <1>7, <2>1, <2>2, <2>3, <2>4 DEF Perform, Claim, Lease, First, WithStatus
<1>8. CASE Decide
  <2>1. CASE Cancel
    BY <1>6, <2>1 DEF Cancel, AttemptsOf
  <2>2. CASE Retry
    BY <1>2, <2>2 DEF Retry, First, WithStatus
  <2>3. CASE Close
    BY <1>3, <2>3 DEF Close, stepVars
  <2>4. CASE Reopen \/ \E s \in Steps : Return(s)
    BY <2>4 DEF Reopen, Return, CompletionKept
  <2> QED BY <1>8, <2>1, <2>2, <2>3, <2>4 DEF Decide
<1>9. CASE UNCHANGED vars
  BY <1>3, <1>9 DEF vars, stepVars
<1> QED
  BY <1>4, <1>7, <1>8, <1>9 DEF Next

\* A completed stage stays completed until the requester, holding the whole
\* result, returns or reopens it, or an edit deletes it.
THEOREM CompletionsKept == Spec => ProgressKept
<1>1. CircleInv /\ [Next]_vars => [CompletionKept]_vars
  BY CompletionStep
<1> QED
  BY <1>1, CircleSafe, PTL DEF Spec, ProgressKept

-----------------------------------------------------------------------------
(* The circle implements the sequential route.                             *)

\* The stages that count as done, and those that are offered.
Done == WithStatus({"completed"})
Current == WithStatus({"ready", "assigned"})

\* Positions number the route, so that it is finite for any set of stages.
LEMMA RouteFinite ==
  ASSUME CircleInv
  PROVE  IsFiniteSet(Route) /\ Done \subseteq Route /\ Current \subseteq Route
<1> DEFINE f == [s \in Route |-> position[s]]
<1>1. f \in Injection(Route, 0 .. MaxStages)
  BY DEF Injection, IsInjective, CircleInv, TypeOK, RouteNumbered, Route
<1>2. IsFiniteSet(0 .. MaxStages)
  BY CircleAssumption, FS_Interval
<1>3. IsFiniteSet(Route)
  <2> HIDE DEF f
  <2> QED
    BY <1>1, <1>2, FS_Injection
<1> QED
  BY <1>3 DEF Done, Current, WithStatus, Route

\* What a set of stages counts, with and without one of them.
LEMMA Counts ==
  ASSUME NEW R, IsFiniteSet(R), NEW D \in SUBSET R
  PROVE  /\ IsFiniteSet(D) /\ Cardinality(R) \in Nat /\ Cardinality(D) \in Nat
         /\ Cardinality(D) <= Cardinality(R)
         /\ Cardinality(R) = 0 <=> R = {}
         /\ \A s \in R : Cardinality(R \ {s}) = Cardinality(R) - 1
         /\ \A s : s \notin R => Cardinality(R \cup {s}) = Cardinality(R) + 1
         /\ \A s \in D : Cardinality(D) > 0 /\ Cardinality(D \ {s}) = Cardinality(D) - 1
         /\ \A s : s \notin D => Cardinality(D \cup {s}) = Cardinality(D) + 1
<1>1. /\ IsFiniteSet(D) /\ Cardinality(D) <= Cardinality(R)
      /\ Cardinality(R) \in Nat /\ Cardinality(D) \in Nat
  BY FS_Subset, FS_CardinalityType
<1>2. (Cardinality(R) = 0 <=> R = {}) /\ (Cardinality(D) = 0 <=> D = {})
  BY <1>1, FS_EmptySet
<1>3. \A s \in R : Cardinality(R \ {s}) = Cardinality(R) - 1
  BY FS_RemoveElement
<1>4. \A s : s \notin R => Cardinality(R \cup {s}) = Cardinality(R) + 1
  BY FS_AddElement
<1>5. \A s \in D : Cardinality(D \ {s}) = Cardinality(D) - 1
  BY <1>1, FS_RemoveElement
<1>6. \A s : s \notin D => Cardinality(D \cup {s}) = Cardinality(D) + 1
  BY <1>1, FS_AddElement
<1>7. \A s \in D : Cardinality(D) > 0
  BY <1>1, <1>2
<1> QED
  BY <1>1, <1>2, <1>3, <1>4, <1>5, <1>6, <1>7

\* The phase follows the lifecycle.
LEMMA PhaseIs ==
  /\ lifecycle = "active" => Phase = "working"
  /\ lifecycle = "blocked" => Phase = "stopped"
  /\ lifecycle = "review" => Phase = "review"
  /\ lifecycle = "closed" => Phase = "closed"
  /\ lifecycle = "planned" => Phase = IF Current = {} THEN "idle" ELSE "offered"
BY DEF Phase, Current

\* And so it does after a step.
LEMMA PhaseWillBe ==
  /\ lifecycle' = "active" => Phase' = "working"
  /\ lifecycle' = "blocked" => Phase' = "stopped"
  /\ lifecycle' = "review" => Phase' = "review"
  /\ lifecycle' = "closed" => Phase' = "closed"
  /\ lifecycle' = "planned" => Phase' = IF Current' = {} THEN "idle" ELSE "offered"
BY DEF Phase, Current


\* Nothing changes for who looks at the circle.
LEMMA Stutters ==
  ASSUME Route' = Route, Done' = Done, Phase' = Phase
  PROVE  UNCHANGED <<Cardinality(Route), Cardinality(WithStatus({"completed"})), Phase>>
BY DEF Done

\* A new stage comes behind the others.
LEMMA AddingStage ==
  ASSUME CircleInv, NEW s \in Steps, NEW type, NEW o, AddStep(s, type, o)
  PROVE  Sequential!AddStage
<1>1. IsFiniteSet(Route) /\ Done \subseteq Route /\ Current \subseteq Route
  BY RouteFinite
<1>2. /\ lifecycle = "planned" /\ lifecycle' = "planned" /\ s \notin Route
      /\ stepStatus' = [stepStatus EXCEPT ![s] = IF Route = {} THEN "ready" ELSE "pending"]
      /\ stepStatus \in [Steps -> StepStatus]
  BY DEF AddStep, NewStageStatus, CircleInv, TypeOK
<1>3. /\ Route' = Route \cup {s} /\ Done' = Done
      /\ Current' = IF Route = {} THEN {s} ELSE Current
  BY <1>1, <1>2 DEF Route, Done, Current, WithStatus
<1>4. Cardinality(Route') = Cardinality(Route) + 1 /\ (Cardinality(Route) = 0 <=> Route = {})
  BY <1>1, <1>2, <1>3, Counts
<1>5. Phase' = IF Cardinality(Route) = 0 THEN "offered" ELSE Phase
  BY <1>2, <1>3, <1>4, PhaseIs, PhaseWillBe
<1>6. Phase \in {"idle", "offered"}
  BY <1>2, PhaseIs
<1> QED
  BY <1>3, <1>4, <1>5, <1>6 DEF Sequential!AddStage, Sequential!Editable, Done

\* A deletion takes a completed stage, a waiting one, or the offered one.
LEMMA DeletingStage ==
  ASSUME CircleInv, NEW s \in Steps, DeleteStep(s)
  PROVE  \/ Sequential!RemoveCompletedStage
         \/ Sequential!RemoveWaitingStage
         \/ Sequential!RemoveOfferedStage
<1>1. IsFiniteSet(Route) /\ Done \subseteq Route /\ Current \subseteq Route
  BY RouteFinite
<1>2. /\ lifecycle = "planned" /\ lifecycle' = "planned" /\ s \in Route
      /\ stepStatus' = [stepStatus EXCEPT ![s] = "absent"]
      /\ stepStatus \in [Steps -> StepStatus]
  BY DEF DeleteStep, CircleInv, TypeOK
<1>3. Route' = Route \ {s} /\ Done' = Done \ {s} /\ Current' = Current \ {s}
  BY <1>1, <1>2 DEF Route, Done, Current, WithStatus
<1>4. /\ Cardinality(Route') = Cardinality(Route) - 1
      /\ Cardinality(Route) \in Nat /\ Cardinality(Done) \in Nat
  BY <1>1, <1>2, <1>3, Counts
<1>5. s \in Done \/ s \in Current \/ stepStatus[s] = "pending"
  BY <1>2 DEF CircleInv, LifecycleMatchesRoute, WithStatus, Done, Current, Route, StepStatus
<1>6. Phase = IF Current = {} THEN "idle" ELSE "offered"
  BY <1>2, PhaseIs
<1>7. Phase' = IF Current' = {} THEN "idle" ELSE "offered"
  BY <1>2, PhaseWillBe
<1>8. CASE s \in Done
  <2>1. Current' = Current
    BY <1>3, <1>8 DEF Done, Current, WithStatus
  <2>2. Cardinality(Done') = Cardinality(Done) - 1 /\ Cardinality(Done) > 0
    BY <1>1, <1>3, <1>8, Counts
  <2>3. Phase' = Phase
    BY <1>6, <1>7, <2>1
  <2> QED
    BY <1>4, <1>6, <2>2, <2>3 DEF Sequential!RemoveCompletedStage, Sequential!Editable, Done
<1>9. CASE stepStatus[s] = "pending"
  <2>1. s \notin Done /\ s \notin Current /\ Done' = Done /\ Current' = Current
    BY <1>3, <1>9 DEF Done, Current, WithStatus
  <2>2. Cardinality(Done) <= Cardinality(Route')
    BY <1>1, <1>3, <2>1, Counts, FS_RemoveElement
  <2>3. ASSUME Current # {}
        PROVE  Cardinality(Done) + 1 <= Cardinality(Route')
    <3>1. PICK c \in Current : c \in Route' /\ c \notin Done
      BY <1>1, <1>3, <2>1, <2>3 DEF Done, Current, WithStatus
    <3>2. Done \cup {c} \in SUBSET Route' /\ IsFiniteSet(Route')
      BY <1>1, <1>3, <2>1, <3>1, FS_RemoveElement
    <3>3. Cardinality(Done \cup {c}) <= Cardinality(Route')
      BY <3>2, Counts
    <3> QED
      BY <1>1, <3>1, <3>3, Counts
  <2>4. Cardinality(Route) > Cardinality(Done) + (IF Phase = "offered" THEN 1 ELSE 0)
    BY <1>4, <1>6, <2>2, <2>3
  <2>5. Phase' = Phase
    BY <1>6, <1>7, <2>1
  <2> QED
    BY <1>4, <1>6, <2>1, <2>4, <2>5 DEF Sequential!RemoveWaitingStage, Sequential!Editable, Done
<1>10. CASE s \in Current
  <2>1. s \notin Done /\ Done' = Done
    BY <1>3, <1>10 DEF Done, Current, WithStatus
  <2>2. stepStatus[s] \in {"ready", "assigned"}
    BY <1>10 DEF Current, WithStatus
  <2>3. \A t \in Route : t # s => stepStatus[t] \in {"completed", "pending"}
    BY <2>2, OneCurrentStage
  <2>4. Current' = {}
    BY <1>1, <1>3, <2>3 DEF Current, WithStatus
  <2>5. Phase = "offered" /\ Phase' = "idle"
    BY <1>6, <1>7, <1>10, <2>4
  <2> QED
    BY <1>4, <2>1, <2>5 DEF Sequential!RemoveOfferedStage, Done
<1> QED
  BY <1>5, <1>8, <1>9, <1>10

\* A claim or a lease starts the offered stage.
LEMMA StartingStage ==
  ASSUME CircleInv, lifecycle = "planned", NEW s \in Steps,
         stepStatus[s] \in {"ready", "assigned"}, NEW by, Activate(s, by)
  PROVE  Sequential!StartWork
<1>1. /\ stepStatus' = [stepStatus EXCEPT ![s] = "active"] /\ lifecycle' = "active"
      /\ stepStatus \in [Steps -> StepStatus]
  BY DEF Activate, CircleInv, TypeOK
<1>2. Route' = Route /\ Done' = Done /\ Current # {}
  BY <1>1 DEF Route, Done, Current, WithStatus
<1>3. Phase = "offered" /\ Phase' = "working"
  BY <1>1, <1>2, PhaseIs, PhaseWillBe
<1> QED
  BY <1>2, <1>3 DEF Sequential!StartWork, Done

\* The stage that runs is done: after the last one of the route comes the review,
\* and "no stage is pending" says that it was the last one.
LEMMA FinishingStage ==
  ASSUME CircleInv, NEW s \in Steps, stepStatus[s] = "active", CompleteStage(s)
  PROVE  Sequential!FinishWork
<1>1. IsFiniteSet(Route) /\ Done \subseteq Route /\ s \in Route /\ s \notin Done
  BY RouteFinite DEF Route, Done, WithStatus
<1>2. stepStatus \in [Steps -> StepStatus] /\ lifecycle = "active"
  BY DEF CircleInv, TypeOK, LifecycleMatchesRoute, WithStatus
<1>3. Phase = "working"
  BY <1>2, PhaseIs
<1>4. \A t \in Route : t # s => stepStatus[t] \in {"completed", "pending"}
  BY OneCurrentStage
<1>5. /\ Cardinality(Done \cup {s}) = Cardinality(Done) + 1
      /\ Cardinality(Done) \in Nat /\ Cardinality(Route) \in Nat
  BY <1>1, Counts
<1>6. CASE /\ WithStatus({"pending"}) = {}
           /\ stepStatus' = [stepStatus EXCEPT ![s] = "completed"]
           /\ lifecycle' = "review"
  <2>1. Route' = Route /\ Done' = Done \cup {s}
    BY <1>1, <1>2, <1>6 DEF Route, Done, WithStatus
  <2>2. Done \cup {s} = Route
    BY <1>1, <1>4, <1>6 DEF Route, Done, WithStatus
  <2>3. Phase' = "review"
    BY <1>6, PhaseWillBe
  <2>4. ~(Cardinality(Done') < Cardinality(Route))
    BY <1>5, <2>1, <2>2
  <2> QED
    BY <1>3, <1>5, <2>1, <2>3, <2>4 DEF Sequential!FinishWork, Done
<1>7. ASSUME NEW n \in First(WithStatus({"pending"})),
             stepStatus' = [stepStatus EXCEPT ![s] = "completed", ![n] = "ready"],
             lifecycle' = "planned"
      PROVE  Sequential!FinishWork
  <2>1. n \in Steps /\ stepStatus[n] = "pending" /\ n # s
    BY DEF First, WithStatus
  <2>2. /\ stepStatus'[s] = "completed" /\ stepStatus'[n] = "ready"
        /\ \A t \in Steps : t # s /\ t # n => stepStatus'[t] = stepStatus[t]
    BY <1>2, <1>7, <2>1
  <2>3. Route' = Route /\ Done' = Done \cup {s} /\ Current' # {}
    BY <1>1, <2>1, <2>2 DEF Route, Done, Current, WithStatus
  <2>4. n \in Route /\ n \notin Done \cup {s}
    BY <2>1 DEF Route, Done, WithStatus
  <2>5. Cardinality(Done \cup {s}) < Cardinality(Route)
    <3>1. IsFiniteSet(Route \ {n}) /\ Done \cup {s} \in SUBSET (Route \ {n})
      BY <1>1, <2>4, FS_RemoveElement
    <3>2. Cardinality(Done \cup {s}) <= Cardinality(Route \ {n})
      BY <3>1, Counts
    <3>3. Cardinality(Route \ {n}) = Cardinality(Route) - 1
      BY <1>1, <2>4, Counts
    <3> QED
      BY <1>5, <3>2, <3>3
  <2>6. Phase' = "offered"
    BY <1>7, <2>3, PhaseWillBe
  <2> QED
    BY <1>3, <1>5, <2>3, <2>5, <2>6 DEF Sequential!FinishWork, Done
<1> QED
  BY <1>6, <1>7 DEF CompleteStage

\* The stage that runs fails.
LEMMA StoppingStage ==
  ASSUME CircleInv, NEW s \in Steps, stepStatus[s] = "active", FailStage(s)
  PROVE  Sequential!StopWork
<1>1. stepStatus \in [Steps -> StepStatus] /\ lifecycle = "active"
  BY DEF CircleInv, TypeOK, LifecycleMatchesRoute, WithStatus
<1>2. stepStatus' = [stepStatus EXCEPT ![s] = "failed"] /\ lifecycle' = "blocked"
  BY DEF FailStage, LifecycleAfterFailure
<1>3. Route' = Route /\ Done' = Done
  BY <1>1, <1>2 DEF Route, Done, WithStatus
<1>4. Phase = "working" /\ Phase' = "stopped"
  BY <1>1, <1>2, PhaseIs, PhaseWillBe
<1> QED
  BY <1>3, <1>4 DEF Sequential!StopWork, Done

\* A failed stage is offered again.
LEMMA RetryingStage ==
  ASSUME CircleInv, Retry
  PROVE  Sequential!RetryWork
<1>1. PICK s \in Steps : /\ stepStatus[s] = "failed"
                         /\ stepStatus' = [stepStatus EXCEPT ![s] = "ready"]
  BY DEF Retry, First, WithStatus
<1>2. stepStatus \in [Steps -> StepStatus] /\ lifecycle = "blocked" /\ lifecycle' = "planned"
  BY DEF Retry, CircleInv, TypeOK
<1>3. Route' = Route /\ Done' = Done /\ Current' # {}
  BY <1>1, <1>2 DEF Route, Done, Current, WithStatus
<1>4. Phase = "stopped" /\ Phase' = "offered"
  BY <1>2, <1>3, PhaseIs, PhaseWillBe
<1> QED
  BY <1>3, <1>4 DEF Sequential!RetryWork, Done

\* A return goes back to a completed stage and leaves what stands before it.
LEMMA ReturningWork ==
  ASSUME CircleInv, NEW s \in Steps, Return(s)
  PROVE  Sequential!ReturnWork
<1>1. IsFiniteSet(Route) /\ Done \subseteq Route /\ s \in Route
  BY RouteFinite DEF Return, Route
<1>2. stepStatus \in [Steps -> StepStatus] /\ lifecycle = "review" /\ lifecycle' = "planned"
  BY DEF Return, CircleInv, TypeOK
<1>3. /\ stepStatus'[s] = "ready"
      /\ \A t \in Steps : stepStatus'[t] \in {stepStatus[t], "pending", "ready"}
      /\ \A t \in Steps : stepStatus'[t] = "absent" <=> stepStatus[t] = "absent"
  BY <1>1 DEF Return, ReturnedStatus, From, Route
<1>4. Route' = Route /\ Done' \subseteq Route \ {s} /\ Current' # {}
  BY <1>1, <1>3 DEF Route, Done, Current, WithStatus
<1>5. Cardinality(Done') \in 0 .. (Cardinality(Route) - 1)
  <2>1. PICK D : D = Done'
    OBVIOUS
  <2>2. IsFiniteSet(Route \ {s}) /\ Cardinality(Route \ {s}) = Cardinality(Route) - 1
    BY <1>1, FS_RemoveElement
  <2>3. /\ Cardinality(D) \in Nat /\ Cardinality(D) <= Cardinality(Route \ {s})
        /\ Cardinality(Route) \in Nat
    BY <1>1, <1>4, <2>1, <2>2, Counts
  <2> QED
    BY <2>1, <2>2, <2>3
<1>6. Phase = "review" /\ Phase' = "offered"
  BY <1>2, <1>4, PhaseIs, PhaseWillBe
<1> QED
  BY <1>4, <1>5, <1>6 DEF Sequential!ReturnWork, Done

\* Opening a closed circle opens its last stage and no other.
LEMMA ReopeningWork ==
  ASSUME CircleInv, Reopen
  PROVE  Sequential!ReopenWork
<1>1. PICK s \in Route : stepStatus' = [stepStatus EXCEPT ![s] = "ready"]
  BY DEF Reopen, Last
<1>2. /\ stepStatus \in [Steps -> StepStatus] /\ lifecycle = "closed" /\ lifecycle' = "planned"
      /\ \A t \in Route : stepStatus[t] = "completed"
  BY DEF Reopen, CircleInv, TypeOK, LifecycleMatchesRoute
<1>3. Route' = Route /\ Done' = Route \ {s} /\ Current' # {}
  BY <1>1, <1>2 DEF Route, Done, Current, WithStatus
<1>4. Cardinality(Done') = Cardinality(Route) - 1
  BY <1>3, RouteFinite, FS_RemoveElement
<1>5. Phase = "closed" /\ Phase' = "offered"
  BY <1>2, <1>3, PhaseIs, PhaseWillBe
<1> QED
  BY <1>3, <1>4, <1>5 DEF Sequential!ReopenWork, Done


\* A circle starts with an empty route.
LEMMA SequentialInit == Init => Sequential!Init
<1> SUFFICES ASSUME Init
             PROVE  Sequential!Init
  OBVIOUS
<1>1. Route = {} /\ Done = {} /\ Current = {} /\ lifecycle = "planned"
  BY DEF Init, Route, Done, Current, WithStatus
<1>2. Cardinality(Route) = 0 /\ Cardinality(Done) = 0
  BY <1>1, FS_EmptySet
<1> QED
  BY <1>1, <1>2, PhaseIs DEF Sequential!Init, Done

\* Every handler does one step of the route or none.
LEMMA SequentialStep ==
  ASSUME CircleInv, [Next]_vars
  PROVE  \/ Sequential!Next
         \/ UNCHANGED <<Cardinality(Route), Cardinality(WithStatus({"completed"})), Phase>>
<1>1. ASSUME NEW s \in Steps, NEW type \in StageTypes, NEW o \in Offers \cup {Exchange},
             AddStep(s, type, o)
      PROVE  Sequential!Next
  BY <1>1, AddingStage DEF Sequential!Next
<1>2. ASSUME UNCHANGED <<lifecycle, stepStatus>>
      PROVE  UNCHANGED <<Cardinality(Route), Cardinality(WithStatus({"completed"})), Phase>>
  BY <1>2, Stutters DEF Route, Done, WithStatus, Phase
<1>3. ASSUME NEW s \in Steps, DeleteStep(s)
      PROVE  Sequential!Next
  BY <1>3, DeletingStage DEF Sequential!Next
<1>4. ASSUME NEW s \in Steps, NEW a \in Actors, Assign(s, a)
      PROVE  UNCHANGED <<Cardinality(Route), Cardinality(WithStatus({"completed"})), Phase>>
  <2>1. /\ stepStatus \in [Steps -> StepStatus]
        /\ stepStatus[s] = "ready" /\ stepStatus' = [stepStatus EXCEPT ![s] = "assigned"]
        /\ lifecycle' = lifecycle
    BY <1>4 DEF Assign, CircleInv, TypeOK
  <2>2. Route' = Route /\ Done' = Done /\ Current' = Current
    BY <2>1 DEF Route, Done, Current, WithStatus
  <2>3. Phase' = Phase
    BY <2>1, <2>2 DEF Phase, Current
  <2> QED
    BY <2>2, <2>3, Stutters
<1>5. ASSUME NEW a \in Actors, Claim(a)
      PROVE  Sequential!Next
  <2>1. PICK s \in Steps : stepStatus[s] \in {"ready", "assigned"} /\ Activate(s, a)
    BY <1>5 DEF Claim, First, WithStatus
  <2>2. lifecycle = "planned"
    BY <1>5 DEF Claim
  <2> QED
    BY <2>1, <2>2, StartingStage DEF Sequential!Next
<1>6. ASSUME NEW s \in Steps, Lease(s)
      PROVE  Sequential!Next
  BY <1>6, StartingStage DEF Lease, Sequential!Next
<1>7. ASSUME NEW a \in Actors, Submit(a)
      PROVE  Sequential!Next
  <2>1. PICK s \in Steps : stepStatus[s] = "active" /\ CompleteStage(s)
    BY <1>7 DEF Submit, First, WithStatus
  <2> QED
    BY <2>1, FinishingStage DEF Sequential!Next
<1>8. ASSUME NEW e \in Executions, NEW r \in {"succeeded", "failed", "timed_out"},
             Complete(e, r)
      PROVE  Sequential!Next
  <2>1. execStep[e] \in Steps /\ stepStatus[execStep[e]] = "active"
    BY <1>8 DEF Complete, ReportAccepted, CircleInv, RunningMatchesActive, WithStatus
  <2>2. CASE r = "succeeded"
    BY <1>8, <2>1, <2>2, FinishingStage DEF Complete, Sequential!Next
  <2>3. CASE r # "succeeded"
    BY <1>8, <2>1, <2>3, StoppingStage DEF Complete, Sequential!Next
  <2> QED
    BY <2>2, <2>3
<1>9. CASE Cancel
  <2>1. PICK s \in Steps : stepStatus[s] = "active" /\ FailStage(s)
    BY <1>9 DEF Cancel, First, WithStatus
  <2> QED
    BY <2>1, StoppingStage DEF Sequential!Next
<1>10. CASE Retry
  BY <1>10, RetryingStage DEF Sequential!Next
<1>11. CASE Close
  <2>1. Route' = Route /\ Done' = Done /\ Phase = "review" /\ Phase' = "closed"
    BY <1>11, PhaseIs, PhaseWillBe DEF Close, stepVars, Route, Done, WithStatus
  <2> QED
    BY <2>1 DEF Sequential!Next, Sequential!Accept, Done
<1>12. ASSUME NEW s \in Steps, Return(s)
       PROVE  Sequential!Next
  BY <1>12, ReturningWork DEF Sequential!Next
<1>13. CASE Reopen
  BY <1>13, ReopeningWork DEF Sequential!Next
<1>14. ASSUME \/ \E s \in Steps, o \in Offers \cup {Exchange} : UpdateStep(s, o)
              \/ \E q \in Offers : AddRequirement(q)
              \/ UNCHANGED vars
       PROVE  UNCHANGED <<lifecycle, stepStatus>>
  BY <1>14 DEF UpdateStep, AddRequirement, vars, stepVars
<1> QED
  BY <1>1, <1>2, <1>3, <1>4, <1>5, <1>6, <1>7, <1>8, <1>9, <1>10, <1>11, <1>12, <1>13, <1>14
  DEF Next, Edit, Perform, Decide

\* A circle does one step of the sequential route or none, for any number of
\* stages, attempts and actors: work happens on one stage, the done stages
\* are never more than the route has, and review comes after the last stage.
THEOREM RouteImplemented == Spec => ImplementsSequentialRoute
  BY SequentialInit, SequentialStep, CircleSafe, PTL
  DEF Spec, ImplementsSequentialRoute, Sequential!Spec

=============================================================================

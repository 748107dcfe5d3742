----------------------------- MODULE StepExchange -----------------------------
(***************************************************************************)
(* The distribution of one human stage: the bids of the members, the       *)
(* selection of a winner, the promise an attempt starts under and the      *)
(* statistics it ends in, through several rounds of work.                  *)
(*                                                                         *)
(* The stage is the last of its circle and follows one human stage, which  *)
(* is performed by someone while this one is pending.  What the stage asks *)
(* for is the set of members who satisfy all its requirements.  Members    *)
(* bid on the rows of one stage, so that a bid is named by its bidder.     *)
(* Every action is one transaction: each takes the workspace row before it *)
(* commits, and bids and selection hold the row of the stage throughout.   *)
(***************************************************************************)
EXTENDS Naturals, FiniteSets, Sequences

CONSTANTS
  Actors,      \* the human members of the workspace
  Nobody,      \* SQL NULL in claimed_by and selected_bid_id
  Promises,    \* promised durations in use
  NoPromise,   \* SQL NULL in workflow_step_executions.promised_duration_minutes
  StageModes,  \* the distribution modes in use for the stage
  MaxAttempts  \* bound on the attempts at the stage

MaxMinutes == 525600  \* a year

ASSUME ExchangeAssumption ==
  /\ Nobody \notin Actors
  /\ Promises \subseteq 1..MaxMinutes
  /\ NoPromise \notin Promises
  /\ StageModes \subseteq {"inherit", "simple", "exchange"} /\ "inherit" \in StageModes
  /\ MaxAttempts \in Nat

VARIABLES
  lifecycle,      \* work_nodes.lifecycle_status
  status,         \* workflow_steps.step_status
  claimedBy,      \* workflow_steps.claimed_by
  selectedBid,    \* bidder of workflow_steps.selected_bid_id
  stageMode,      \* workflow_steps.distribution_mode
  workspaceMode,  \* workspaces.work_distribution_mode
  required,       \* whether the stage has any requirement
  eligible,       \* the members who satisfy every requirement of the stage
  bidStatus,      \* workflow_step_bids.bid_status, "none" when there is no row
  promise,        \* workflow_step_bids.promised_duration_minutes
  attempts,       \* the rows of workflow_step_executions by attempt_number
  observations    \* actor_estimation_stats.observation_count

stageVars == <<lifecycle, status, claimedBy, selectedBid>>
policyVars == <<stageMode, workspaceMode, required, eligible>>
bidVars == <<bidStatus, promise>>
workVars == <<attempts, observations>>
vars == <<stageVars, policyVars, bidVars, workVars>>

BidStatus == {"none", "active", "withdrawn", "won", "lost"}
Attempt == [by : Actors, bidder : Actors \cup {Nobody},
            promise : Promises \cup {NoPromise},
            status : {"running", "succeeded", "returned", "superseded"}]

\* CASE s.distribution_mode WHEN 'inherit' THEN w.work_distribution_mode ...
EffectiveMode == IF stageMode = "inherit" THEN workspaceMode ELSE stageMode

Init ==
  /\ lifecycle = "planned"
  /\ status = "pending"
  /\ claimedBy = Nobody
  /\ selectedBid = Nobody
  /\ stageMode = "inherit"
  /\ workspaceMode = "simple"
  /\ required = FALSE
  /\ eligible = Actors
  /\ bidStatus = [a \in Actors |-> "none"]
  /\ promise = [a \in Actors |-> NoPromise]
  /\ attempts = <<>>
  /\ observations = [a \in Actors |-> 0]

-----------------------------------------------------------------------------
(* Policy and requirements.                                                *)

SetWorkspaceMode(mode) ==
  /\ workspaceMode' = mode
  /\ UNCHANGED <<stageVars, stageMode, required, eligible, bidVars, workVars>>

\* updateWorkflowStep asks for a planned node, not for an unassigned stage.
\* The requirements are replaced; without any, everyone is eligible.
UpdateStep(mode, able) ==
  /\ lifecycle = "planned"
  /\ stageMode' = mode
  /\ \/ required' = TRUE /\ eligible' = able
     \/ required' = FALSE /\ eligible' = Actors
  /\ UNCHANGED <<stageVars, workspaceMode, bidVars, workVars>>

\* A requirement of the node goes to the first stage not completed, without
\* regard to bids or to the performer who already holds it.
AddRequirement(able) ==
  /\ status \in {"ready", "assigned", "active"}
  /\ required' = TRUE
  /\ eligible' = eligible \cap able
  /\ UNCHANGED <<stageVars, stageMode, workspaceMode, bidVars, workVars>>

\* Members gain and lose capabilities and knowledge.
ProfilesChange(able) ==
  /\ required
  /\ eligible' = able
  /\ UNCHANGED <<stageVars, stageMode, workspaceMode, required, bidVars, workVars>>

-----------------------------------------------------------------------------
(* Bidding.                                                                *)

\* The stage is ready, unclaimed, and distributed by the exchange.
BiddingOpen ==
  /\ status = "ready"
  /\ claimedBy = Nobody
  /\ EffectiveMode = "exchange"

\* putMyWorkflowStepBid: one row for each bidder; a new promise replaces the
\* old one and makes the bid active again, whatever had become of it.
Bid(actor, minutes) ==
  /\ BiddingOpen
  /\ actor \in eligible
  /\ bidStatus' = [bidStatus EXCEPT ![actor] = "active"]
  /\ promise' = [promise EXCEPT ![actor] = minutes]
  /\ UNCHANGED <<stageVars, policyVars, workVars>>

\* An active bid is withdrawn, whatever the stage is doing.
Withdraw(actor) ==
  /\ bidStatus[actor] = "active"
  /\ bidStatus' = [bidStatus EXCEPT ![actor] = "withdrawn"]
  /\ UNCHANGED <<stageVars, policyVars, promise, workVars>>

Bidders == {a \in Actors : bidStatus[a] = "active"}

\* Equal promises are told apart by submission time and actor, either of
\* which may favour any of them.
Shortest == {a \in Bidders : \A b \in Bidders : promise[a] <= promise[b]}

\* Seeded fault: the bids that did not win stay active.
LosersStayActive(winner) == [bidStatus EXCEPT ![winner] = "won"]

BidsClosed(winner) ==
  [a \in Actors |-> CASE a = winner -> "won"
                      [] a \in Bidders \ {winner} -> "lost"
                      [] OTHER -> bidStatus[a]]

\* selectWorkflowStepBid, by the requester.
Select ==
  /\ BiddingOpen
  /\ \E winner \in Shortest :
       /\ bidStatus' = BidsClosed(winner)
       /\ claimedBy' = winner
       /\ selectedBid' = winner
  /\ status' = "assigned"
  /\ UNCHANGED <<lifecycle, policyVars, promise, workVars>>

-----------------------------------------------------------------------------
(* Work.                                                                   *)

\* The stage before this one is claimed, and submitted.
PriorClaim ==
  /\ status = "pending" /\ lifecycle = "planned"
  /\ lifecycle' = "active"
  /\ UNCHANGED <<status, claimedBy, selectedBid, policyVars, bidVars, workVars>>

PriorSubmit ==
  /\ status = "pending" /\ lifecycle = "active"
  /\ lifecycle' = "planned"
  /\ status' = "ready"
  /\ UNCHANGED <<claimedBy, selectedBid, policyVars, bidVars, workVars>>

\* Seeded fault: an assigned stage is open to whoever is eligible.
AnyEligibleClaims(actor) == required /\ actor \in eligible

MayClaim(actor) ==
  \/ status = "assigned" /\ claimedBy = actor
  \/ /\ status = "ready" /\ EffectiveMode = "simple"
     /\ required /\ actor \in eligible

\* The attempt takes over the selected bid of the stage and the promise that
\* this bid has by now.
AgreedPromise == IF selectedBid = Nobody THEN NoPromise ELSE promise[selectedBid]

Claim(actor) ==
  /\ lifecycle = "planned"
  /\ status \in {"ready", "assigned"}
  /\ MayClaim(actor)
  /\ Len(attempts) < MaxAttempts
  /\ lifecycle' = "active"
  /\ status' = "active"
  /\ claimedBy' = actor
  /\ attempts' = Append(attempts, [by |-> actor, bidder |-> selectedBid,
                                   promise |-> AgreedPromise, status |-> "running"])
  /\ UNCHANGED <<selectedBid, policyVars, bidVars, observations>>

\* The attempts that enter the statistics when the stage is submitted.
Promised(finished) ==
  {i \in 1..Len(finished) : finished[i].status = "succeeded" /\ finished[i].promise # NoPromise}

\* Seeded fault: the observation is booked on who made the promise.
ObservedForBidder(finished) ==
  LET latest == {i \in Promised(finished) : \A j \in Promised(finished) : j <= i}
  IN [a \in Actors |-> observations[a] + Cardinality({i \in latest : finished[i].bidder = a})]

\* ORDER BY attempt_number DESC LIMIT 1, counted for who started the attempt.
Observed(finished) ==
  LET latest == {i \in Promised(finished) : \A j \in Promised(finished) : j <= i}
  IN [a \in Actors |-> observations[a] + Cardinality({i \in latest : finished[i].by = a})]

Submit(actor) ==
  /\ lifecycle = "active"
  /\ status = "active" /\ claimedBy = actor
  /\ attempts[Len(attempts)].status = "running"
  /\ attempts' = [attempts EXCEPT ![Len(attempts)].status = "succeeded"]
  /\ observations' = Observed(attempts')
  /\ status' = "completed"
  /\ lifecycle' = "review"
  /\ UNCHANGED <<claimedBy, selectedBid, policyVars, bidVars>>

Close ==
  /\ lifecycle = "review"
  /\ lifecycle' = "closed"
  /\ UNCHANGED <<status, claimedBy, selectedBid, policyVars, bidVars, workVars>>

\* The stage is opened again.  The bids and the selected bid are left as
\* they are.
OpenAgain(newStatus, result) ==
  /\ status' = newStatus
  /\ claimedBy' = Nobody
  /\ attempts' = [i \in 1..Len(attempts) |->
       IF attempts[i].status = "succeeded" THEN [attempts[i] EXCEPT !.status = result]
                                           ELSE attempts[i]]
  /\ lifecycle' = "planned"
  /\ UNCHANGED <<selectedBid, policyVars, bidVars, observations>>

\* The requester returns this stage, or the one before it.
Return ==
  /\ lifecycle = "review" /\ status = "completed"
  /\ OpenAgain("ready", "returned")

\* The stage before this one is then ready, and this one waits.
ReturnPrior ==
  /\ lifecycle = "review"
  /\ OpenAgain("pending", "superseded")

Reopen ==
  /\ lifecycle = "closed"
  /\ OpenAgain("ready", "returned")

-----------------------------------------------------------------------------
Policy ==
  \/ \E mode \in {"simple", "exchange"} : SetWorkspaceMode(mode)
  \/ \E mode \in StageModes, able \in SUBSET Actors : UpdateStep(mode, able)
  \/ \E able \in SUBSET Actors : AddRequirement(able) \/ ProfilesChange(able)

Bidding ==
  \/ \E actor \in Actors, minutes \in Promises : Bid(actor, minutes)
  \/ \E actor \in Actors : Withdraw(actor)
  \/ Select

Work ==
  \/ PriorClaim \/ PriorSubmit
  \/ \E actor \in Actors : Claim(actor) \/ Submit(actor)
  \/ Close \/ Return \/ ReturnPrior \/ Reopen

Next == Policy \/ Bidding \/ Work

Spec == Init /\ [][Next]_vars

-----------------------------------------------------------------------------
(* Properties.                                                             *)

TypeOK ==
  /\ lifecycle \in {"planned", "active", "review", "closed"}
  /\ status \in {"pending", "ready", "assigned", "active", "completed"}
  /\ claimedBy \in Actors \cup {Nobody}
  /\ selectedBid \in Actors \cup {Nobody}
  /\ stageMode \in StageModes
  /\ workspaceMode \in {"simple", "exchange"}
  /\ required \in BOOLEAN
  /\ eligible \in SUBSET Actors
  /\ bidStatus \in [Actors -> BidStatus]
  /\ promise \in [Actors -> Promises \cup {NoPromise}]
  /\ attempts \in Seq(Attempt)
  /\ observations \in [Actors -> Nat]

\* From the selection to the start, whatever happens to the modes, the
\* requirements and the profiles: the stage is held by the one whose bid was
\* selected, the bid stands as won, and nobody is left bidding for it.
AssignedToWinner ==
  status = "assigned" =>
    /\ claimedBy = selectedBid
    /\ claimedBy \in Actors
    /\ bidStatus[claimedBy] = "won"
    /\ Bidders = {}

\* The attempt that is running is measured against the duration that its bid
\* still shows: promises are out of reach while someone works.
AgreementStands ==
  status = "active" =>
    LET current == attempts[Len(attempts)] IN
    /\ current.by = claimedBy
    /\ current.bidder # Nobody => current.promise = promise[current.bidder]

\* Types, the winner's hold on an assigned stage, and the agreement that runs.
ExchangeInv == TypeOK /\ AssignedToWinner /\ AgreementStands

\* A stage that was assigned starts as the winner's attempt, under the
\* winner's own promise; a former round's bid is never taken over instead.
WinnerStarts ==
  [][status = "assigned" /\ status' # "assigned" =>
       LET started == attempts'[Len(attempts')] IN
       /\ status' = "active"
       /\ started.by = claimedBy
       /\ started.bidder = claimedBy
       /\ started.promise = promise[claimedBy]]_vars

\* What an actor finished under a promise, whatever became of the result.
FinishedUnderPromise(actor) ==
  {i \in 1..Len(attempts) : /\ attempts[i].by = actor
                            /\ attempts[i].promise # NoPromise
                            /\ attempts[i].status # "running"}

\* docs/task-exchange.md:85: the statistics are reproducible from the
\* attempts: each attempt finished under a promise is counted once, for its
\* performer, through returns and reopenings and rounds without a promise.
StatisticsReproducible ==
  \A a \in Actors : observations[a] = Cardinality(FinishedUnderPromise(a))

-----------------------------------------------------------------------------
(* What the documents say of the exchange and the code does not keep.      *)

\* docs/task-exchange.md:68: "another participant's execution time must not
\* be attributed to the winner": an attempt under a promise is the bidder's.
PromiseOfPerformer ==
  \A i \in 1..Len(attempts) :
    attempts[i].promise # NoPromise => attempts[i].by = attempts[i].bidder
=============================================================================

# Work Graph: a TLA+ verification project

Work Graph is a server (`cmd/server`, package `internal/httpapi`, PostgreSQL)
that keeps a forest of work nodes.  Each node has a *Task circle*: a route of
stages that human members and automation runners perform one after the other,
and that ends with the acceptance of the requester.  Separate processes are the
HTTP runner and the Bash runner, which lease automated stages, and the gateway,
which brings external issues into the tree and follows the server's events.

This directory holds TLA+ models of that system, their TLC runs, and proofs
about them that TLAPS checks.  Every definition is a translation of the code;
`PROJECT.json` names for each one the file and the lines it stands for.

## 1. Inventory

For each part: the state it keeps, its operations, what makes it hard, what makes
it correct, and the module that has it.

**Task circle** (`httpapi/circle.go`, `workflow_edit.go`, `runner.go`).  State:
`work_nodes.lifecycle_status`, the rows of `workflow_steps` and of
`workflow_step_executions`.  Operations: add, update, move and delete a stage;
add a requirement; claim, submit, close, return, reopen, retry, cancel; lease
and report by a runner; assignment of a bid's winner.  Hard: three kinds of rows
are written by separate statements of a dozen handlers; edits interleave with
work, because a node is `planned` again between any two stages; late reports.
Correct: one current stage at most, work in the order of the route, lifecycle
and attempts agree with the stages, results are final.  `TaskCircle`,
`SequentialRoute`.

**Human-step exchange** (`exchange.go`, `distribution.go`, `circle.go:728-775`).
State: `workflow_step_bids`, `selected_bid_id`, the mode of workspace and stage,
`actor_estimation_stats`.  Operations: bid, withdraw, select, change mode; claim
by the winner; the statistics of a submitted stage.  Hard: bids outlive the
qualification, the mode and the round they were made in; selection and start of
work are separate transactions.  Correct: one winner per round, the winner alone
starts the stage, a promise is attributed to who made it.  `StepExchange`.

**Runner endpoints and runners** (`httpapi/runner.go`, `httprunner`,
`bashrunner`), with **module policy and secrets** (`modules.go`, `secrets.go`).
State: the queue, which is a query over all workspaces; row locks; the task in
the hands of a runner; enabled modules and secrets.  Operations: poll and lease,
watch for cancellation, execute, report; enable, restrict, disable.  Hard: a lost
lease or report, a report after a cancellation or a retry, a queue whose head
cannot be leased, two orders of locks, checks for references that are statements
of their own.  Correct: one running attempt for each active stage, results
stand, every stage has its turn.  `RunnerQueue`.

**Work tree** (`server.go`, `tree_edit.go`) and its **history**
(`change_events`, `nodesAtRevision`).  State: parent, root, removal revision and
lifecycle of every node; events; the revision of the workspace.  Operations:
create, update, move, remove, restore, close.  Hard: a branch is read, locked,
checked and changed by different statements, and nodes join it meanwhile; an
acceptance looks below a task with one statement and closes it with another.
Correct: the tree stays a forest below root goals, nothing hangs below what is
removed, the history tells the tree, a node is accepted over closed work only.
`WorkTree`.

**Service commands** (`idempotency.go`, `revision_preconditions.go`).  State:
stored results by account and key, the workspace revision.  Hard: retries after
lost responses, two retries at once.  Correct: one effect per key.
`ServiceCommands`, `IdempotentCreate`.

**Accounts, members, invitations, service accounts** (`auth.go`,
`invitations.go`, `directory.go`, `service_accounts.go`).  State: accounts,
actors, the links between them, invitations.  Operations: register and set up,
found a workspace, invite, accept, add an actor, change a role, remove.  Hard:
checks and changes are separate statements, most of them outside a transaction;
people come back.  Correct: one actor for each member, one setup, a link works
once, owners stay.  `Membership`, `Roster`.

**Gateway** (`internal/gateway`).  Placement: candidates, mappings, an HTTP call
between two local transactions (`GatewayPlacement`).  Event feed: cursor, settle
delay, projected events (`EventFeed`).  Jira: installation, credentials, schedule
lease, continuation cycle (`JiraSync`).  Hard: every step may be repeated, lost
or done by two workers; administrators change rows under running work.  Correct:
one node per external item, no change of either side passed over, what is read
once is not lost.

**Sign-in, sessions, password reset, rate limit; priority and criticality;
directory, knowledge, profile; projections; web client; start-up.**  Rows of
single statements, queries, presentation and plain I/O: not modelled, except
for the constraints of the schema, which the models use (section 6).

How the parts meet: the tree sees of a circle its lifecycle; the circle sees of
the exchange who is assigned, and of a runner its lease and its report; the
feed sees of the tree its events; the placement calls what `ServiceCommands`
models and relies on what is proved there.  Each of these seams is an action of
both modules, with the other side free to take it at any time.

## 2. Plan

Done: the modules of section 3, the runs of section 4, the proofs of section 5.

Every safety property that a run checks is proved.  What is left is what the
prover does not reach: the liveness of section 5.

None of the modules has a RECURSIVE operator, and every invariant is a
conjunction of named parts.

## 3. Modules

### TaskCircle

One circle.  A state is what the rows of one node say:

| variable | column |
| --- | --- |
| `lifecycle` | `work_nodes.lifecycle_status` |
| `stepStatus`, `position`, `stepType`, `claimedBy` | columns of `workflow_steps`; `"absent"` and 0 when there is no row |
| `offer` | the effective mode and the requirements: `Exchange`, or the set of members who may claim the stage directly |
| `execStatus`, `execStep`, `attempt`, `startedBy` | columns of `workflow_step_executions` |

Each action is a handler from its first query to its commit.  That is what the
code's locks give: `performWorkAction`, `addWorkflowStep` and the requirement
handlers take the workspace row first (`nextRevision`); the other edits and the
runner endpoints lock the node row and take the workspace row before they
commit.  Two transactions on one circle are therefore serialised, or they wait
for each other and the database aborts one of them, which then has changed
nothing; `RunnerQueue` has these waits as steps.

| action | handler |
| --- | --- |
| `AddStep`, `AddRequirement` | `circle.go` `addWorkflowStep`, `addWorkRequirement`, `addWorkKnowledgeRequirement` |
| `UpdateStep`, `DeleteStep` | `workflow_edit.go` |
| `Claim`, `Submit`, `Close`, `Return`, `Reopen`, `Retry`, `Cancel` | the cases of `performWorkAction` |
| `Lease`, `Complete` | `runner.go`: `leaseHTTPExecution` and `leaseBashExecution`, `completeHTTPExecution` |
| `Assign` | `exchange.go` `selectWorkflowStepBid` |

`moveWorkflowStep` has no action.  Its one UPDATE gives each of two rows the
position of the other, under a unique constraint that migration 14 does not
declare deferrable and that PostgreSQL therefore checks row by row: whichever
row is visited first takes a position that is still taken, the statement fails,
and the transaction changes nothing.

Abstractions: names, configurations, results and reasons are left out.  Who is
qualified for a stage is a set of members; `UpdateStep` and `AddRequirement`
may leave any such set.  The caller of an action that the requester alone may
take is the requester.  A report comes from the runner that holds the attempt.
The descendants that `Close` looks at, and removal of the node, belong to
`WorkTree`.  Rows are never reused: a deleted attempt stays `"erased"`.

### SequentialRoute

What a circle promises to those who look at it: a route of `length` stages, the
first `done` of which are completed, and a phase.  `TaskCircle` implements it
under `length <- Cardinality(Route)`, `done <-` the number of completed stages,
`phase <- Phase`.  The abstract specification has no positions, so the
refinement says that the handlers' separate queries ("the first pending stage",
"the last stage", "all stages from this position") always mean the same
sequence.  It has a phase `idle`, which the documents do not speak of: the state
after the ready stage was deleted.

### StepExchange

One human stage through several rounds.  `TaskCircle` has an assignment as one
step of anybody; here are the bids behind it.  Variables: the bid of each member
(`workflow_step_bids`), the mode of the stage and of the workspace, who is
eligible, the status and claim of the stage with `selected_bid_id`, the attempts
with the bid and the promise they began with, the number of observations in
`actor_estimation_stats`.  Actions: the handlers of `exchange.go` and
`distribution.go`; those cases of `performWorkAction` that touch the stage; the
same cases on an earlier stage (`PriorClaim`, `PriorSubmit`, `ReturnPrior`),
because they decide when this one is ready; edits of the stage and of profiles,
which change who is eligible.  A round is what happens between two selections;
`BidsClosed` is what keeps bids of an old round out of a new one.

### ServiceCommands, IdempotentCreate

`createNode` for service accounts, one statement per action: `Begin`, `LockKey`
(the advisory lock), `Lookup`, `Advance` (the precondition, which takes the row
of the workspace), `Insert`, `Commit`, and `Abort` at any point.  Several
requests run at once, a retry being a request with a used key; other writers
advance the revision.  `IdempotentCreate` is what `docs/api-access.md` promises:
every request one step, every key one effect.  The refinement maps `effect` to
the stored results and leaves locks, revision and statements out.

### WorkTree

The tree of one workspace.  `parent`, `root`, `status` and `removed` are the
columns; `revision` is that of the workspace; `replay` is what
`nodesAtRevision` makes of all events so far, which is all that the events are
read for; `txn` holds what a branch edit or an acceptance has read.  Whatever
changes the tree takes the row of the workspace, so that creation, update and
progress of the circle (`Work`) are one step each.  An acceptance is two:
`BeginAccept` has the rows of workspace and task and reads what is below it,
`Accept` closes it; between them only the row of the workspace (`WorkspaceFree`)
keeps the others away, several of which need no row that the acceptance has
locked otherwise.  A branch edit is several:
`BeginMove`, `BeginRemove` and `BeginRestore` read the branch, `LockBranch` has
its rows and makes the checks of the handler on what was read, `LockRelative`
the new parent's, `Precondition` refuses a stale revision, `Move`, `Remove` and
`Restore` take the row of the workspace, change what the branch is *by then*,
record events for what it *was*, and commit; `Abort` ends it anywhere.
`MoveInsideItself` is a move under a node that has come into the branch since:
the query that reads the branch back never ends on a ring, so that the
transaction does not commit, and holds the row of the workspace until the client
hangs up.  A service states a revision (`If-Match`), a member does not.

`PayloadRules` leaves open whether `outbox_events.payload` takes a removal's
NULL: the schema forbids it, and what the driver sends is outside the code.

### RunnerQueue

Several circles of one or two workspaces with one automated stage each, several
runners, members and administrators.  `TaskCircle` has leases and reports as
single steps of anybody; here are the processes that take them and the locks
they take them with.  `row` is the lock on stage, attempt and node of a circle,
`workspace` that of a workspace.  A runner goes round: `Lease` picks the oldest
ready stage whose row is free (`SKIP LOCKED`), `Check` asks for policy and
secret, `Activate` takes the row of the workspace and commits; `Work` ends with
an outcome, or the watch sees a cancellation (`SeeCancelled`); `Report` finds
the attempt running or not, `Finish` commits; `Fault` loses the lease, the
runner or the report.  Members add, edit, cancel, retry, return, remove and
restore, taking workspace and row in the order of their handlers; `Detector` is
the database, which aborts one of two transactions that wait for each other.
`BeginSweep` is the removal of a branch that the circle joins after the branch was
read: the UPDATE (`tree_edit.go:243`) takes it as it is by then, neither locked nor
checked, at work or not.  The report of its attempt is then refused
(`NodeByID` in `Report`), and so is its cancellation.
`CheckReferences` and `Disable` are the two statements of `modules.go` and of
`secrets.go`.  The HTTP and the Bash runner have the same loop and the server
the same endpoints for both; the model has one kind.

### Membership, Roster

Accounts, the actors of each workspace, the links between them (`members`, with
the role), invitations, and what each request in progress has read.  `Register`
and `CompleteRegister` are `registerAccount` around its advisory lock; members'
commands go through `Authorize` (the role of the caller), `Check` (what is asked
of the row that is to change) and the change itself (`SaveInvitation`,
`CreateActor`, `CreateServiceAccount`, `ChangeRole`, `RemoveMember`), three
statements with anything between them; `Accept` finds the invitation by its
token and `CompleteAccept` locks and reads it again, creates or finds the
account, finds or makes the actor, and links them.  `Expire` is the clock,
`Abandon` an error or a lost connection.  `before` is an auxiliary variable: the
last actor a person was in a workspace.  E-mail addresses are persons, tokens are
invitations; `Fold` is `lower(name)`.

`Roster` is what remains for those who look at a workspace: who belongs to it,
who owns it, which invitations are unused.  Joining uses up an invitation, and
owners never leave.

### GatewayPlacement

One external item: the row of `gateway_candidates` and of `gateway_mappings`, the
goroutines that work on it, the calls on their way to the server.  Callers are
requests of administrators or retry workers of any replica; `Place`, `Retry` and
`Claim` begin an operation, and every statement after it is a step of its own
(`Remember`, `Send`, `Store`, `ReadAttempts`, `WriteFailure`, `Reschedule`), since
the code holds no row between them.  `Serve` is the server: one effect per key and
content, as `ServiceCommands` shows it.  A call that is given up stays in
`transit` and may be served at any later time; an answer that is lost is one that
comes after its caller gave up.  `Ingest` is the upsert of `candidates.go:65`; the
comparison that sends a known version away (`candidates.go:46`) is an earlier
statement and may have seen another row, so that the upsert may write any version,
the one that is there too. The lease of 45 seconds is longer than the two calls of
15 seconds it covers, so it cannot end while its holder calls (`LeaseOver`), but
it can while the holder waits for its database.

### EventFeed

Server and gateways around `outbox_events`: a transaction is stamped when it
begins (`occurred_at DEFAULT now()`) and visible when it commits; a gateway
takes the advisory lock, asks for a page behind its cursor (`Fetch`), takes the
cutoff when the answer is there (`Cut`), writes journal rows event by event
(`Project`) and saves the cursor (`Save`), all in one transaction that may fail
anywhere (`Fail`).  Mappings appear when the gateway hears of its nodes (`Map`).
Auxiliary are `passed`, the events a committed page has gone over, `slowest`, the
longest that an answer has taken, and the time of the commit in an event: no guard
looks at them.

### JiraSync

One installation, its schedule, and the runs and requests that are in progress
(`proc`), against issues that change in Jira.  A run is `Claim` or `Manual`,
`LockFree` (the advisory lock), `ReadInstallation`, `ReadToken`, `Redeem` and
`StoreToken` when the access token has expired, `Plan` (go on with the written
cycle, or begin one: the frozen query between two minutes), `BeginCycle`, `Search`
(one page, by Jira's continuation token) or `Refuse` (Jira does not take the token
with another query), `SaveCandidate` issue by issue, `Advance` (token, or cursor
when the cycle is through), `Finish`. `Error` is a failure at any of them, `Crash`
the end of the process; a claimed schedule is ready again when its lease of two
minutes is over, at any time (`BecomesReady`).  From outside: `SaveSettings`
(which refreshes the token without the lock), `Reset`, `PauseOrResume`, `Disable`,
and the authorization (`StartOAuth`, `Callback`, `Exchange`, `Connect`,
`EnableSchedule`).  Time is counted in minutes, the unit of Jira's literals.
Jira's search may find an update `IndexLag` minutes late, and reads the literals,
which the code writes in UTC, in the time zone of the account, `zone` minutes off:
hours in most places, and positive west of UTC.  A zone is chosen with the initial
state and stays; a change to summer time is not modelled.  Two statements of a run
discard their errors: that of `Plan` reads the schedule (`jira_sync.go:88`) and
the run then begins an unbounded cycle, that of `BeginCycle` writes the new cycle
down (`jira_sync.go:103`) and the search goes on with it.  After the latter the
row may have the query of one cycle and the token of another; Jira refuses it or
goes on where the token points.  That Jira's tokens expire is not modelled: the
search then fails, as it may in `Error`. Auxiliary are `covered`, what the filters
of all cycles since the last full scan match; `earlier`, the ends of the cycles
before the last one; `unwritten`, the cycles whose beginning was not stored.

### The proof modules

`TaskCircle_proofs`, `StepExchange_proofs`, `ServiceCommands_proofs`,
`WorkTree_proofs`, `RunnerQueue_proofs`, `Membership_proofs` and `JiraSync_proofs`
extend the module they are named after.  `Gateway_proofs` extends `EventFeed` and
`GatewayPlacement`, which share no name; section 5.  The `MC` modules give the
constants of the runs and nothing else.

## 4. Runs

| run | bounds | shows |
| --- | --- | --- |
| `circle_route` | 3 stages, 3 attempts, 2 members | order of work, agreement of all rows, results final, progress kept, refinement of `SequentialRoute` |
| `exchange_rounds` | 2 members, 3 attempts | winner, promise and statistics through several rounds |
| `foreign_promise` | the same | violation: finding 1 |
| `service_retries` | 3 requests, 2 keys, 2 contents | one effect per key, exclusive preconditions, refinement of `IdempotentCreate` |
| `branch_edits` | 4 nodes, revisions to 7, 2 branch edits or acceptances, 3 trees to start from | forest, root and removal agree, history current, guarded edits change what they read, acceptance over closed work |
| `unrecorded_removal` | 3 nodes, 1 branch edit | violation: finding 2 |
| `runner_queue` | 2 circles, 2 runners, 2 members, 5 scenarios | one running attempt, results stand, what is removed is left alone, turns and ends under fairness |
| `memberships` | 3 persons, 2 workspaces, 2 requests, 4 names, 5 scenarios | one actor each, one setup, the same actor again, refinement of `Roster` |
| `placement_races` | 2 callers, 2 versions, 2 attempts, 3 operations | one node per item, mapping and row agree with it, retries are possible and end |
| `feed_in_order` | 3 transactions, 2 replicas, pages of 2; settle delay 2, transactions to 2, answers to 1 | nothing but what is late is skipped, nothing twice, everything else in the end |
| `jira_sync` | 2 issues, 2 filters, 2 processes, batches of 1, 8 scenarios | no update left behind but in named minutes, token and query belong together, credentials, everything in the end |
| `changed_filter` | the same, batches of 2 | violation: finding 3 |

Why these bounds.  Three stages are the fewest for which "the next", "all later"
and "the last" differ, and for which a deletion can happen before, at and after
the current stage; three attempts among them let a stage be performed, returned
and performed again, or fail and be retried, while another one has a result.  Two
members and three attempts give the exchange a winner, a loser who bids again and
a third round.  Three requests under two keys have a first use, a retry and a
different content, and two of them can race while the third is unrelated.  Four
nodes are a chain with a sibling: a branch of two that is moved under the sibling,
or gets a child, while another edit holds part of it; two edits at once can be two
moves under one another, two removals, or a removal and a restoration.  A tree of
three starts at revision 4 and leaves three commits, so that a third edit can meet
what two have made of it; the tree of four leaves two; `Ripe` is a goal whose
acceptance others can cross.  Two circles are an older and a younger stage of two
workspaces, two runners poll at once or one after the other, two members are a
cancellation and a retry that cross a report.  Three persons are an owner and two
who are invited, and two requests are a check and a change that cross.  In the
placement three operations are, for example, a placement, a new version and a
second placement, or two placements and a crash; the worker's claims are not
counted.  Two transactions that overlap are what the feed can get wrong; the third
makes a second page.  The longest transaction and the longest answer together
exceed the settle delay, as they do in the code (2 seconds against 15 for an
answer and no limit for a transaction): late events, and their loss, are in the
run.  Two issues in batches of one make every cycle take two runs. The time zones
are one that the overlap covers, one further west that it does not, and one in the
east; two faults are what it takes for a token to meet another query.

`MaxStages`, `MaxAttempts`, `MaxRevision`, `MaxNode`, `MaxOps`, `MaxClock`,
`MaxFailures` and the budgets of the scenarios (`left`) bound what would be
unbounded; an action that would exceed one is not enabled.  A scenario starts
with budgets for some of the things that may come from outside, so that each
combination that matters occurs and their product does not: `Scenarios` in
`MCJiraSync`, `Cases` in `MCRunnerQueue` and `MCMembership`.  Deadlock is checked
where a specification says in which states it may come to rest (`Quiet`,
`Resting`); `branch_edits`, `jira_sync`, `runner_queue`, `memberships` and the
violations stop when a budget or a bound is used up, so that their
configurations say CHECK_DEADLOCK FALSE.  What has to go on there is stated as
liveness.

Symmetry is used where no action, property or initial state tells the values
apart and no liveness is checked: stages and attempts in `circle_route`, members
in the exchange, requests, keys and contents in `service_retries`, the edits in
`branch_edits`, persons and requests in `memberships`.

Fairness is assumed in four runs:

- `GatewayPlacement`: a call ends after its timeout and a goroutine goes on
  after it, and the retry worker looks for due candidates every two seconds.
- `EventFeed`: time goes on, transactions end, the consumer asks every three
  seconds.
- `JiraSync`: time goes on, a run goes on or fails, workers look for due
  schedules; a schedule's interval or lease ends.
- `RunnerQueue`: a runner polls for ever and its work has a time limit, so that
  its loop goes on when it can (weak fairness); a member's transaction that has
  begun goes on (strong fairness, because the lock it waits for is granted in
  the order of waiting, however often it is taken by others first); the
  database finds deadlocks.

Nothing is assumed of people, of Jira, or of faults and crashes, which are
bounded.  The other specifications are safety specifications.

### Properties, and what breaking them would take

Each module has one invariant that contains its types and the plain agreement of
its columns (`CircleInv`, `ExchangeInv`, `TreeInv`, `QueueInv`, `MembershipInv`,
`PlacementInv`, `JournalInv`, `CredentialInv`; `ServiceCommands` has `TypeOK`), and
the properties that say more:

`TaskCircle` (whose types, `TypeOK`, are part of `CircleInv`): `RouteOrder`, a
stage that is not waiting has only completed stages before it; `CircleInv`,
positions are 1, 2, ..., n, the lifecycle says what the stages do, a stage is
active exactly while its latest attempt runs, completed exactly when it stands as
a success, failed only after a failure, and attempts are numbered without gap;
`ResultsAreFinal` and `ProgressKept`, late and repeated reports change nothing and
only the requester gives up progress.

`StepExchange`: `ExchangeInv`, an assigned stage is held by the winner of its own
round, and the promise an attempt began with does not change under it;
`StatisticsReproducible`, observations are as many as the attempts finished under
a promise; `WinnerStarts`, an assigned stage becomes active for its winner only,
under the own promise.

`ServiceCommands`: `OneNodePerKey`, `RevisionsDistinct`, one node for each key, one
creation for each revision.

`WorkTree`: `RootedForest`, no ring; `TreeInv`, nothing live below what is
removed, `root_id` is the root; `HistoryIsCurrent`, what the history tells of a
live node is its row, descendants of moved and restored nodes included;
`GuardedEdits`, an edit under `If-Match` leaves every node told and moves no work
that has begun; `AcceptedOverClosedWork`, when an acceptance commits, what is below
the task by then is closed, through any depth.

`RunnerQueue`: `QueueInv`, one attempt runs while the stage is active and none
otherwise, and stage and node agree; `ResultsStand`; `RemovedStands`, as long as a
circle is removed nobody works on it, neither the runner that has leased or is
reporting it nor a member whose request had begun; `EveryStageGetsItsTurn`, a
ready stage is served unless its module is disabled or a stage that every lease
refuses stands before it; `AttemptsEnd`, an active stage stops being active unless
its lease, runner or report was lost, or refused because the node is removed.  The
last two name their exceptions, which are defects that people notice (the findings
below); they say that there are no others.

`Membership`: `OneActorEach`, though no constraint says so; `MembershipInv`, one
setup, and `has_account` repeats the link; `SameActorAgain`, who comes back is the
actor he was; `ImplementsRoster`.

`GatewayPlacement`: `OneNode`, `MappingTellsContent`, `NodeKept`, one node whatever
is repeated or late, the mapping names it with the version that was sent, it is
never forgotten; `PlacementInv`, a candidate that waits for a retry can be
retried; `RetriesEnd`.

`EventFeed`: `OnlyLateSkipped`, what the cursor has behind it has been gone over,
unless it is late: the time from its stamp to its commit and the longest time of an
answer together use up the settle delay; `GoneOverOnce`; `JournalInv` (the gateway's
own changes are suppressed and no others); `EveryChangeIsPassed`, but for the late
ones again.  Nothing is assumed of the delays.  That late changes are lost is what
the property leaves, and what `docs/integration-gateway.md:60` denies.

`JiraSync`: `NothingLeftBehind`, what no later cycle reads again is imported, or was
last updated in one of the minutes that `Missed` names, which the overlap leaves
between two cycles once index lag and time zone are taken off it: none if the two
fit into it, hours west of UTC.  `TokenOfItsQuery`, with one exception, that the
statement which writes the cycle down failed; `ImportsAdvance`; `CredentialInv`, a
disabled installation has no credentials and a redeemed refresh token has a
successor on its way; `EveryUpdateArrives`, unless missed in the same minutes, or
the schedule is stopped, unauthorized, or stuck with the token of another cycle.

Every one of them is violated by a seeded fault of its module (`PROJECT.json`,
"mutants"; the operators commented "Seeded fault").

### Findings

1. `foreign_promise`: a return leaves `selected_bid_id` on the stage; in simple
   mode whoever claims it then works under the former winner's promise, and the
   duration enters the claimant's statistics.
2. `unrecorded_removal`: `removeNode` records events for the nodes it read first
   and removes the nodes the branch has by then; a task created in between is
   removed without an event, and `nodesAtRevision` shows it for ever.
3. `changed_filter`: a run that is under way when the settings change sets the
   cursor they cleared; what only the new filter matches is never read.

Seen while modelling, in the models' behaviours, without a run of its own; where a
property has to name the case to hold, it is given:

- *Route.*  Moving a stage always fails (section 3), though `README.md:77` of the
  repository says stages can be moved.  Deleting the ready stage promotes no
  other: a circle whose remaining stages are completed stays `planned` with
  nothing to do, while `docs/concepts.md:288` speaks of stages that run strictly
  in order.  Routes are edited after work has started, because a circle is
  `planned` between any two stages (`README.md:77` says such edits are rejected).
- *Exchange.*  A bid wins although the bidder no longer satisfies the
  requirements (`docs/task-exchange.md:56`).
- *Tree.*  The root of a branch is taken to be its oldest row, so that a root
  goal below which an older task was moved can itself be moved and removed.  A
  removal's NULL payload meets a column declared NOT NULL.  The second of two
  removals that wait for one another stamps the root of the branch alone, and a
  restoration brings back one part.  A ring of two moves is kept from committing
  only by a query that does not end.
- *Runners.*  A stage whose lease is refused stands at the head of the queue of
  all workspaces.  A module or secret can be disabled under a failed stage that
  is retried, or a completed one that is returned, afterwards
  (`README.md:85,87`: referenced ones cannot be disabled); nobody leases the stage
  then.  A report that is the victim of a deadlock is dropped by the runner, and
  a lost lease or report leaves the stage active until the requester cancels it
  (`AttemptsEnd`).  A circle that joins a branch while it is removed may be removed
  at work, a consequence of finding 2: its report is refused and it cannot be
  cancelled until the branch is restored (`AttemptsEnd`, `RemovedStands`).
  A report sent twice gets 404 the second time
  (`docs/adr/0004-workflow-modules-and-isolated-execution.md:72`).
- *Members.*  An expired invitation keeps the place of its address, so that no
  new one can be saved; a display name equal to a member's makes acceptance and
  setup fail; an acceptance by `lower(name)` may find an actor of another type,
  or two; the role that is changed need not be the role that was checked.
- *Placement.*  When the answer to a creation is lost and the item gets a new
  text, every further attempt meets its own key with other content and is
  answered with 409.  A failure recorded after another attempt succeeded makes a
  delivered candidate a dead letter (`candidates.go:247`).
- *Feed.*  When a transaction and an answer together take as long as the settle
  delay of two seconds, an event that commits after the page was read, with an
  earlier stamp than one on it, is skipped (`Late`); answers may take fifteen
  seconds and transactions any time, while `docs/integration-gateway.md:60` says that
  no change is lost.  A change consumed before its node is mapped never enters the journal
  (`events.go:122`).
- *Jira.*  Disabling is undone by a run or an authorization under way.  Settings
  redeem the refresh token without the lock that
  `docs/integration-gateway.md:76` speaks of.  The bounds of a cycle are written in
  UTC (`jira_sync.go:98`) and read in the account's time zone: west of UTC every
  cycle ends hours ahead of what it has seen, and what is updated in those hours is
  never read (`Missed`), while `docs/integration-gateway.md:78` says that
  installations drain without losing work.  The error of the statement that writes a
  cycle down is discarded; the next run may then send its token with the query of the
  cycle before, and, when Jira refuses that, only a reset or a change of settings gets
  the schedule going (`TokenOfItsQuery`, `Foreign`).  A crash leaves the row of the
  run `running`.

## 5. Proofs

`TaskCircle_proofs` proves, for any sets of stages, attempts and actors, from
`CircleAssumption` alone (the sentinels differ from the members and stages; the
bounds are natural numbers):

- `CircleSafe`: `Spec => []CircleInv`, with the lemma `TypeCorrect` for its types;
- `StagesInOrder`: `Spec => []RouteOrder`;
- `ResultsFinal`: `Spec => ResultsAreFinal`; `CompletionsKept`: `Spec =>
  ProgressKept`;
- `RouteImplemented`: `Spec => ImplementsSequentialRoute`.

`CircleInv` is the conjunction of eight named parts, which `circle_route` checks
too.  None but `TypeOK` is inductive alone.  That a report keeps the order of
work needs to know that its stage is active (`RunningMatchesActive`); that the
stage is then the only one in work needs `RouteOrder` and distinct positions
(`RouteNumbered`); that a returned stage has no second success needs
`CompletedMatchesResult` on every later stage; that a new attempt is the latest
needs `AttemptsNumbered`.  The central lemma is `OneCurrentStage`: whatever is
ready, assigned, active or failed has only completed stages before it and only
waiting ones after it.  Then there is one lemma per kind of step (completing,
failing, activating, withdrawing, offering, adding, deleting, untouched) and one
line per action in `CircleInvStep`.

The refinement maps the rows to two cardinalities and a phase.  `Steps` may be
infinite: that a route is finite, so that its cardinality is a number, follows
from its positions, an injection into `0 .. MaxStages` (`RouteFinite`).  Each step
of the route has a lemma: that a completed last stage leaves as many done stages
as there are, and any other leaves fewer and one on offer (`FinishingStage`); that
a deletion takes a completed, a waiting or the offered stage, which
`OneCurrentStage` and `LifecycleMatchesRoute` tell apart (`DeletingStage`); that a
return keeps fewer results than stages (`ReturningWork`).  `SequentialStep`
assigns every action to one of them or to a stutter.

`ServiceCommands_proofs` proves, for any sets of requests, keys and contents and
from `CommandAssumption` alone (the sentinels differ from the data):

- `CommandsTyped`: `Spec => []TypeOK`; `CreatesOnce`: `Spec => []OneNodePerKey`;
- `PreconditionExcludes`: `Spec => []RevisionsDistinct`;
- `Refines`: `Spec => ImplementsIdempotentCreate`.

`CommandInv` adds to them `PhasesAgree`, which says when a request has a command
and an answer, and `LocksHeld`, which says that what a transaction has read of
key and revision is still true when it commits.  The lemma that carries the argument is
`OthersKeepHolding`: a statement of one request cannot take from another what it
holds, because the guards of `LockKey` and `Advance` ask for a free lock, and
only the holder of a key or of the row changes what they protect.  The
refinement then maps `Lookup`, `Advance`, `Insert`, `Commit` and `Abort` to the
step at which the request takes effect, or to a stutter.

`StepExchange_proofs` proves, for any set of members and any promises up to
`MaxMinutes` (a year of minutes, `exchange.go`), any number of rounds:
`ExchangeInvariant` (`[]ExchangeInv`), `Reproducible` (`[]StatisticsReproducible`)
and `WinnerStartsAssigned` (`WinnerStarts`).  The inductive invariant `RoundsInv`
adds `PhasesAgree` (lifecycle and stage), `RunningIsLast` (the last attempt runs,
exactly while the stage is active) and `ResultsWithdrawn` (a success stands only
while the stage is completed).  Without the last two a return could withdraw a
result that was never counted, and the statistics would not follow.  The lemmas
count the finished attempts under a promise as one is appended or changed.

`WorkTree_proofs` proves, for any number of nodes, of branch edits at once and of
trees that creations can have left (`ForestAssumption`): `TreeInvariant`
(`[]TreeInv`), `ForestInvariant` (`[]RootedForest`), `HistoryInvariant`
(`[]HistoryIsCurrent`), `GuardedEditsHold` (`GuardedEdits`) and `AcceptanceIsLast`
(`AcceptedOverClosedWork`).  `BranchesInv` has two halves.  `TablesInv` says that
the tables are a forest that agrees with its columns and its history; one lemma
for each change of the tables keeps it.  `BranchLeast` and `BranchFacts` say of the
recursive query all that these lemmas use: the branch is closed, and every member
but its root hangs below a member.  In `MoveKeeps`, a ring that a move closed would
go through the destination; its members that are in the tree and outside the
branch would have been a ring before.  `EditsInv` says what an edit relies on
between its statements: a move and a restoration hold the row of their destination
and it is in the tree; a restoration holds the removed node, which keeps its
removal and its parent; and as long as the revision is the one an edit states, the
branch is what it has read and, after its locks, planned.  Every change advances
the revision, so that the last clause becomes void for the others
(`HeldRowsStay`), and it is why `GuardedEdits` holds only for edits that state one.
An acceptance relies on the row of the workspace alone: as long as it is between its
two steps nobody else can change the tree (`WorkspaceFree`), so that what it has read
below its task is so when it commits.
That a forest is there at the start needs a least member of a set of nodes, which
is had from the well-foundedness of strict inclusion (`OldestIsThere`).

`RunnerQueue_proofs` proves, for any numbers of circles, workspaces, runners and
members and any budgets: `QueueInvariant` (`[]QueueInv`), `LateResultsRejected`
(`ResultsStand`) and `RemovedLeftAlone` (`RemovedStands`).  `LocksInv` says what
is true of a row as long as its lock is held: a runner between lease and
activation finds the stage ready and, after its check, the node not removed; one
that reports finds its attempt running; a member who has taken the row before the
workspace finds the node he asked for; and the attempt that runs is the last one.
The argument is that whatever changes a row needs its lock, that the detector
takes locks only by ending a transaction, and that nobody ends another's.

`Membership_proofs` proves, for any persons, workspaces, names, requests and
budgets, from what migrations and the first setup leave (`ScenarioAssumption`):
`MembershipInvariant` (`[]MembershipInv`), `OneActor` (`[]OneActorEach`), `ComesBack`
(`SameActorAgain`) and `RosterImplemented` (`ImplementsRoster`).  `MembersInv` joins
ten parts about the tables with what each request in progress relies on.  Two of
them carry the rest.  `OwnedOnce`, `BeforeSetup` and `RegisteredOnce` say why the
owner of existing workspaces is one person although the checks are statements of
their own: the setup is under the advisory lock, and registration is closed before
a second one counts.  `AcceptHolds` and `RequestsApart` say why nobody becomes two
actors: the row of an invitation is held while it is accepted, and one invitation
is pending for each person and workspace.  `Owned` makes the roster's steps
possible: a workspace in which anybody is, or is invited, has an owner, and no
request that is past its check has the owner's role in hand.

`Gateway_proofs` proves of `GatewayPlacement`, for any numbers of callers,
versions and parents and any bounds: `PlacedOnce` (`[]OneNode`), `MappingTrue`
(`[]MappingTellsContent`), `PlacementInvariant` (`[]PlacementInv`) and
`NodeNeverChanges` (`NodeKept`).  `RaceInv` says that the server has made one node
exactly when it has stored a result (`StoredOnce`), that a call with a caller is
the call this caller waits for (`CallsAwaited`), that an answer names the stored
node and was given to the stored version (`AnswersStored`), and that whoever
writes has found the parent remembered (`ParentRemembered`), without which a retry
would have nowhere to go.

`Gateway_proofs` proves of `EventFeed`, whose specification is `FeedSpec`, for any
transactions, nodes, gateways, page limit and delays: `JournalInvariant`
(`[]JournalInv`), `ReplaysOnce` (`GoneOverOnce`) and `OnlyLateIsSkipped`
(`[]OnlyLateSkipped`).  `BookInv` says that only the holder of the lock has a page,
that what is on it lies ahead of the saved cursor and what was passed does not, and
that rows are written for events gone over.  `CompleteInv` adds that whatever has
been cut or passed has settled (`CutHasSettled`) and that a page leaves out nothing
before its last event but what was committed after the page was asked for, and after
the cut nothing but what is late (`NoGap`).  An event that was committed while the
answer was on its way and lies before a settled one must have waited for its commit
for what the answer leaves of the settle delay (`CutIsSafe`), which is what late
means.

`JiraSync_proofs` proves, for any issues, filters, runs, batch sizes, time zones and
delays: `CredentialsSafe` (`[]CredentialInv`),
`TokensOfTheirQuery` (`[]TokenOfItsQuery`), `ImportsOnlyAdvance` (`ImportsAdvance`)
and `NothingIsLeftBehind` (`[]NothingLeftBehind`).

- *Types and locks.*  `SyncTyped` gives rows and runs their fields and says what a
  run may rely on; `Locked` that whoever has a cycle in hand has the advisory
  lock, so that there is one (`OneBatch`), although settings, resets and
  authorizations write the same rows without it.
- *Credentials.*  `OnItsWay`: a token that is about to be stored is neither
  redeemed nor stored nor in anybody else's hand.  It holds because every token
  comes from the counter, and is why storing one never brings back a token that
  Atlassian has taken.
- *Order of imports.*  `PagesFresh`: what is on a page is not older than what is
  imported and not newer than the issue.  A run that has lost its page to a crash
  cannot save it later, and with one batch at a time no other run has saved
  something newer in between.
- *Tokens and queries.*  `QueriesKept`: a continuation in the row belongs to the
  query in the row, unless that of its cycle was not written down (`Strange`).
- *Nothing behind the cursor.*  `CyclesComplete` says of every cycle, in the row or
  in a run, that each issue it promises and that neither the index can hide from it
  nor the next cycle reads again (`Due`) is imported in its version, on the page, or
  still matched by the frozen query after the continuation, or was missed between
  earlier cycles (`StillReads`); after the last page any of these but the third
  (`HasRead`).  A cycle that goes on with the token of another promises nothing
  (`Continued`).  Four facts carry it.  A page is a prefix in the order of the search
  (`PageIsPrefix`, which counts), so that the token passes over nothing that is not on
  it; what the index hides is too young to be due (`SearchReads`).  An update during
  a cycle is ahead of it by its minute (`NewUpdateAhead`).  Nothing that was read is
  unread by a later step (`StepKeepsReading`).  And a new cycle begins where the last
  cursor stopped promising (`NewCycleReads`), whatever filter it has: what it covers
  is what both filters match, and what lies between what the one finds for certain
  and what the other reads again is missed.

### Assumptions

What the theorems assume of the constants is in the `ASSUME`s of the modules, and
TLC evaluates each of them in a run: sentinels differ from data; bounds are
natural numbers; `MaxMinutes` is the limit the handler checks; transactions are
numbers other than 0, for the order of their events' ids; the scenarios of
`RunnerQueue` and `Membership` and the trees of `WorkTree` are states that the
code leaves, with the types of their columns; the time zone of an account is a
whole number of minutes.  No theorem has another hypothesis, and none assumes
anything of how long transactions, answers or the index take.

### What the proofs found

`SameActorAgain` was stated too strongly.  The step that keeps it failed for a
person whose former actor has another person's account by then, which needs more
members than the run has; TLC confirms the behaviour on a larger instance.  The
property now names that case (`Linked`), and the hazard in `PROJECT.json` says
so.  In `CompleteAccept` two guards of a CASE were true together, which leaves the
value open; the code asks one after the other, and so does the module now.  The
trees that `WorkTree` starts from had roots computed by the module; they are given
with the tree, as the column is, and `ForestAssumption` says which ones are
consistent.

### Only model-checked

- Liveness: `RetriesEnd`, `EveryChangeIsPassed`, `EveryUpdateArrives`,
  `EveryStageGetsItsTurn`, `AttemptsEnd`.  Fairness and ENABLED
  are out of the prover's reach.

## 6. Not modelled

- *Sign-in, sessions, password reset, rate limit.* Rows of single statements by
  one caller, whose interplay is with clocks and with password hashing.
- *Priority and criticality.* A decision is one inserted row, a signal one row
  that one conditional UPDATE revokes; queries order the queues by them.
- *Directory, knowledge, profile.* Single-row edits of catalogue data; that they
  change who is eligible is an action of `StepExchange`.
- *Rotation and revocation of service accounts, installation of module versions,
  schemas of configurations, encryption of secrets and credentials.* What
  depends on them is a free choice of the modules that ask.
- *Projections* (my work, diagnostics, activity, placement scoring, removed
  branches, past runs of a synchronization), *web client, migrations, start-up.*
  They change no state that anything modelled reads.
- *The connection pool.* Handlers that hold a transaction ask for a second
  connection (`server.go:441`) and could wait for one another; the pool and its
  size belong to the driver. `PROJECT.json` lists the hazard.
- Within modelled parts: the interleaving of statements within a handler of the
  circle, beyond the locks of `RunnerQueue`; the means and variances of the
  statistics; a change of the time zone of an account, or to summer time, and
  the expiry of Jira's continuation tokens (`JiraSync`); what a run does inside
  (destinations, redaction, output limits); events of other aggregates than
  nodes, which move the cursor of the feed like an event of an unmapped node
  does.

That a winner starts, a requester decides or an administrator repairs is nowhere
assumed, and therefore no liveness of a circle as a whole is stated.

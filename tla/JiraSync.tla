------------------------------ MODULE JiraSync ------------------------------
(***************************************************************************)
(* The synchronization of one Jira installation (internal/gateway:         *)
(* sync_worker.go, jira_sync.go, jira_admin.go, jira_oauth.go and the      *)
(* disabling of installations.go).                                         *)
(*                                                                         *)
(* A synchronization reads one batch of a cycle.  A cycle has a frozen     *)
(* query between two literals of time and goes on from run to run with     *)
(* Jira's continuation token; its end moves the cursor.  Scheduled and     *)
(* manual runs are serialised by an advisory lock.  Settings, resets and   *)
(* authorizations change the same rows without it, at any point.           *)
(*                                                                         *)
(* Time is counted in minutes: updated[i] = m says "during minute m".  The *)
(* interval, the back-off and the lease of two minutes are shorter or      *)
(* longer than a run as it comes: the schedule is ready again at any time. *)
(***************************************************************************)
EXTENDS Integers, FiniteSets

CONSTANTS MaxIssue,    \* issues are 1 .. MaxIssue
          Filters,     \* the JQL filters, each the set of issues it matches
          Proc,        \* runs and requests that may be in progress at once
          Batch,       \* issues a run reads (maxIssues)
          Overlap,     \* minutes by which cycles overlap (2 in the code)
          IndexLag,    \* minutes until Jira's search finds an update
          Worlds,      \* the time zone of an account (zone), with a bound on
                       \* what happens from outside (budget)
          NoOne        \* nobody holds the advisory lock

Issue == 1 .. MaxIssue

ASSUME SyncAssumption ==
  /\ MaxIssue \in Nat \ {0} /\ Filters \subseteq SUBSET Issue /\ Filters # {}
  /\ Batch \in Nat \ {0} /\ NoOne \notin Proc
  /\ Overlap \in Nat /\ IndexLag \in Nat
  /\ \A w \in Worlds : w.zone \in Int

VARIABLES now,          \* the clock
          version,      \* versions of each issue in Jira
          updated,      \* the minute of the latest one
          zone,         \* minutes by which Jira reads a literal of UTC too late:
                        \* it is read in the time zone of the account that
                        \* authorized, west of UTC if this is positive
          imported,     \* external_version of the candidates; 0 when there is none
          installation, \* gateway_installations: status, filter, credential
          schedule,     \* gateway_sync_schedules; ready says that next_run_at has
                        \* passed and that there is no lease.  covered and
                        \* earlier tell what the cursor stands for, unwritten
                        \* the cycles whose beginning was not stored
          tokens,       \* Atlassian's side: refresh tokens issued and redeemed,
                        \* whether the access token is still good, and whether
                        \* a token was redeemed whose successor was not stored
          states,       \* gateway_oauth_states
          lock,         \* the advisory lock
          proc,         \* runs and requests in progress
          left          \* what is left of the budget

vars == <<now, version, updated, zone, imported, installation, schedule,
          tokens, states, lock, proc, left>>
jira == <<now, version, updated, zone>>
outside == <<jira, imported, states>>

None == 0 - 1             \* NULL, or an empty text, where times and tokens go
Nothing == [filter |-> {}, lower |-> None, upper |-> None, covers |-> {},
            after |-> {}]
Start == [query |-> Nothing, at |-> <<None, 0>>]   \* no continuation token

Idle == [kind |-> "none", pc |-> "idle", filter |-> {}, refresh |-> None,
         cycle |-> Nothing, token |-> Start, page |-> {}, last |-> FALSE]
-----------------------------------------------------------------------------
(* Jira. *)

\* The order of "updated ASC", with the key for issues of one minute.
After(i, at) == updated[i] > at[1] \/ (updated[i] = at[1] /\ i > at[2])

\* The issues of a query that a continuation token has not passed.  A literal
\* has no seconds: the upper one excludes the minute it names.
Matching(cycle, token) ==
  {i \in cycle.filter : /\ cycle.lower + zone <= updated[i]
                        /\ updated[i] < cycle.upper + zone
                        /\ After(i, token.at)}

\* What the search may not have seen yet.
Young == {i \in Issue : updated[i] + IndexLag >= now}

PageOf(S) ==
  {i \in S : Cardinality({j \in S : After(i, <<updated[j], j>>)}) < Batch}
LastOf(S) == CHOOSE i \in S : \A j \in S : ~After(j, <<updated[i], i>>)

\* The clock goes on until a cycle can read the update.
UpdateIssue(i) ==
  /\ left.updates > 0 /\ left.minutes > IndexLag /\ left.minutes > 0 - zone
  /\ version' = [version EXCEPT ![i] = @ + 1]
  /\ updated' = [updated EXCEPT ![i] = now]
  /\ left' = [left EXCEPT !.updates = @ - 1]
  /\ UNCHANGED <<now, zone, imported, installation, schedule, tokens, states,
                 lock, proc>>
-----------------------------------------------------------------------------
(* Time. *)

Tick ==
  /\ left.minutes > 0
  /\ left' = [left EXCEPT !.minutes = @ - 1]
  /\ now' = now + 1
  /\ UNCHANGED <<version, updated, zone, imported, installation, schedule,
                 tokens, states, lock, proc>>

\* next_run_at comes, or lease_until passes, whether the run has ended or not.
BecomesReady ==
  /\ ~schedule.ready
  /\ schedule' = [schedule EXCEPT !.ready = TRUE]
  /\ UNCHANGED <<outside, installation, tokens, lock, proc, left>>

AccessExpires ==
  /\ left.expiries > 0 /\ tokens.fresh
  /\ tokens' = [tokens EXCEPT !.fresh = FALSE]
  /\ left' = [left EXCEPT !.expiries = @ - 1]
  /\ UNCHANGED <<outside, installation, schedule, lock, proc>>
-----------------------------------------------------------------------------
(* The steps of a run or request. *)

At(p, pc) == proc[p].pc = pc
Goes(p, pc) == proc' = [proc EXCEPT ![p].pc = pc]
Released(p) == IF lock = p THEN NoOne ELSE lock

\* An error: a scheduled run has its failure recorded, an authorization marks the
\* installation, a request is answered.
Ends(p) ==
  /\ proc' = [proc EXCEPT ![p] =
       IF @.kind = "scheduled" THEN [Idle EXCEPT !.pc = "failed"] ELSE Idle]
  /\ installation' = IF proc[p].kind = "oauth"
                       THEN [installation EXCEPT !.status = "error"]
                       ELSE installation
  /\ lock' = Released(p)
  /\ UNCHANGED <<outside, schedule>>

Fails(p) == Ends(p) /\ UNCHANGED tokens

Claim(p) ==
  /\ At(p, "idle")
  /\ schedule.enabled /\ installation.status = "connected"
  /\ schedule.ready
  /\ schedule' = [schedule EXCEPT !.ready = FALSE]
  /\ proc' = [proc EXCEPT ![p] = [Idle EXCEPT !.kind = "scheduled", !.pc = "lock"]]
  /\ UNCHANGED <<outside, installation, tokens, lock, left>>

\* syncJiraInstallation: the button, which takes no lease.
Manual(p) ==
  /\ At(p, "idle") /\ left.edits > 0
  /\ left' = [left EXCEPT !.edits = @ - 1]
  /\ proc' = [proc EXCEPT ![p] = [Idle EXCEPT !.kind = "manual", !.pc = "lock"]]
  /\ UNCHANGED <<outside, installation, schedule, tokens, lock>>

\* Seeded fault: runs are not serialised.
NoLock(p) == TRUE

LockFree(p) == lock = NoOne
\* The advisory lock, and the row of the installation.
ReadInstallation(p) ==
  /\ At(p, "lock") /\ LockFree(p)
  /\ \/ /\ installation.status = "connected"
        /\ lock' = p
        /\ proc' = [proc EXCEPT ![p].pc = "token", ![p].filter = installation.filter]
        /\ UNCHANGED <<outside, installation, schedule, tokens>>
     \/ /\ installation.status # "connected"
        /\ Fails(p)
  /\ UNCHANGED left

AfterToken(p) == IF proc[p].kind = "settings" THEN "probe" ELSE "plan"

\* jiraAccessToken reads the credentials and uses or refreshes the token.
ReadToken(p) ==
  /\ At(p, "token")
  /\ \/ /\ installation.credential = None
        /\ Fails(p)
     \/ /\ installation.credential # None /\ tokens.fresh
        /\ Goes(p, AfterToken(p))
        /\ UNCHANGED <<outside, installation, schedule, tokens, lock>>
     \/ /\ installation.credential # None /\ ~tokens.fresh
        /\ proc' = [proc EXCEPT ![p].pc = "redeem", ![p].refresh = installation.credential]
        /\ UNCHANGED <<outside, installation, schedule, tokens, lock>>
  /\ UNCHANGED left

\* Atlassian takes each refresh token once and answers with the next.
Redeem(p) ==
  LET t == proc[p].refresh
      next == tokens.issued + 1
  IN  /\ At(p, "redeem")
      /\ \/ /\ t \in tokens.redeemed
            /\ Fails(p)
         \/ /\ t \notin tokens.redeemed
            /\ tokens' = [tokens EXCEPT !.issued = next, !.redeemed = @ \cup {t}]
            /\ proc' = [proc EXCEPT ![p].pc = "store", ![p].refresh = next]
            /\ UNCHANGED <<outside, installation, schedule, lock>>
      /\ UNCHANGED left

\* Seeded fault: whatever the status is.
AnyStatus == TRUE

Rotated(p) == proc[p].refresh
StillConnected == installation.status = "connected"
StoreToken(p) ==
  /\ At(p, "store")
  /\ \/ /\ StillConnected
        /\ installation' = [installation EXCEPT !.credential = Rotated(p)]
        /\ tokens' = [tokens EXCEPT !.fresh = TRUE]
        /\ proc' = [proc EXCEPT ![p].pc = AfterToken(p), ![p].refresh = None]
        /\ UNCHANGED <<outside, schedule, lock>>
     \/ /\ ~StillConnected
        /\ tokens' = [tokens EXCEPT !.dropped = TRUE]
        /\ Ends(p)
  /\ UNCHANGED left
-----------------------------------------------------------------------------
(* The batch of a run. *)

\* Seeded fault: a continuation token is enough.
TokenInProgress(s) == s.token # Start

CycleInProgress(s) == s.token # Start /\ s.query # Nothing

\* Seeded fault: cycles do not overlap.
NoOverlap(c) == c

From(c) == c - Overlap
NewCycle(p, s) ==
  IF s.cursor = None
    THEN [filter |-> proc[p].filter, lower |-> 0 - zone, upper |-> now,
          covers |-> proc[p].filter, after |-> {}]
    ELSE [filter |-> proc[p].filter, lower |-> From(s.cursor), upper |-> now,
          covers |-> s.covered \cap proc[p].filter,
          after |-> s.earlier \cup {s.cursor}]

\* Nothing is promised of a cycle that goes on with the token of another one.
Continued(s) ==
  IF s.token.query = s.query THEN s.query ELSE [s.query EXCEPT !.covers = {}]

Cleared == [schedule EXCEPT !.cursor = None, !.covered = {}, !.earlier = {},
                            !.token = Start, !.query = Nothing, !.ready = TRUE]

\* A cycle goes on, or begins.  When the row cannot be read the error is
\* discarded: the run goes on as if there had never been a cycle.
Plan(p) ==
  /\ At(p, "plan")
  /\ \E s \in {schedule, Cleared} :
       /\ \/ s = schedule /\ UNCHANGED left
          \/ s = Cleared /\ left.faults > 0 /\ left' = [left EXCEPT !.faults = @ - 1]
       /\ proc' = [proc EXCEPT ![p] = [Idle EXCEPT
            !.kind = proc[p].kind,
            !.cycle = IF CycleInProgress(s) THEN Continued(s) ELSE NewCycle(p, s),
            !.token = IF CycleInProgress(s) THEN s.token ELSE Start,
            !.pc = IF CycleInProgress(s) THEN "search" ELSE "begin"]]
  /\ UNCHANGED <<outside, installation, schedule, tokens, lock>>

\* The new cycle is written down, whatever became of the cursor it starts from.
\* The error of this statement, too, is discarded, and the search goes on.
BeginCycle(p) ==
  /\ At(p, "begin")
  /\ \/ /\ schedule' = [schedule EXCEPT !.query = proc[p].cycle, !.token = Start]
        /\ UNCHANGED left
     \/ /\ left.faults > 0
        /\ left' = [left EXCEPT !.faults = @ - 1]
        /\ schedule' = [schedule EXCEPT !.unwritten = @ \cup {proc[p].cycle}]
  /\ Goes(p, "search")
  /\ UNCHANGED <<outside, installation, tokens, lock>>

\* Jira may refuse the token of another query, or go on from where it points.
Refuse(p) ==
  /\ At(p, "search")
  /\ proc[p].token # Start /\ proc[p].token.query # proc[p].cycle
  /\ Fails(p)
  /\ UNCHANGED left

\* searchJiraIssues, up to the batch size.
Search(p) ==
  /\ At(p, "search")
  /\ \E hidden \in SUBSET Young :
       LET there == Matching(proc[p].cycle, proc[p].token) \ hidden
           page == PageOf(there)
       IN  proc' = [proc EXCEPT
             ![p].pc = "save",
             ![p].page = {<<i, version[i]>> : i \in page},
             ![p].token = IF page = {} THEN @ ELSE
               [query |-> proc[p].cycle, at |-> <<updated[LastOf(page)], LastOf(page)>>],
             ![p].last = page = there]
  /\ UNCHANGED <<outside, installation, schedule, tokens, lock, left>>

\* upsertCandidate, issue by issue.
SaveCandidate(p) ==
  /\ At(p, "save")
  /\ \E c \in proc[p].page :
       /\ \A d \in proc[p].page : c[1] <= d[1]
       /\ imported' = [imported EXCEPT ![c[1]] = c[2]]
       /\ proc' = [proc EXCEPT ![p].page = @ \ {c}]
  /\ UNCHANGED <<jira, states, installation, schedule, tokens, lock, left>>

\* Seeded fault: the cycle never ends.
NoBatchIsLast(p) == FALSE

LastPage(p) == proc[p].last

\* The status is set whatever it has become.
SetConnected(p) ==
  /\ At(p, "save") /\ proc[p].page = {}
  /\ installation' = [installation EXCEPT !.status = "connected"]
  /\ Goes(p, "advance")
  /\ UNCHANGED <<outside, schedule, tokens, lock, left>>

\* The last page moves the cursor, any other the continuation; the commit lets
\* the lock go.
Advance(p) ==
  /\ At(p, "advance")
  /\ schedule' =
       IF LastPage(p)
         THEN [schedule EXCEPT !.cursor = proc[p].cycle.upper,
                               !.covered = proc[p].cycle.covers,
                               !.earlier = proc[p].cycle.after,
                               !.token = Start, !.query = Nothing]
         ELSE [schedule EXCEPT !.token = proc[p].token]
  /\ lock' = Released(p)
  /\ proc' = [proc EXCEPT ![p] = [Idle EXCEPT !.kind = proc[p].kind, !.pc = "finish"]]
  /\ UNCHANGED <<outside, installation, tokens, left>>

\* finishScheduledSync, and the same statement of a manual run: with more pages
\* to come the next run is due at once.
Finish(p) ==
  /\ At(p, "finish")
  /\ schedule' = [schedule EXCEPT !.ready = schedule.token # Start]
  /\ proc' = [proc EXCEPT ![p] = Idle]
  /\ UNCHANGED <<outside, installation, tokens, lock, left>>

BackedOff == [schedule EXCEPT !.ready = FALSE]
FinishFailed(p) ==
  /\ At(p, "failed")
  /\ schedule' = BackedOff
  /\ proc' = [proc EXCEPT ![p] = Idle]
  /\ UNCHANGED <<outside, installation, tokens, lock, left>>
-----------------------------------------------------------------------------
(* Administrators. *)

\* updateJiraSettings gets a token like a run, but without the lock.
BeginSettings(p) ==
  /\ At(p, "idle") /\ left.edits > 0 /\ installation.status = "connected"
  /\ left' = [left EXCEPT !.edits = @ - 1]
  /\ \E f \in Filters :
       proc' = [proc EXCEPT ![p] =
                  [Idle EXCEPT !.kind = "settings", !.pc = "token", !.filter = f]]
  /\ UNCHANGED <<outside, installation, schedule, tokens, lock>>

\* The filter has been tried; filter and schedule are saved in one transaction.
SaveSettings(p) ==
  /\ At(p, "probe")
  /\ installation' = [installation EXCEPT !.filter = proc[p].filter]
  /\ schedule' = Cleared
  /\ proc' = [proc EXCEPT ![p] = Idle]
  /\ UNCHANGED <<outside, tokens, lock, left>>

Reset ==
  /\ left.edits > 0
  /\ left' = [left EXCEPT !.edits = @ - 1]
  /\ schedule' = Cleared
  /\ UNCHANGED <<outside, installation, tokens, lock, proc>>

\* setSyncEnabled.
PauseOrResume(on) ==
  /\ left.edits > 0
  /\ left' = [left EXCEPT !.edits = @ - 1]
  /\ schedule' = [schedule EXCEPT !.enabled = on, !.ready = on \/ @]
  /\ UNCHANGED <<outside, installation, tokens, lock, proc>>

\* disableInstallation, at any point of a run.
Disable ==
  /\ left.disables > 0
  /\ left' = [left EXCEPT !.disables = @ - 1]
  /\ installation' = [installation EXCEPT !.status = "disabled", !.credential = None]
  /\ schedule' = [schedule EXCEPT !.enabled = FALSE]
  /\ UNCHANGED <<outside, tokens, lock, proc>>
-----------------------------------------------------------------------------
(* Authorization. *)

StartOAuth ==
  /\ left.consents > 0
  /\ installation.status # "disabled" /\ installation.credential # None
  /\ left' = [left EXCEPT !.consents = @ - 1]
  /\ states' = states + 1
  /\ UNCHANGED <<jira, imported, installation, schedule, tokens, lock, proc>>

StateExpires ==
  /\ states > 0
  /\ states' = states - 1
  /\ UNCHANGED <<jira, imported, installation, schedule, tokens, lock, proc, left>>

\* The callback takes its state, which no other callback finds again, and reads
\* the credentials of the client; or the user has refused.
Callback(p) ==
  /\ At(p, "idle") /\ states > 0
  /\ states' = states - 1
  /\ \/ /\ installation.credential # None
        /\ proc' = [proc EXCEPT ![p] = [Idle EXCEPT !.kind = "oauth", !.pc = "exchange"]]
        /\ UNCHANGED installation
     \/ /\ installation' = [installation EXCEPT !.status = "error"]
        /\ UNCHANGED proc
  /\ UNCHANGED <<jira, imported, schedule, tokens, lock, left>>

\* The code is exchanged, the site found and the configuration read.
Exchange(p) ==
  /\ At(p, "exchange")
  /\ tokens' = [tokens EXCEPT !.issued = @ + 1]
  /\ proc' = [proc EXCEPT ![p].pc = "connect", ![p].refresh = tokens.issued + 1,
                          ![p].filter = installation.filter]
  /\ UNCHANGED <<outside, installation, schedule, lock, left>>

Connect(p) ==
  /\ At(p, "connect")
  /\ installation' = [status |-> "connected", filter |-> proc[p].filter,
                      credential |-> proc[p].refresh]
  /\ tokens' = [tokens EXCEPT !.fresh = TRUE]
  /\ proc' = [proc EXCEPT ![p] = [Idle EXCEPT !.kind = "oauth", !.pc = "schedule"]]
  /\ UNCHANGED <<outside, schedule, lock, left>>

EnableSchedule(p) ==
  /\ At(p, "schedule")
  /\ schedule' = [schedule EXCEPT !.enabled = TRUE, !.ready = TRUE]
  /\ proc' = [proc EXCEPT ![p] = Idle]
  /\ UNCHANGED <<outside, installation, tokens, lock, left>>
-----------------------------------------------------------------------------
(* Faults. *)

\* p ends while Atlassian redeems its token, or before the next one is stored.
Drops(p) ==
  \/ /\ At(p, "redeem")
     /\ tokens' = [tokens EXCEPT !.redeemed = @ \cup {proc[p].refresh}, !.dropped = TRUE]
  \/ /\ At(p, "store")
     /\ tokens' = [tokens EXCEPT !.dropped = TRUE]

\* A call or statement fails.
Error(p) ==
  /\ left.faults > 0
  /\ proc[p].pc \notin {"idle", "failed", "finish"}
  /\ left' = [left EXCEPT !.faults = @ - 1]
  /\ Ends(p)
  /\ IF At(p, "redeem") \/ At(p, "store") THEN Drops(p) ELSE UNCHANGED tokens

\* The gateway stops: the database ends its transaction, and with it the lock.
Crash(p) ==
  /\ left.faults > 0 /\ ~At(p, "idle")
  /\ left' = [left EXCEPT !.faults = @ - 1]
  /\ proc' = [proc EXCEPT ![p] = Idle]
  /\ lock' = Released(p)
  /\ IF At(p, "redeem") \/ At(p, "store") THEN Drops(p) ELSE UNCHANGED tokens
  /\ UNCHANGED <<outside, installation, schedule>>
-----------------------------------------------------------------------------
Init ==
  /\ now = IndexLag + 1     \* the search knows all issues
  /\ version = [i \in Issue |-> 1] /\ updated = [i \in Issue |-> 0]
  /\ imported = [i \in Issue |-> 0]
  /\ \E f \in Filters :
       installation = [status |-> "connected", filter |-> f, credential |-> 1]
  /\ schedule = [enabled |-> TRUE, ready |-> TRUE, cursor |-> None,
                 covered |-> {}, earlier |-> {}, token |-> Start,
                 query |-> Nothing, unwritten |-> {}]
  /\ tokens = [issued |-> 1, redeemed |-> {}, fresh |-> TRUE, dropped |-> FALSE]
  /\ states = 0
  /\ lock = NoOne
  /\ proc = [p \in Proc |-> Idle]
  /\ \E w \in Worlds : zone = w.zone /\ left = w.budget

Step(p) ==
  \/ ReadInstallation(p) \/ ReadToken(p) \/ Redeem(p) \/ StoreToken(p)
  \/ Plan(p) \/ BeginCycle(p) \/ Search(p) \/ Refuse(p) \/ SaveCandidate(p)
  \/ SetConnected(p) \/ Advance(p)
  \/ Finish(p) \/ FinishFailed(p)
  \/ SaveSettings(p) \/ Exchange(p) \/ Connect(p) \/ EnableSchedule(p)

Next ==
  \/ Tick \/ BecomesReady \/ AccessExpires
  \/ \E i \in Issue : UpdateIssue(i)
  \/ \E p \in Proc :
       \/ Claim(p) \/ Manual(p) \/ BeginSettings(p) \/ Callback(p)
       \/ Step(p) \/ Error(p) \/ Crash(p)
  \/ Reset \/ Disable \/ \E on \in BOOLEAN : PauseOrResume(on)
  \/ StartOAuth \/ StateExpires

\* Time goes on, a run goes on or fails, and the workers look for due schedules.
Fairness ==
  /\ WF_vars(Tick) /\ WF_vars(BecomesReady)
  /\ \A p \in Proc : WF_vars(Step(p))
  /\ WF_vars(\E p \in Proc : Claim(p))

Spec == Init /\ [][Next]_vars /\ Fairness
-----------------------------------------------------------------------------
TypeOK ==
  /\ now \in Nat /\ zone \in Int
  /\ version \in [Issue -> Nat] /\ imported \in [Issue -> Nat]
  /\ updated \in [Issue -> 0 .. now]
  /\ installation.status \in {"connected", "error", "disabled"}
  /\ installation.filter \in Filters
  /\ installation.credential \in {None} \cup 1 .. tokens.issued
  /\ schedule.cursor \in {None} \cup 0 .. now
  /\ schedule.query = Nothing \/ schedule.query.upper \in 0 .. now
  /\ tokens.redeemed \subseteq 1 .. tokens.issued
  /\ states \in Nat
  /\ lock \in Proc \cup {NoOne}
  /\ \A p \in Proc :
       proc[p].pc \in {"plan", "begin", "search", "save", "advance"} => lock = p

\* A cycle that ended at u may not have found the update of i any more, and the
\* next one began after it.  There is no such minute while zone + IndexLag is at
\* most Overlap; west of UTC there are hours of them (jira_sync.go:98).
Missed(i, ends) ==
  \E u \in ends : u - IndexLag <= updated[i] /\ updated[i] < u - Overlap + zone

\* What no later cycle reads again has been imported: an issue that the filters
\* of all cycles since the last complete scan match, whose last update lies
\* before the next cycle and between no two of them.  Batches, pages that change
\* under way, late indexing, failures and resets may come between, and
\* statements whose error is discarded (jira_sync.go:86 to 137).
NothingLeftBehind ==
  schedule.cursor # None =>
    \A i \in schedule.covered :
      updated[i] < schedule.cursor - Overlap + zone =>
        imported[i] = version[i] \/ Missed(i, schedule.earlier \cup {schedule.cursor})

\* docs/integration-gateway.md:76: runs are serialised.  A candidate never goes
\* back to an older version of its issue.
ImportsAdvance == [][\A i \in Issue : imported'[i] >= imported[i]]_vars

\* A continuation token is sent with the query it was given for, although resets
\* and settings come between its pages; or the statement that writes down the
\* cycle it belongs to has failed (jira_sync.go:103).
TokenOfItsQuery ==
  \A p \in Proc :
    At(p, "search") /\ proc[p].token # Start =>
      proc[p].token.query \in schedule.unwritten \cup {proc[p].cycle}

\* disableInstallation erases the credentials: nothing that was in progress
\* writes them back under a status that is not connected.
DisabledIsErased ==
  installation.status = "disabled" => installation.credential = None

\* docs/integration-gateway.md:74: the rotated refresh token replaces the one
\* before it.  A stored token that Atlassian no longer takes has its successor
\* on the way, unless one was lost or refused.
TokenReplaced ==
  installation.credential \in tokens.redeemed =>
    tokens.dropped \/ \E p \in Proc : At(p, "store")

\* Types, and the credential through authorization, rotation and disabling.
CredentialInv == TypeOK /\ DisabledIsErased /\ TokenReplaced

\* Jira may refuse every search: nothing but a reset clears the row.
Foreign(s) == CycleInProgress(s) /\ s.token.query # Continued(s)

\* Every update that all filters match is imported in the end, or it lies where
\* the time zone makes cycles miss it, or the schedule is stopped, or has the
\* token of another cycle, or the installation has lost its authorization.
Hindered ==
  \/ ~schedule.enabled \/ installation.status # "connected"
  \/ installation.credential \in tokens.redeemed \cup {None}
  \/ Foreign(schedule)
EveryUpdateArrives ==
  \A i \in Issue : (\A f \in Filters : i \in f) =>
    (imported[i] < version[i] ~>
       \/ imported[i] = version[i]
       \/ Missed(i, schedule.earlier \cup {schedule.cursor})
       \/ Hindered)

\* docs/integration-gateway.md:80: "Changing the query resets the high-water
\* cursor so matching work is re-evaluated": once there is a cursor again, what
\* the new filter matches has been read behind it.
FilterCovered ==
  schedule.cursor # None => installation.filter \subseteq schedule.covered
=============================================================================

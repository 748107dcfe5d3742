--------------------------- MODULE JiraSync_proofs ---------------------------
(***************************************************************************)
(* Proofs about JiraSync for any numbers of issues, filters and processes, *)
(* any size of batches, any delays and any time zone: the credentials, the *)
(* order of imports, tokens and their queries, and which updates can be    *)
(* left behind the cursor.                                                 *)
(***************************************************************************)
EXTENDS JiraSync, FiniteSetTheorems, WellFoundedInduction, TLAPS

\* The queries, the continuation tokens, and a run as its program counter goes.
Cycles == [filter : SUBSET Issue, lower : Int, upper : Int, covers : SUBSET Issue,
           after : SUBSET Int]
Continuations == [query : Cycles, at : Int \X Int]
Batching == {"begin", "search", "save", "advance"}
Authorizing == {"token", "redeem", "store"}
Points == {"idle", "lock", "token", "redeem", "store", "plan", "begin", "search", "save",
           "advance", "finish", "failed", "probe", "exchange", "connect", "schedule"}
Runs == [kind : {"none", "scheduled", "manual", "settings", "oauth"}, pc : Points,
         filter : SUBSET Issue, refresh : Int, cycle : Cycles, token : Continuations,
         page : SUBSET (Issue \X Nat), last : BOOLEAN]

\* The rows and the runs are records of the right fields.
RowsShaped ==
  /\ installation \in [status : {"connected", "error", "disabled"},
                       filter : Filters, credential : Int]
  /\ schedule \in [enabled : BOOLEAN, ready : BOOLEAN, cursor : Int,
                   covered : SUBSET Issue, earlier : SUBSET Int,
                   token : Continuations, query : Cycles, unwritten : SUBSET Cycles]
  /\ tokens \in [issued : Nat, redeemed : SUBSET Int, fresh : BOOLEAN, dropped : BOOLEAN]

\* Rows and runs have their fields.
SyncShaped == RowsShaped /\ proc \in [Proc -> Runs]

\* A run has the lock before it gets its token, settings do without.  What it
\* has read it still has when it writes it.
RunsHold ==
  \A p \in Proc :
    /\ proc[p].pc \in Authorizing => proc[p].kind = "settings" \/ lock = p
    /\ proc[p].pc \in Authorizing \cup {"probe", "plan", "connect"} => proc[p].filter \in Filters
    /\ proc[p].pc \in {"redeem", "store", "connect"} => proc[p].refresh \in 1 .. tokens.issued
    /\ proc[p].pc \in Batching => proc[p].cycle.upper \in 0 .. now

\* The invariant of all that follows.
SyncTyped == TypeOK /\ SyncShaped /\ RunsHold

-----------------------------------------------------------------------------
(* The order of Jira's search.                                             *)

\* The order of the search is total.
LEMMA SearchOrder ==
  ASSUME updated \in [Issue -> Nat]
  PROVE  /\ IsFiniteSet(Issue) /\ Issue \subseteq Nat
         /\ \A i \in Issue : ~After(i, <<updated[i], i>>)
         /\ \A i, j \in Issue :
              i # j => After(i, <<updated[j], j>>) \/ After(j, <<updated[i], i>>)
         /\ \A i, j, k \in Issue :
              After(i, <<updated[j], j>>) /\ After(j, <<updated[k], k>>)
                => After(i, <<updated[k], k>>)
<1>1. Issue = 1 .. MaxIssue /\ MaxIssue \in Nat
  BY SyncAssumption DEF Issue
<1>2. IsFiniteSet(Issue)
  BY <1>1, FS_Interval
<1> QED
  BY <1>1, <1>2 DEF After

\* So a page that is not empty has a last issue.
LEMMA LastOfPage ==
  ASSUME updated \in [Issue -> Nat],
         NEW S \in SUBSET Issue, S # {}
  PROVE  /\ LastOf(S) \in S
         /\ \A j \in S : ~After(j, <<updated[LastOf(S)], LastOf(S)>>)
<1> DEFINE later(i) == {j \in S : After(j, <<updated[i], i>>)}
           T == {later(i) : i \in S}
<1>1. T \subseteq FiniteSubsetsOf(S) /\ T # {}
  <2>1. ASSUME NEW i \in S
        PROVE  later(i) \in FiniteSubsetsOf(S)
    <3>1. later(i) \in SUBSET S /\ later(i) \in SUBSET Issue
      OBVIOUS
    <3>2. IsFiniteSet(later(i))
      BY <3>1, SearchOrder, FS_Subset
    <3> QED
      BY <3>1, <3>2 DEF FiniteSubsetsOf
  <2>2. T # {}
    <3>1. PICK i \in S : TRUE
      OBVIOUS
    <3>2. later(i) \in T
      OBVIOUS
    <3> QED
      BY <3>2
  <2> HIDE DEF later
  <2> QED
    BY <2>1, <2>2
<1>2. PICK x \in T : \A y \in T : <<y, x>> \notin StrictSubsetOrdering(S)
  <2> HIDE DEF T
  <2> QED
    BY <1>1, FS_StrictSubsetOrderingWellFounded, WFMin
<1>3. PICK i \in S : x = later(i)
  OBVIOUS
<1>4. \A j \in S : ~After(j, <<updated[i], i>>)
  <2> SUFFICES ASSUME NEW j \in S, After(j, <<updated[i], i>>)
               PROVE  FALSE
    OBVIOUS
  <2>1. later(j) \in T /\ later(j) \subseteq S /\ later(i) \subseteq S
    OBVIOUS
  <2>2. later(j) \subseteq later(i)
    BY SearchOrder
  <2>3. j \in later(i) /\ j \notin later(j)
    BY SearchOrder
  <2> QED
    BY <1>2, <1>3, <2>1, <2>2, <2>3 DEF StrictSubsetOrdering
<1> QED
  BY <1>4 DEF LastOf

-----------------------------------------------------------------------------
(* What an action does to the rows and to its run.                         *)

\* A gateway starts connected, and with no run.
LEMMA SyncTypedInit ==
  ASSUME Init
  PROVE  SyncTyped
<1> USE SyncAssumption DEF Init, None, Nothing, Start, Idle
<1>1. TypeOK
  BY DEF TypeOK
<1>2. SyncShaped
  <2>1. Nothing \in Cycles
    BY DEF Cycles
  <2>2. Start \in Continuations
    BY <2>1 DEF Continuations
  <2>3. Idle \in Runs
    BY <2>1, <2>2 DEF Runs, Points
  <2> QED
    BY <2>1, <2>2, <2>3 DEF SyncShaped, RowsShaped
<1>3. RunsHold
  BY DEF RunsHold, Batching, Authorizing
<1> QED
  BY <1>1, <1>2, <1>3 DEF SyncTyped

\* What an idle run is.
LEMMA IdleRun ==
  /\ Nothing \in Cycles /\ Start \in Continuations /\ Idle \in Runs /\ None \in Int
  /\ Idle.pc = "idle" /\ Idle.kind = "none"
<1> USE DEF None, Nothing, Start, Idle
<1>1. Nothing \in Cycles
  BY DEF Cycles
<1>2. Start \in Continuations
  BY <1>1 DEF Continuations
<1>3. Idle \in Runs
  BY <1>1, <1>2 DEF Runs, Points
<1> QED
  BY <1>1, <1>2, <1>3

\* What a run finds is a cycle with a token, as the one it makes up is.
LEMMA PlannedCycles ==
  ASSUME RowsShaped, now \in Nat, zone \in Int
  PROVE  /\ Cleared.cursor = None /\ Cleared.token = Start /\ Cleared.query = Nothing
         /\ ~CycleInProgress(Cleared)
         /\ Continued(schedule) \in Cycles
         /\ Continued(schedule).upper = schedule.query.upper
         /\ schedule.token \in Continuations
         /\ \A p \in Proc : proc[p].filter \in SUBSET Issue =>
              NewCycle(p, schedule) \in Cycles /\ NewCycle(p, Cleared) \in Cycles
<1>1. /\ Cleared.cursor = None /\ Cleared.token = Start /\ Cleared.query = Nothing
      /\ ~CycleInProgress(Cleared)
  BY DEF RowsShaped, Cleared, CycleInProgress
<1>2. schedule.query \in Cycles /\ schedule.token \in Continuations
  BY DEF RowsShaped
<1>3. [schedule.query EXCEPT !.covers = {}] \in Cycles
      /\ [schedule.query EXCEPT !.covers = {}].upper = schedule.query.upper
  BY <1>2 DEF Cycles
<1>4. ASSUME NEW p \in Proc, proc[p].filter \in SUBSET Issue
      PROVE  NewCycle(p, schedule) \in Cycles /\ NewCycle(p, Cleared) \in Cycles
  <2>1. /\ schedule.cursor \in Int /\ schedule.covered \in SUBSET Issue
        /\ schedule.earlier \cup {schedule.cursor} \in SUBSET Int
        /\ now \in Int /\ Overlap \in Int
    BY SyncAssumption DEF RowsShaped
  <2> QED
    BY <1>1, <1>4, <2>1 DEF NewCycle, From, Cycles
<1> QED
  BY <1>1, <1>2, <1>3, <1>4 DEF Continued

\* Jira refuses a token as any call fails.
LEMMA Refusing ==
  ASSUME NEW p \in Proc, Refuse(p)
  PROVE  Ends(p) /\ tokens' = tokens /\ proc[p].pc = "search"
BY DEF Refuse, Fails, At

\* A run keeps its fields.
LEMMA RunsShapedStep ==
  ASSUME SyncTyped, [Next]_vars
  PROVE  proc' \in [Proc -> Runs]
<1> SUFFICES ASSUME proc \in [Proc -> Runs], RowsShaped, TypeOK, RunsHold, proc' # proc
             PROVE  proc' \in [Proc -> Runs]
  BY DEF SyncTyped, SyncShaped
<1> USE IdleRun DEF At
<1>0. Filters \subseteq SUBSET Issue
  BY SyncAssumption
<1>1. ASSUME NEW p \in Proc, Claim(p) \/ Manual(p) \/ BeginSettings(p) \/ Callback(p)
      PROVE  proc' \in [Proc -> Runs]
  <2>1. ASSUME NEW kind \in {"scheduled", "manual", "oauth"}, NEW pc \in Points
        PROVE  [Idle EXCEPT !.kind = kind, !.pc = pc] \in Runs
    BY <2>1 DEF Runs
  <2>2. ASSUME NEW f \in Filters
        PROVE  [Idle EXCEPT !.kind = "settings", !.pc = "token", !.filter = f] \in Runs
    BY <1>0 DEF Runs, Points
  <2> QED
    BY <1>1, <2>1, <2>2 DEF Claim, Manual, BeginSettings, Callback, Points
<1>2. ASSUME NEW p \in Proc, Ends(p)
      PROVE  proc' \in [Proc -> Runs]
  <2>1. [Idle EXCEPT !.pc = "failed"] \in Runs
    BY DEF Runs, Points
  <2> QED
    BY <1>2, <2>1 DEF Ends
<1>3. ASSUME NEW p \in Proc, ReadInstallation(p)
      PROVE  proc' \in [Proc -> Runs]
  <2>1. installation.filter \in SUBSET Issue
    BY <1>0 DEF RowsShaped
  <2>2. CASE proc' = [proc EXCEPT ![p].pc = "token", ![p].filter = installation.filter]
    <3>1. [proc[p] EXCEPT !.pc = "token", !.filter = installation.filter] \in Runs
      BY <2>1 DEF Runs, Points
    <3>2. proc' = [proc EXCEPT ![p] = [proc[p] EXCEPT !.pc = "token",
                                                      !.filter = installation.filter]]
      BY <2>2
    <3> QED
      BY <3>1, <3>2
  <2> QED
    BY <1>2, <1>3, <2>2 DEF ReadInstallation, Fails
<1>4. ASSUME NEW p \in Proc, ReadToken(p)
      PROVE  proc' \in [Proc -> Runs]
  <2>1. CASE Goes(p, AfterToken(p))
    BY <2>1 DEF Goes, AfterToken, Runs, Points
  <2>2. CASE proc' = [proc EXCEPT ![p].pc = "redeem", ![p].refresh = installation.credential]
    <3>0. installation.credential \in Int
      BY DEF RowsShaped
    <3>1. [proc[p] EXCEPT !.pc = "redeem", !.refresh = installation.credential] \in Runs
      BY <3>0 DEF Runs, Points
    <3>2. proc' = [proc EXCEPT ![p] = [proc[p] EXCEPT !.pc = "redeem",
                                                      !.refresh = installation.credential]]
      BY <2>2
    <3> QED
      BY <3>1, <3>2
  <2> QED
    BY <1>2, <1>4, <2>1, <2>2 DEF ReadToken, Fails
<1>5. ASSUME NEW p \in Proc, Redeem(p)
      PROVE  proc' \in [Proc -> Runs]
  <2>1. CASE proc' = [proc EXCEPT ![p].pc = "store", ![p].refresh = tokens.issued + 1]
    <3>0. tokens.issued + 1 \in Int
      BY DEF RowsShaped
    <3>1. [proc[p] EXCEPT !.pc = "store", !.refresh = tokens.issued + 1] \in Runs
      BY <3>0 DEF Runs, Points
    <3>2. proc' = [proc EXCEPT ![p] = [proc[p] EXCEPT !.pc = "store",
                                                      !.refresh = tokens.issued + 1]]
      BY <2>1
    <3> QED
      BY <3>1, <3>2
  <2> QED
    BY <1>2, <1>5, <2>1 DEF Redeem, Fails
<1>6. ASSUME NEW p \in Proc, StoreToken(p)
      PROVE  proc' \in [Proc -> Runs]
  <2>1. CASE proc' = [proc EXCEPT ![p].pc = AfterToken(p), ![p].refresh = None]
    <3>1. [proc[p] EXCEPT !.pc = AfterToken(p), !.refresh = None] \in Runs
      BY DEF AfterToken, Runs, Points
    <3>2. proc' = [proc EXCEPT ![p] = [proc[p] EXCEPT !.pc = AfterToken(p),
                                                      !.refresh = None]]
      BY <2>1
    <3> QED
      BY <3>1, <3>2
  <2> QED
    BY <1>2, <1>6, <2>1 DEF StoreToken
<1>7. ASSUME NEW p \in Proc, Plan(p)
      PROVE  proc' \in [Proc -> Runs]
  <2>1. proc[p].filter \in SUBSET Issue
    BY DEF Runs
  <2> DEFINE run(c, t, pc) ==
        [Idle EXCEPT !.kind = proc[p].kind, !.cycle = c, !.token = t, !.pc = pc]
  <2>2. /\ ~CycleInProgress(Cleared)
        /\ Continued(schedule) \in Cycles /\ schedule.token \in Continuations
        /\ NewCycle(p, schedule) \in Cycles /\ NewCycle(p, Cleared) \in Cycles
    <3>1. now \in Nat /\ zone \in Int
      BY DEF TypeOK
    <3> QED
      BY <2>1, <3>1, PlannedCycles
  <2>3. \/ proc' = [proc EXCEPT ![p] = run(Continued(schedule), schedule.token, "search")]
        \/ proc' = [proc EXCEPT ![p] = run(NewCycle(p, schedule), Start, "begin")]
        \/ proc' = [proc EXCEPT ![p] = run(NewCycle(p, Cleared), Start, "begin")]
    BY <1>7, <2>2 DEF Plan
  <2>4. \A c \in Cycles, t \in Continuations, pc \in {"search", "begin"} :
          run(c, t, pc) \in Runs
    BY DEF Runs, Points
  <2> HIDE DEF run
  <2> QED
    BY <2>2, <2>3, <2>4
<1>8. ASSUME NEW p \in Proc, BeginCycle(p) \/ SetConnected(p)
      PROVE  proc' \in [Proc -> Runs]
  BY <1>8 DEF BeginCycle, SetConnected, Goes, Runs, Points
<1>9. ASSUME NEW p \in Proc, Search(p)
      PROVE  proc' \in [Proc -> Runs]
  <2>1. PICK hidden \in SUBSET Young :
          LET there == Matching(proc[p].cycle, proc[p].token) \ hidden
              page == PageOf(there)
          IN  proc' = [proc EXCEPT
                ![p].pc = "save",
                ![p].page = {<<i, version[i]>> : i \in page},
                ![p].token = IF page = {} THEN @ ELSE
                  [query |-> proc[p].cycle,
                   at |-> <<updated[LastOf(page)], LastOf(page)>>],
                ![p].last = page = there]
    BY <1>9 DEF Search
  <2> DEFINE there == Matching(proc[p].cycle, proc[p].token) \ hidden
             page == PageOf(there)
             next == [query |-> proc[p].cycle,
                      at |-> <<updated[LastOf(page)], LastOf(page)>>]
             read == {<<i, version[i]>> : i \in page}
             last == page = there
  <2>2. proc[p].cycle \in Cycles /\ proc[p].cycle.filter \in SUBSET Issue
    BY DEF Runs, Cycles
  <2>3. page \in SUBSET Issue
    BY <2>2 DEF PageOf, Matching
  <2>4. read \in SUBSET (Issue \X Nat)
    <3>1. \A i \in Issue : <<i, version[i]>> \in Issue \X Nat
      BY DEF TypeOK
    <3> HIDE DEF page
    <3> QED
      BY <2>3, <3>1
  <2>5. ASSUME page # {}
        PROVE  next \in Continuations
    <3>1. updated \in [Issue -> Nat]
      BY DEF TypeOK
    <3>3. \A i \in Issue : updated[i] \in Int /\ i \in Int
      BY <3>1, SearchOrder
    <3>2. LastOf(page) \in Issue
      BY <2>3, <2>5, <3>1, LastOfPage
    <3> QED
      BY <2>2, <3>2, <3>3 DEF Continuations
  <2>6. last \in BOOLEAN
    OBVIOUS
  <2>7. proc' = [proc EXCEPT ![p].pc = "save", ![p].page = read,
                             ![p].token = IF page = {} THEN @ ELSE next, ![p].last = last]
    BY <2>1
  <2> DEFINE token == IF page = {} THEN proc[p].token ELSE next
  <2>8. token \in Continuations
    BY <2>5 DEF Runs
  <2>9. proc' = [proc EXCEPT ![p] = [proc[p] EXCEPT !.pc = "save", !.page = read,
                                                    !.token = token, !.last = last]]
    BY <2>7
  <2> HIDE DEF page, next, read, last, token
  <2>10. [proc[p] EXCEPT !.pc = "save", !.page = read, !.token = token, !.last = last] \in Runs
    BY <2>4, <2>6, <2>8 DEF Runs, Points
  <2> QED
    BY <2>9, <2>10
<1>10. ASSUME NEW p \in Proc, SaveCandidate(p)
       PROVE  proc' \in [Proc -> Runs]
  BY <1>10 DEF SaveCandidate, Runs
<1>11. ASSUME NEW p \in Proc, Advance(p)
       PROVE  proc' \in [Proc -> Runs]
  <2>1. proc' = [proc EXCEPT ![p] = [Idle EXCEPT !.kind = proc[p].kind, !.pc = "finish"]]
    BY <1>11 DEF Advance
  <2> QED
    BY <2>1 DEF Runs, Points
<1>12. ASSUME NEW p \in Proc, \/ Finish(p) \/ FinishFailed(p) \/ SaveSettings(p)
                              \/ EnableSchedule(p) \/ Crash(p)
       PROVE  proc' \in [Proc -> Runs]
  BY <1>12 DEF Finish, FinishFailed, SaveSettings, EnableSchedule, Crash
<1>13. ASSUME NEW p \in Proc, Exchange(p)
       PROVE  proc' \in [Proc -> Runs]
  <2>1. installation.filter \in SUBSET Issue /\ tokens.issued + 1 \in Int
    BY <1>0 DEF RowsShaped
  <2> QED
    <3>1. [proc[p] EXCEPT !.pc = "connect", !.refresh = tokens.issued + 1,
                          !.filter = installation.filter] \in Runs
      BY <2>1 DEF Runs, Points
    <3>2. proc' = [proc EXCEPT ![p] = [proc[p] EXCEPT !.pc = "connect",
                     !.refresh = tokens.issued + 1, !.filter = installation.filter]]
      BY <1>13 DEF Exchange
    <3> QED
      BY <3>1, <3>2
<1>14. ASSUME NEW p \in Proc, Connect(p)
       PROVE  proc' \in [Proc -> Runs]
  BY <1>14 DEF Connect, Runs, Points
<1> QED
  BY <1>1, <1>2, <1>3, <1>4, <1>5, <1>6, <1>7, <1>8, <1>9, <1>10, <1>11, <1>12, <1>13, <1>14,
     Refusing
  DEF Next, Step, Error, vars, Tick, BecomesReady, AccessExpires, StartOAuth,
      StateExpires, UpdateIssue, Reset, Disable, PauseOrResume

\* So do the rows.
LEMMA RowsShapedStep ==
  ASSUME SyncTyped, [Next]_vars
  PROVE  RowsShaped'
<1> SUFFICES ASSUME proc \in [Proc -> Runs], RowsShaped, TypeOK, RunsHold,
                    <<installation, schedule, tokens>>' # <<installation, schedule, tokens>>
             PROVE  RowsShaped'
  BY DEF SyncTyped, SyncShaped, RowsShaped
<1> USE IdleRun DEF At, RowsShaped
<1>1. CASE BecomesReady \/ AccessExpires
  BY <1>1 DEF BecomesReady, AccessExpires
<1>2. CASE Reset \/ Disable \/ \E on \in BOOLEAN : PauseOrResume(on)
  BY <1>2 DEF Reset, Disable, PauseOrResume, Cleared
<1>3. ASSUME NEW p \in Proc, Claim(p) \/ Callback(p)
      PROVE  RowsShaped'
  BY <1>3 DEF Claim, Callback
<1>4. ASSUME NEW p \in Proc, Ends(p), UNCHANGED tokens
      PROVE  RowsShaped'
  BY <1>4 DEF Ends
<1>5. ASSUME NEW p \in Proc, Ends(p) \/ UNCHANGED <<installation, schedule>>, Drops(p)
      PROVE  RowsShaped'
  <2>1. proc[p].refresh \in Int
    BY DEF Runs
  <2> QED
    <3>1. tokens' \in [issued : Nat, redeemed : SUBSET Int, fresh : BOOLEAN, dropped : BOOLEAN]
      <4>1. tokens.redeemed \cup {proc[p].refresh} \in SUBSET Int
        BY <2>1
      <4>2. [tokens EXCEPT !.redeemed = tokens.redeemed \cup {proc[p].refresh},
                           !.dropped = TRUE] \in [issued : Nat, redeemed : SUBSET Int,
                                                  fresh : BOOLEAN, dropped : BOOLEAN]
        BY <4>1
      <4>3. \/ tokens' = [tokens EXCEPT !.redeemed = tokens.redeemed \cup {proc[p].refresh},
                                        !.dropped = TRUE]
            \/ tokens' = [tokens EXCEPT !.dropped = TRUE]
        BY <1>5 DEF Drops
      <4> QED
        BY <4>2, <4>3
    <3> QED
      BY <1>5, <3>1 DEF Ends
<1>6. ASSUME NEW p \in Proc, ReadInstallation(p) \/ ReadToken(p)
      PROVE  RowsShaped'
  BY <1>4, <1>6 DEF ReadInstallation, ReadToken, Fails, outside
<1>7. ASSUME NEW p \in Proc, Redeem(p)
      PROVE  RowsShaped'
  <2>1. proc[p].refresh \in Int
    BY DEF Runs
  <2> QED
    <3>0. tokens.redeemed \cup {proc[p].refresh} \in SUBSET Int /\ tokens.issued + 1 \in Nat
      BY <2>1
    <3>1. [tokens EXCEPT !.issued = tokens.issued + 1,
                         !.redeemed = tokens.redeemed \cup {proc[p].refresh}]
            \in [issued : Nat, redeemed : SUBSET Int, fresh : BOOLEAN, dropped : BOOLEAN]
      BY <3>0
    <3> QED
      BY <1>4, <1>7, <3>1 DEF Redeem, Fails
<1>8. ASSUME NEW p \in Proc, StoreToken(p)
      PROVE  RowsShaped'
  <2>1. proc[p].refresh \in Int
    BY DEF Runs
  <2> QED
    BY <1>8, <2>1 DEF StoreToken, Rotated, Ends
<1>9. ASSUME NEW p \in Proc, BeginCycle(p) \/ Advance(p)
      PROVE  RowsShaped'
  <2>1. /\ proc[p].cycle \in Cycles /\ proc[p].token \in Continuations
        /\ proc[p].cycle.upper \in Int /\ proc[p].cycle.covers \in SUBSET Issue
        /\ proc[p].cycle.after \in SUBSET Int
    BY DEF Runs, Cycles
  <2>2. installation' = installation /\ tokens' = tokens
    BY <1>9 DEF BeginCycle, Advance
  <2>3. schedule.unwritten \cup {proc[p].cycle} \in SUBSET Cycles
    BY <2>1
  <2>4. CASE BeginCycle(p)
    BY <2>1, <2>2, <2>3, <2>4 DEF BeginCycle
  <2>5. CASE Advance(p)
    BY <2>1, <2>2, <2>5 DEF Advance, LastPage
  <2> QED
    BY <1>9, <2>4, <2>5
<1>10. ASSUME NEW p \in Proc, \/ Finish(p) \/ FinishFailed(p) \/ SetConnected(p)
                              \/ EnableSchedule(p)
       PROVE  RowsShaped'
  BY <1>10 DEF Finish, FinishFailed, BackedOff, SetConnected, EnableSchedule
<1>11. ASSUME NEW p \in Proc, SaveSettings(p)
       PROVE  RowsShaped'
  <2>1. proc[p].filter \in Filters
    BY <1>11 DEF SaveSettings, RunsHold
  <2> QED
    BY <1>11, <2>1 DEF SaveSettings, Cleared
<1>12. ASSUME NEW p \in Proc, Exchange(p)
       PROVE  RowsShaped'
  BY <1>12 DEF Exchange
<1>13. ASSUME NEW p \in Proc, Connect(p)
       PROVE  RowsShaped'
  <2>1. proc[p].filter \in Filters /\ proc[p].refresh \in Int
    BY <1>13 DEF Connect, RunsHold, Runs
  <2> QED
    BY <1>13, <2>1 DEF Connect
<1> QED
  BY <1>1, <1>2, <1>3, <1>4, <1>5, <1>6, <1>7, <1>8, <1>9, <1>10, <1>11, <1>12, <1>13,
     Refusing
  DEF Next, Step, Error, Crash, vars, Tick, StartOAuth, StateExpires, UpdateIssue,
      Manual, BeginSettings, Plan, Search, SaveCandidate, outside

\* What a page makes of its run.
LEMMA Searching ==
  ASSUME NEW p \in Proc, proc \in [Proc -> Runs], Search(p)
  PROVE  /\ proc[p].pc = "search" /\ proc'[p].pc = "save"
         /\ \A q \in Proc : q # p => proc'[q] = proc[q]
         /\ proc'[p].kind = proc[p].kind /\ proc'[p].cycle = proc[p].cycle
         /\ proc'[p].token = proc[p].token \/ proc'[p].token.query = proc[p].cycle
         /\ \E hidden \in SUBSET Young :
              LET there == Matching(proc[p].cycle, proc[p].token) \ hidden
                  page == PageOf(there)
              IN  /\ proc'[p].page = {<<i, version[i]>> : i \in page}
                  /\ proc'[p].token = IF page = {} THEN proc[p].token ELSE
                       [query |-> proc[p].cycle,
                        at |-> <<updated[LastOf(page)], LastOf(page)>>]
                  /\ proc'[p].last = (page = there)
<1>1. PICK hidden \in SUBSET Young :
        LET there == Matching(proc[p].cycle, proc[p].token) \ hidden
            page == PageOf(there)
        IN  proc' = [proc EXCEPT
              ![p].pc = "save",
              ![p].page = {<<i, version[i]>> : i \in page},
              ![p].token = IF page = {} THEN @ ELSE
                [query |-> proc[p].cycle,
                 at |-> <<updated[LastOf(page)], LastOf(page)>>],
              ![p].last = page = there]
  BY DEF Search
<1> DEFINE there == Matching(proc[p].cycle, proc[p].token) \ hidden
           page == PageOf(there)
           read == {<<i, version[i]>> : i \in page}
           token == IF page = {} THEN proc[p].token ELSE
                      [query |-> proc[p].cycle,
                       at |-> <<updated[LastOf(page)], LastOf(page)>>]
           last == page = there
<1>2. proc' = [proc EXCEPT ![p] = [proc[p] EXCEPT !.pc = "save", !.page = read,
                                                  !.token = token, !.last = last]]
  BY <1>1
<1>3. \A q \in Proc : q # p => proc'[q] = proc[q]
  BY <1>2
<1>4. /\ proc'[p].pc = "save" /\ proc'[p].page = read /\ proc'[p].token = token
      /\ proc'[p].kind = proc[p].kind /\ proc'[p].cycle = proc[p].cycle
  <2> HIDE DEF read, token, last
  <2> QED
    BY <1>2 DEF Runs
<1>5. proc'[p].last = last
  <2> HIDE DEF read, token, last
  <2> QED
    BY <1>2 DEF Runs
<1>6. proc[p].pc = "search"
  BY DEF Search, At
<1>7. token = proc[p].token \/ token.query = proc[p].cycle
  OBVIOUS
<1> QED
  BY <1>3, <1>4, <1>5, <1>6, <1>7

\* A run goes on with the cycle in progress, or with a new one.
LEMMA Planning ==
  ASSUME NEW p \in Proc, proc \in [Proc -> Runs], RowsShaped, Plan(p)
  PROVE  /\ proc[p].pc = "plan" /\ \A q \in Proc : q # p => proc'[q] = proc[q]
         /\ proc'[p].kind = proc[p].kind /\ proc'[p].page = {}
         /\ \/ /\ CycleInProgress(schedule)
               /\ proc'[p].pc = "search"
               /\ proc'[p].cycle = Continued(schedule) /\ proc'[p].token = schedule.token
            \/ /\ proc'[p].pc = "begin"
               /\ proc'[p].cycle \in {NewCycle(p, schedule), NewCycle(p, Cleared)}
               /\ proc'[p].token = Start
<1> DEFINE run(c, t, pc) ==
      [Idle EXCEPT !.kind = proc[p].kind, !.cycle = c, !.token = t, !.pc = pc]
<1>1. \A c, t, pc : /\ run(c, t, pc).kind = proc[p].kind /\ run(c, t, pc).cycle = c
                    /\ run(c, t, pc).token = t /\ run(c, t, pc).pc = pc
                    /\ run(c, t, pc).page = {}
  BY DEF Idle
<1>2. ~CycleInProgress(Cleared)
  BY IdleRun DEF RowsShaped, Cleared, CycleInProgress
<1>3. \/ /\ CycleInProgress(schedule)
         /\ proc' = [proc EXCEPT ![p] = run(Continued(schedule), schedule.token, "search")]
      \/ proc' = [proc EXCEPT ![p] = run(NewCycle(p, schedule), Start, "begin")]
      \/ proc' = [proc EXCEPT ![p] = run(NewCycle(p, Cleared), Start, "begin")]
  BY <1>2 DEF Plan
<1>4. proc[p].pc = "plan"
  BY DEF Plan, At
<1> HIDE DEF run
<1> QED
  BY <1>1, <1>3, <1>4

\* A request, a lease or a callback begins with nothing in hand.
LEMMA Beginning ==
  ASSUME NEW p \in Proc, proc \in [Proc -> Runs],
         Claim(p) \/ Manual(p) \/ BeginSettings(p) \/ Callback(p)
  PROVE  /\ proc[p].pc = "idle" /\ \A q \in Proc : q # p => proc'[q] = proc[q]
         /\ \/ proc'[p] = proc[p]
            \/ proc'[p].pc \in {"lock", "exchange"}
            \/ proc'[p].pc = "token" /\ proc'[p].kind = "settings" /\ proc'[p].filter \in Filters
<1>1. CASE Claim(p)
  <2>1. proc' = [proc EXCEPT ![p] = [Idle EXCEPT !.kind = "scheduled", !.pc = "lock"]]
    BY <1>1 DEF Claim
  <2> QED
    BY <1>1, <2>1 DEF Claim, At, Idle
<1>2. CASE Manual(p)
  <2>1. proc' = [proc EXCEPT ![p] = [Idle EXCEPT !.kind = "manual", !.pc = "lock"]]
    BY <1>2 DEF Manual
  <2> QED
    BY <1>2, <2>1 DEF Manual, At, Idle
<1>3. CASE BeginSettings(p)
  <2>1. PICK f \in Filters : proc' =
          [proc EXCEPT ![p] = [Idle EXCEPT !.kind = "settings", !.pc = "token", !.filter = f]]
    BY <1>3 DEF BeginSettings
  <2> QED
    BY <1>3, <2>1 DEF BeginSettings, At, Idle
<1>4. CASE Callback(p)
  <2>1. \/ proc' = [proc EXCEPT ![p] = [Idle EXCEPT !.kind = "oauth", !.pc = "exchange"]]
        \/ proc' = proc
    BY <1>4 DEF Callback
  <2> QED
    BY <1>4, <2>1 DEF Callback, At, Idle
<1> QED
  BY <1>1, <1>2, <1>3, <1>4

\* And ends with nothing.
LEMMA Ending ==
  ASSUME NEW p \in Proc, proc \in [Proc -> Runs],
         \/ Ends(p) \/ Advance(p) \/ Connect(p) \/ Crash(p) \/ Finish(p)
         \/ FinishFailed(p) \/ SaveSettings(p) \/ EnableSchedule(p)
  PROVE  /\ \A q \in Proc : q # p => proc'[q] = proc[q]
         /\ proc'[p].pc \in {"idle", "failed", "finish", "schedule"} /\ proc'[p].page = {}
<1>1. \/ proc' = [proc EXCEPT ![p] = [Idle EXCEPT !.pc = "failed"]]
      \/ proc' = [proc EXCEPT ![p] = [Idle EXCEPT !.kind = proc[p].kind, !.pc = "finish"]]
      \/ proc' = [proc EXCEPT ![p] = [Idle EXCEPT !.kind = "oauth", !.pc = "schedule"]]
      \/ proc' = [proc EXCEPT ![p] = Idle]
  BY DEF Ends, Advance, Connect, Crash, Finish, FinishFailed, SaveSettings,
         EnableSchedule
<1>2. CASE proc' = [proc EXCEPT ![p] = [Idle EXCEPT !.pc = "failed"]]
  BY <1>2 DEF Idle
<1>3. CASE proc' = [proc EXCEPT ![p] = [Idle EXCEPT !.kind = proc[p].kind, !.pc = "finish"]]
  BY <1>3 DEF Idle
<1>4. CASE proc' = [proc EXCEPT ![p] = [Idle EXCEPT !.kind = "oauth", !.pc = "schedule"]]
  BY <1>4 DEF Idle
<1>5. CASE proc' = [proc EXCEPT ![p] = Idle]
  BY <1>5 DEF Idle
<1> QED
  BY <1>1, <1>2, <1>3, <1>4, <1>5

\* Versions, imports and the clock go up, an update lies in the past.
LEMMA JiraSideStep ==
  ASSUME SyncTyped, [Next]_vars
  PROVE  /\ now' \in Nat
         /\ version' \in [Issue -> Nat] /\ imported' \in [Issue -> Nat]
         /\ updated' \in [Issue -> 0 .. now']
         /\ states' \in Nat
         /\ now' >= now /\ zone' = zone
<1> SUFFICES ASSUME proc \in [Proc -> Runs], TypeOK, ~UNCHANGED <<outside>>
             PROVE  /\ now' \in Nat
                    /\ version' \in [Issue -> Nat] /\ imported' \in [Issue -> Nat]
                    /\ updated' \in [Issue -> 0 .. now']
                    /\ states' \in Nat
                    /\ now' >= now /\ zone' = zone
  BY DEF SyncTyped, SyncShaped, TypeOK, outside, jira
<1> USE DEF TypeOK
<1>1. CASE Tick
  BY <1>1 DEF Tick
<1>2. ASSUME NEW i \in Issue, UpdateIssue(i)
      PROVE  /\ version' \in [Issue -> Nat] /\ updated' \in [Issue -> 0 .. now]
             /\ UNCHANGED <<now, zone, imported, states>>
  BY <1>2 DEF UpdateIssue
<1>3. ASSUME NEW p \in Proc, SaveCandidate(p)
      PROVE  imported' \in [Issue -> Nat] /\ UNCHANGED <<jira, states>>
  <2>1. proc[p].page \in SUBSET (Issue \X Nat)
    BY DEF Runs
  <2> QED
    BY <1>3, <2>1 DEF SaveCandidate
<1>4. CASE StartOAuth \/ StateExpires \/ \E p \in Proc : Callback(p)
  BY <1>4 DEF StartOAuth, StateExpires, Callback, jira
<1>5. ASSUME NEW p \in Proc, Step(p) \/ Error(p) \/ Crash(p), ~SaveCandidate(p)
      PROVE  FALSE
  BY <1>5 DEF Step, Error, Crash, Ends, ReadInstallation, ReadToken, Redeem,
     StoreToken, Fails, Plan, BeginCycle, Search, Refuse, SetConnected, Advance, Finish,
     FinishFailed, SaveSettings, Exchange, Connect, EnableSchedule
<1>6. ASSUME NEW p \in Proc, Claim(p) \/ Manual(p) \/ BeginSettings(p)
      PROVE  FALSE
  BY <1>6 DEF Claim, Manual, BeginSettings
<1>7. ASSUME \/ BecomesReady \/ AccessExpires \/ Reset \/ Disable \/ UNCHANGED vars
      PROVE  FALSE
  BY <1>7 DEF BecomesReady, AccessExpires, Reset, Disable, vars, outside, jira
<1>8. ASSUME NEW on, PauseOrResume(on)
      PROVE  FALSE
  BY <1>8 DEF PauseOrResume
<1> QED
  BY <1>1, <1>2, <1>3, <1>4, <1>5, <1>6, <1>7, <1>8 DEF Next, jira

\* Who holds what: the lock of a run.
Locked ==
  /\ lock \in Proc \cup {NoOne}
  /\ \A p \in Proc :
       /\ proc[p].pc \in {"plan", "begin", "search", "save", "advance"} => lock = p
       /\ proc[p].pc \in Authorizing => proc[p].kind = "settings" \/ lock = p

\* Only one run at a time goes beyond its lock.
LEMMA LockedStep ==
  ASSUME SyncTyped, [Next]_vars
  PROVE  Locked'
<1> SUFFICES ASSUME proc \in [Proc -> Runs], RowsShaped, Locked,
                    <<proc, lock>>' # <<proc, lock>>
             PROVE  Locked'
  BY DEF SyncTyped, SyncShaped, TypeOK, RunsHold, Locked
<1> USE IdleRun DEF Locked, At, Authorizing, Released
<1>1. ASSUME NEW p \in Proc, Claim(p) \/ Manual(p) \/ BeginSettings(p) \/ Callback(p)
      PROVE  Locked'
  <2>1. lock' = lock
    BY <1>1 DEF Claim, Manual, BeginSettings, Callback
  <2> QED
    BY <1>1, <2>1, Beginning
<1>2. ASSUME NEW p \in Proc, \/ Ends(p) \/ Advance(p) \/ Connect(p) \/ Crash(p)
                             \/ Finish(p) \/ FinishFailed(p) \/ SaveSettings(p)
                             \/ EnableSchedule(p)
      PROVE  Locked'
  <2>1. lock' = lock \/ lock' = Released(p)
    BY <1>2 DEF Ends, Advance, Connect, Crash, Finish, FinishFailed, SaveSettings,
       EnableSchedule
  <2>2. /\ \A q \in Proc : q # p => proc'[q] = proc[q]
        /\ proc'[p].pc \in {"idle", "failed", "finish", "schedule"}
    BY <1>2, Ending
  <2> QED
    BY <2>1, <2>2, SyncAssumption
<1>3. ASSUME NEW p \in Proc, ReadInstallation(p)
      PROVE  Locked'
  BY <1>2, <1>3, SyncAssumption DEF ReadInstallation, Fails, LockFree, Runs
<1>4. ASSUME NEW p \in Proc, ReadToken(p) \/ Redeem(p) \/ StoreToken(p)
      PROVE  Locked'
  BY <1>2, <1>4 DEF ReadToken, Redeem, StoreToken, Fails, Goes, AfterToken, Runs
<1>5. ASSUME NEW p \in Proc, Plan(p)
      PROVE  Locked'
  <2>1. lock' = lock
    BY <1>5 DEF Plan
  <2>2. /\ \A q \in Proc : q # p => proc'[q] = proc[q]
        /\ proc[p].pc = "plan" /\ proc'[p].pc \in {"search", "begin"}
    BY <1>5, Planning
  <2> QED
    BY <2>1, <2>2
<1>6. ASSUME NEW p \in Proc, BeginCycle(p) \/ SetConnected(p) \/ SaveCandidate(p)
      PROVE  Locked'
  BY <1>6 DEF BeginCycle, SetConnected, SaveCandidate, Goes, Runs
<1>7. ASSUME NEW p \in Proc, Search(p)
      PROVE  Locked'
  <2>1. lock' = lock
    BY <1>7 DEF Search
  <2> QED
    BY <1>7, <2>1, Searching
<1>8. ASSUME NEW p \in Proc, Exchange(p)
      PROVE  Locked'
  <2>1. lock' = lock /\ (\A q \in Proc : q # p => proc'[q] = proc[q]) /\ proc'[p].pc = "connect"
    BY <1>8 DEF Exchange, Runs
  <2> QED
    BY <2>1
<1> QED
  BY <1>1, <1>2, <1>3, <1>4, <1>5, <1>6, <1>7, <1>8, Refusing
  DEF Next, Step, Error, vars, Tick, BecomesReady, AccessExpires, StartOAuth,
      StateExpires, UpdateIssue, Reset, Disable, PauseOrResume

\* What a run has in hand on its way to a token.
LEMMA Fetching ==
  ASSUME NEW p \in Proc, proc \in [Proc -> Runs],
         ReadInstallation(p) \/ ReadToken(p) \/ Redeem(p) \/ StoreToken(p)
  PROVE  \/ Ends(p)
         \/ /\ \A q \in Proc : q # p => proc'[q] = proc[q]
            /\ proc'[p].kind = proc[p].kind
            /\ \/ /\ proc[p].pc = "lock" /\ proc'[p].pc = "token"
                  /\ proc'[p].filter = installation.filter
                  /\ UNCHANGED <<installation, tokens>>
               \/ /\ proc[p].pc = "token" /\ proc'[p].filter = proc[p].filter
                  /\ UNCHANGED <<installation, tokens>>
                  /\ \/ proc'[p].pc = AfterToken(p)
                     \/ /\ proc'[p].pc = "redeem" /\ installation.credential # None
                        /\ proc'[p].refresh = installation.credential
               \/ /\ proc[p].pc = "redeem" /\ proc'[p].filter = proc[p].filter
                  /\ proc[p].refresh \notin tokens.redeemed
                  /\ proc'[p].pc = "store" /\ proc'[p].refresh = tokens.issued + 1
                  /\ tokens' = [tokens EXCEPT !.issued = tokens.issued + 1,
                                  !.redeemed = tokens.redeemed \cup {proc[p].refresh}]
                  /\ installation' = installation
               \/ /\ proc[p].pc = "store" /\ proc'[p].filter = proc[p].filter
                  /\ proc'[p].pc = AfterToken(p) /\ StillConnected
                  /\ tokens' = [tokens EXCEPT !.fresh = TRUE]
                  /\ installation' = [installation EXCEPT !.credential = proc[p].refresh]
<1> USE DEF At, Runs
<1>1. CASE ReadInstallation(p)
  BY <1>1 DEF ReadInstallation, Fails
<1>2. CASE ReadToken(p)
  <2>1. CASE Goes(p, AfterToken(p))
    BY <1>2, <2>1 DEF ReadToken, Goes, Fails
  <2>2. CASE /\ installation.credential # None
             /\ proc' = [proc EXCEPT ![p].pc = "redeem", ![p].refresh = installation.credential]
    BY <1>2, <2>2 DEF ReadToken, Goes, Fails
  <2> QED
    BY <1>2, <2>1, <2>2 DEF ReadToken, Fails
<1>3. CASE Redeem(p)
  BY <1>3 DEF Redeem, Fails
<1>4. CASE StoreToken(p)
  BY <1>4 DEF StoreToken, Rotated
<1> QED
  BY <1>1, <1>2, <1>3, <1>4

\* An authorization has a token that nobody else has.
LEMMA Exchanging ==
  ASSUME NEW p \in Proc, proc \in [Proc -> Runs], Exchange(p)
  PROVE  /\ proc[p].pc = "exchange" /\ proc'[p].pc = "connect"
         /\ \A q \in Proc : q # p => proc'[q] = proc[q]
         /\ proc'[p].refresh = tokens.issued + 1 /\ proc'[p].filter = installation.filter
         /\ tokens' = [tokens EXCEPT !.issued = tokens.issued + 1]
         /\ installation' = installation
BY DEF Exchange, At, Runs

\* The other steps of a run, with a cycle in hand.
LEMMA GoingOn ==
  ASSUME NEW p \in Proc, proc \in [Proc -> Runs],
         BeginCycle(p) \/ SaveCandidate(p) \/ SetConnected(p)
  PROVE  /\ \A q \in Proc : q # p => proc'[q] = proc[q]
         /\ proc'[p].kind = proc[p].kind /\ proc'[p].cycle = proc[p].cycle
         /\ proc'[p].token = proc[p].token /\ proc'[p].last = proc[p].last
         /\ \/ /\ BeginCycle(p) /\ proc[p].pc = "begin" /\ proc'[p].pc = "search"
            \/ /\ SaveCandidate(p) /\ proc[p].pc = "save" /\ proc'[p].pc = "save"
               /\ proc'[p].page \subseteq proc[p].page
            \/ /\ SetConnected(p) /\ proc[p].pc = "save" /\ proc'[p].pc = "advance"
BY DEF BeginCycle, SaveCandidate, SetConnected, Goes, At, Runs

\* The credentials: those stored, those used up and those on their way.
Hands ==
  /\ installation.credential \in {None} \cup 1 .. tokens.issued
  /\ tokens.redeemed \subseteq 1 .. tokens.issued
  /\ \A p \in Proc :
       /\ proc[p].pc \in Authorizing \cup {"probe", "plan", "connect"} => proc[p].filter \in Filters
       /\ proc[p].pc \in {"redeem", "store", "connect"} => proc[p].refresh \in 1 .. tokens.issued

\* A token on its way to the row is nobody else's, neither stored nor used up.
OnItsWay ==
  \A p \in Proc : proc[p].pc \in {"store", "connect"} =>
    /\ proc[p].refresh \notin tokens.redeemed
    /\ proc[p].refresh # installation.credential
    /\ \A q \in Proc : q # p /\ proc[q].pc \in {"redeem", "store", "connect"} =>
         proc[q].refresh # proc[p].refresh

\* A step of one run that takes up no credential and stores none.
LEMMA HandsKept ==
  ASSUME Hands, proc \in [Proc -> Runs], RowsShaped, NEW p \in Proc,
         \A q \in Proc : q # p => proc'[q] = proc[q],
         \/ proc'[p].pc \notin {"redeem", "store", "connect", "token", "probe", "plan"}
         \/ proc'[p].pc \in {"token", "probe", "plan"} /\ proc'[p].filter \in Filters
         \/ proc'[p] = proc[p],
         installation'.credential \in {installation.credential, None},
         tokens'.issued = tokens.issued,
         \/ tokens'.redeemed = tokens.redeemed
         \/ /\ proc[p].pc = "redeem" /\ tokens'.redeemed = tokens.redeemed \cup {proc[p].refresh}
            /\ tokens'.dropped
  PROVE  Hands' /\ (OnItsWay => OnItsWay')
<1> USE DEF Hands, Authorizing
<1>1. Hands'
  OBVIOUS
<1>2. ASSUME OnItsWay
      PROVE  OnItsWay'
  BY <1>2 DEF OnItsWay, None
<1> QED
  BY <1>1, <1>2

\* No step gives a token to two.
LEMMA HandsStep ==
  ASSUME SyncTyped, [Next]_vars
  PROVE  Hands' /\ (OnItsWay => OnItsWay')
<1>0. proc \in [Proc -> Runs] /\ RowsShaped /\ Hands
  BY DEF SyncTyped, SyncShaped, TypeOK, RunsHold, Hands
<1>1. ASSUME UNCHANGED <<proc, tokens>>,
             installation'.credential \in {installation.credential, None}
      PROVE  Hands' /\ (OnItsWay => OnItsWay')
  BY <1>0, <1>1, IdleRun DEF Hands, OnItsWay, None
<1>2. ASSUME NEW p \in Proc, Claim(p) \/ Manual(p) \/ BeginSettings(p) \/ Callback(p)
      PROVE  Hands' /\ (OnItsWay => OnItsWay')
  <2>1. tokens' = tokens /\ installation'.credential = installation.credential
    BY <1>0, <1>2 DEF Claim, Manual, BeginSettings, Callback, RowsShaped, outside
  <2> QED
    BY <1>0, <1>2, <2>1, Beginning, HandsKept
<1>3. ASSUME NEW p \in Proc,
             \/ Ends(p) \/ Advance(p) \/ Crash(p) \/ Finish(p)
             \/ FinishFailed(p) \/ SaveSettings(p) \/ EnableSchedule(p),
             tokens' = tokens \/ Drops(p) \/ tokens' = [tokens EXCEPT !.dropped = TRUE]
      PROVE  Hands' /\ (OnItsWay => OnItsWay')
  <2>1. installation'.credential = installation.credential
    BY <1>0, <1>3 DEF Ends, Advance, Crash, Finish, FinishFailed, SaveSettings,
       EnableSchedule, RowsShaped, outside
  <2>2. /\ tokens'.issued = tokens.issued
        /\ \/ tokens'.redeemed = tokens.redeemed
           \/ /\ proc[p].pc = "redeem"
              /\ tokens'.redeemed = tokens.redeemed \cup {proc[p].refresh}
              /\ tokens'.dropped
    BY <1>0, <1>3 DEF Drops, At, RowsShaped
  <2> QED
    BY <1>0, <1>3, <2>1, <2>2, Ending, HandsKept
<1>4. ASSUME NEW p \in Proc,
             ReadInstallation(p) \/ ReadToken(p) \/ Redeem(p) \/ StoreToken(p)
      PROVE  Hands' /\ (OnItsWay => OnItsWay')
  <2>1. CASE Ends(p)
    <3>1. tokens' = tokens \/ tokens' = [tokens EXCEPT !.dropped = TRUE]
      <4>1. proc'[p].pc \in {"idle", "failed", "finish", "schedule"}
        BY <1>0, <2>1, Ending
      <4>2. CASE Redeem(p)
        BY <1>0, <4>1, <4>2 DEF Redeem, Fails, Runs
      <4>3. CASE StoreToken(p)
        BY <1>0, <4>1, <4>3 DEF StoreToken, AfterToken, Runs
      <4> QED
        BY <1>4, <4>2, <4>3 DEF ReadInstallation, ReadToken, Fails
    <3> QED
      BY <1>3, <2>1, <3>1
  <2>2. CASE ~Ends(p)
    <3>1. \A q \in Proc : q # p => proc'[q] = proc[q]
      BY <1>0, <1>4, <2>2, Fetching
    <3>2. CASE /\ proc[p].pc = "lock" /\ proc'[p].pc = "token"
               /\ proc'[p].filter = installation.filter
               /\ UNCHANGED <<installation, tokens>>
      BY <1>0, <3>1, <3>2, HandsKept DEF RowsShaped
    <3>3. CASE /\ proc[p].pc = "token" /\ proc'[p].filter = proc[p].filter
               /\ UNCHANGED <<installation, tokens>>
               /\ proc'[p].pc = AfterToken(p)
      BY <1>0, <3>1, <3>3, HandsKept DEF AfterToken, Hands, Authorizing
    <3>4. CASE /\ proc[p].pc = "token" /\ proc'[p].filter = proc[p].filter
               /\ UNCHANGED <<installation, tokens>>
               /\ proc'[p].pc = "redeem" /\ installation.credential # None
               /\ proc'[p].refresh = installation.credential
      BY <1>0, <3>1, <3>4 DEF Hands, OnItsWay, Authorizing
    <3>5. CASE /\ proc[p].pc = "redeem" /\ proc'[p].filter = proc[p].filter
               /\ proc[p].refresh \notin tokens.redeemed
               /\ proc'[p].pc = "store" /\ proc'[p].refresh = tokens.issued + 1
               /\ tokens' = [tokens EXCEPT !.issued = tokens.issued + 1,
                               !.redeemed = tokens.redeemed \cup {proc[p].refresh}]
               /\ installation' = installation
      <4>1. /\ tokens'.issued = tokens.issued + 1 /\ tokens.issued \in Nat
            /\ tokens'.redeemed = tokens.redeemed \cup {proc[p].refresh}
        BY <1>0, <3>5 DEF RowsShaped
      <4> QED
        BY <1>0, <3>1, <3>5, <4>1 DEF Hands, OnItsWay, Authorizing, None
    <3>6. CASE /\ proc[p].pc = "store" /\ proc'[p].filter = proc[p].filter
               /\ proc'[p].pc = AfterToken(p)
               /\ tokens' = [tokens EXCEPT !.fresh = TRUE]
               /\ installation' = [installation EXCEPT !.credential = proc[p].refresh]
      <4>1. /\ tokens'.issued = tokens.issued /\ tokens'.redeemed = tokens.redeemed
            /\ installation'.credential = proc[p].refresh
            /\ proc'[p].pc \in {"probe", "plan"}
        BY <1>0, <3>6 DEF RowsShaped, AfterToken
      <4> QED
        BY <1>0, <3>1, <3>6, <4>1 DEF Hands, OnItsWay, Authorizing
    <3> QED
      BY <1>0, <1>4, <2>2, <3>2, <3>3, <3>4, <3>5, <3>6, Fetching
  <2> QED
    BY <2>1, <2>2
<1>5. ASSUME NEW p \in Proc, Exchange(p)
      PROVE  Hands' /\ (OnItsWay => OnItsWay')
  <2>1. /\ tokens'.issued = tokens.issued + 1 /\ tokens.issued \in Nat
        /\ tokens'.redeemed = tokens.redeemed /\ installation.filter \in Filters
    BY <1>0, <1>5, Exchanging DEF RowsShaped
  <2> QED
    BY <1>0, <1>5, <2>1, Exchanging DEF Hands, OnItsWay, Authorizing, None
<1>6. ASSUME NEW p \in Proc, Connect(p)
      PROVE  Hands' /\ (OnItsWay => OnItsWay')
  <2>1. /\ tokens'.issued = tokens.issued /\ tokens'.redeemed = tokens.redeemed
        /\ installation'.credential = proc[p].refresh /\ proc[p].pc = "connect"
    BY <1>0, <1>6 DEF Connect, At, RowsShaped
  <2> QED
    BY <1>0, <1>6, <2>1, Ending DEF Hands, OnItsWay, Authorizing
<1>7. ASSUME NEW p \in Proc, \/ Plan(p) \/ Search(p)
                             \/ BeginCycle(p) \/ SaveCandidate(p) \/ SetConnected(p)
      PROVE  Hands' /\ (OnItsWay => OnItsWay')
  <2>1. tokens' = tokens /\ installation'.credential = installation.credential
    BY <1>0, <1>7 DEF Plan, Search, BeginCycle, SaveCandidate, SetConnected, outside,
       RowsShaped
  <2>2. /\ \A q \in Proc : q # p => proc'[q] = proc[q]
        /\ proc'[p].pc \in {"begin", "search", "save", "advance"}
    BY <1>0, <1>7, Planning, Searching, GoingOn
  <2> QED
    BY <1>0, <2>1, <2>2, HandsKept
<1>8. CASE \/ Tick \/ BecomesReady \/ AccessExpires \/ StartOAuth \/ StateExpires
           \/ Reset \/ UNCHANGED vars
  <2>1. CASE AccessExpires
    <3>1. /\ tokens'.issued = tokens.issued /\ tokens'.redeemed = tokens.redeemed
          /\ proc' = proc /\ installation' = installation
      BY <1>0, <2>1 DEF AccessExpires, RowsShaped
    <3> QED
      BY <1>0, <3>1 DEF Hands, OnItsWay
  <2> QED
    BY <1>1, <1>8, <2>1 DEF Tick, BecomesReady, StartOAuth, StateExpires, Reset, vars
<1>9. ASSUME \/ \E i \in Issue : UpdateIssue(i)
             \/ \E on \in BOOLEAN : PauseOrResume(on)
      PROVE  Hands' /\ (OnItsWay => OnItsWay')
  BY <1>1, <1>9 DEF UpdateIssue, PauseOrResume
<1>10. CASE Disable
  BY <1>0, <1>1, <1>10 DEF Disable, RowsShaped
<1>11. ASSUME NEW p \in Proc, Error(p) \/ Crash(p)
       PROVE  Hands' /\ (OnItsWay => OnItsWay')
  <2>1. tokens' = tokens \/ Drops(p)
    BY <1>11 DEF Error, Crash
  <2> QED
    BY <1>3, <1>11, <2>1 DEF Error
<1>12. ASSUME NEW p \in Proc, \/ Advance(p) \/ Finish(p) \/ FinishFailed(p)
                              \/ SaveSettings(p) \/ EnableSchedule(p)
       PROVE  Hands' /\ (OnItsWay => OnItsWay')
  <2>1. tokens' = tokens
    BY <1>12 DEF Advance, Finish, FinishFailed, SaveSettings, EnableSchedule
  <2> QED
    BY <1>3, <1>12, <2>1
<1>13. ASSUME NEW p \in Proc, Refuse(p)
       PROVE  Hands' /\ (OnItsWay => OnItsWay')
  BY <1>3, <1>13, Refusing
<1> QED
  BY <1>2, <1>4, <1>5, <1>6, <1>7, <1>8, <1>9, <1>10, <1>11, <1>12, <1>13 DEF Next, Step

\* The times of cycles lie in the past.
Times ==
  /\ schedule.cursor \in {None} \cup 0 .. now
  /\ schedule.query = Nothing \/ schedule.query.upper \in 0 .. now
  /\ \A p \in Proc : proc[p].pc \in Batching => proc[p].cycle.upper \in 0 .. now

\* No cycle and no cursor lies ahead of the clock.
LEMMA TimesStep ==
  ASSUME SyncTyped, [Next]_vars
  PROVE  Times'
<1>0. proc \in [Proc -> Runs] /\ RowsShaped /\ Times /\ now \in Nat /\ now' \in Nat /\ now' >= now
  BY JiraSideStep DEF SyncTyped, SyncShaped, TypeOK, RunsHold, Times
<1>1. ASSUME \/ UNCHANGED schedule
             \/ schedule' = Cleared
             \/ schedule'.cursor = schedule.cursor /\ schedule'.query = schedule.query
      PROVE  /\ schedule'.cursor \in {None} \cup 0 .. now'
             /\ schedule'.query = Nothing \/ schedule'.query.upper \in 0 .. now'
  <2>1. Cleared.cursor = None /\ Cleared.query = Nothing
    BY <1>0 DEF Cleared, RowsShaped
  <2> QED
    BY <1>0, <1>1, <2>1 DEF Times
<1>2. ASSUME NEW p \in Proc, \A q \in Proc : q # p => proc'[q] = proc[q],
             \/ proc'[p].pc \notin Batching
             \/ proc[p].pc \in Batching /\ proc'[p].cycle = proc[p].cycle
             \/ proc'[p].cycle.upper \in 0 .. now
             \/ proc'[p] = proc[p],
             \/ UNCHANGED schedule
             \/ schedule' = Cleared
             \/ schedule'.cursor = schedule.cursor /\ schedule'.query = schedule.query
      PROVE  Times'
  BY <1>0, <1>1, <1>2 DEF Times
<1>3. ASSUME proc' = proc,
             \/ UNCHANGED schedule
             \/ schedule' = Cleared
             \/ schedule'.cursor = schedule.cursor /\ schedule'.query = schedule.query
      PROVE  Times'
  BY <1>0, <1>1, <1>3 DEF Times
<1>4. ASSUME NEW p \in Proc, Claim(p) \/ Manual(p) \/ BeginSettings(p) \/ Callback(p)
      PROVE  Times'
  <2>1. schedule'.cursor = schedule.cursor /\ schedule'.query = schedule.query
    BY <1>0, <1>4 DEF Claim, Manual, BeginSettings, Callback, RowsShaped, outside
  <2> QED
    BY <1>0, <1>2, <1>4, <2>1, Beginning DEF Batching
<1>5. ASSUME NEW p \in Proc, \/ Ends(p) \/ Connect(p) \/ Crash(p) \/ Finish(p)
                             \/ FinishFailed(p) \/ SaveSettings(p) \/ EnableSchedule(p)
      PROVE  Times'
  <2>1. \/ schedule' = Cleared
        \/ schedule'.cursor = schedule.cursor /\ schedule'.query = schedule.query
    BY <1>0, <1>5 DEF Ends, Connect, Crash, Finish, FinishFailed, BackedOff,
       SaveSettings, EnableSchedule, RowsShaped, outside
  <2>2. (\A q \in Proc : q # p => proc'[q] = proc[q]) /\ proc'[p].pc \notin Batching
    BY <1>0, <1>5, Ending DEF Batching
  <2> QED
    BY <1>2, <2>1, <2>2
<1>6. ASSUME NEW p \in Proc,
             ReadInstallation(p) \/ ReadToken(p) \/ Redeem(p) \/ StoreToken(p)
      PROVE  Times'
  <2>1. CASE Ends(p)
    BY <1>5, <2>1
  <2>2. CASE ~Ends(p)
    <3>1. schedule' = schedule
      BY <1>6, <2>2 DEF ReadInstallation, ReadToken, Redeem, StoreToken, Fails
    <3>2. (\A q \in Proc : q # p => proc'[q] = proc[q]) /\ proc'[p].pc \notin Batching
      BY <1>0, <1>6, <2>2, Fetching DEF AfterToken, Batching
    <3> QED
      BY <1>2, <3>1, <3>2
  <2> QED
    BY <2>1, <2>2
<1>7. ASSUME NEW p \in Proc, Exchange(p)
      PROVE  Times'
  <2>1. schedule' = schedule
    BY <1>7 DEF Exchange
  <2> QED
    BY <1>0, <1>2, <1>7, <2>1, Exchanging DEF Batching
<1>8. ASSUME NEW p \in Proc, Plan(p)
      PROVE  Times'
  <2>1. schedule' = schedule
    BY <1>8 DEF Plan
  <2>2. proc'[p].cycle.upper \in 0 .. now
    <3>1. NewCycle(p, schedule).upper = now /\ NewCycle(p, Cleared).upper = now
      BY DEF NewCycle
    <3>2. Continued(schedule).upper = schedule.query.upper
      BY <1>0, PlannedCycles DEF SyncTyped, TypeOK
    <3> QED
      BY <1>0, <1>8, <3>1, <3>2, Planning DEF CycleInProgress, Times
  <2> QED
    BY <1>0, <1>2, <1>8, <2>1, <2>2, Planning
<1>9. ASSUME NEW p \in Proc, BeginCycle(p)
      PROVE  Times'
  <2>1. /\ schedule'.cursor = schedule.cursor
        /\ schedule'.query \in {schedule.query, proc[p].cycle}
    BY <1>0, <1>9 DEF BeginCycle, RowsShaped
  <2>2. /\ proc[p].pc \in Batching /\ proc'[p].cycle = proc[p].cycle
        /\ \A q \in Proc : q # p => proc'[q] = proc[q]
    BY <1>0, <1>9, GoingOn DEF BeginCycle, At, Batching
  <2> QED
    BY <1>0, <2>1, <2>2 DEF Times, None
<1>10. ASSUME NEW p \in Proc, Search(p) \/ SaveCandidate(p) \/ SetConnected(p)
      PROVE  Times'
  <2>1. schedule' = schedule
    BY <1>10 DEF Search, SaveCandidate, SetConnected
  <2>2. /\ proc[p].pc \in Batching /\ proc'[p].cycle = proc[p].cycle
        /\ \A q \in Proc : q # p => proc'[q] = proc[q]
    BY <1>0, <1>10, Searching, GoingOn DEF SaveCandidate, SetConnected, At, Batching
  <2> QED
    BY <1>2, <2>1, <2>2
<1>11. ASSUME NEW p \in Proc, Advance(p)
      PROVE  Times'
  <2>1. /\ schedule'.cursor \in {schedule.cursor, proc[p].cycle.upper}
        /\ schedule'.query \in {schedule.query, Nothing}
    BY <1>0, <1>11 DEF Advance, RowsShaped
  <2>2. /\ proc[p].pc \in Batching /\ proc'[p].pc \notin Batching
        /\ \A q \in Proc : q # p => proc'[q] = proc[q]
    <3>1. proc' = [proc EXCEPT ![p] = [Idle EXCEPT !.kind = proc[p].kind, !.pc = "finish"]]
      BY <1>11 DEF Advance
    <3> QED
      BY <1>0, <1>11, <3>1 DEF Advance, At, Idle, Batching
  <2> QED
    BY <1>0, <2>1, <2>2 DEF Times, None
<1>12. CASE \/ Tick \/ BecomesReady \/ AccessExpires \/ StartOAuth \/ StateExpires
            \/ Reset \/ Disable \/ UNCHANGED vars
  <2>1. \/ schedule' = Cleared
        \/ schedule'.cursor = schedule.cursor /\ schedule'.query = schedule.query
    BY <1>0, <1>12 DEF Tick, BecomesReady, AccessExpires, StartOAuth, StateExpires,
       Reset, Disable, vars, RowsShaped
  <2> QED
    BY <1>3, <1>12, <2>1 DEF Tick, BecomesReady, AccessExpires, StartOAuth, StateExpires,
       Reset, Disable, vars
<1>13. ASSUME \/ \E i \in Issue : UpdateIssue(i)
              \/ \E on \in BOOLEAN : PauseOrResume(on)
      PROVE  Times'
  <2>1. schedule'.cursor = schedule.cursor /\ schedule'.query = schedule.query /\ proc' = proc
    BY <1>0, <1>13 DEF UpdateIssue, PauseOrResume, RowsShaped
  <2> QED
    BY <1>3, <2>1
<1> QED
  BY <1>4, <1>5, <1>6, <1>7, <1>8, <1>9, <1>10, <1>11, <1>12, <1>13, Refusing
  DEF Next, Step, Error

\* The invariant is inductive.
LEMMA SyncTypedStep ==
  ASSUME SyncTyped, [Next]_vars
  PROVE  SyncTyped'
<1>1. SyncShaped'
  BY RunsShapedStep, RowsShapedStep DEF SyncShaped
<1>2. Locked' /\ Hands' /\ Times'
  BY LockedStep, HandsStep, TimesStep
<1>3. TypeOK'
  BY <1>1, <1>2, JiraSideStep DEF SyncTyped, TypeOK, SyncShaped, RowsShaped, Locked, Hands, Times
<1>4. RunsHold'
  BY <1>2 DEF RunsHold, Locked, Hands, Times
<1> QED
  BY <1>1, <1>3, <1>4 DEF SyncTyped

\* What is inductive about the credentials.
CredentialsKept == OnItsWay /\ DisabledIsErased /\ TokenReplaced

\* What a step of one run may do without another token.
LEMMA ReplacedKept ==
  ASSUME Hands, TokenReplaced, proc \in [Proc -> Runs], NEW p \in Proc,
         \A q \in Proc : q # p => proc'[q] = proc[q],
         tokens'.dropped \/ (proc[p].pc # "store" /\ tokens'.redeemed = tokens.redeemed),
         tokens.dropped => tokens'.dropped,
         installation'.credential \in {installation.credential, None}
  PROVE  TokenReplaced'
<1>1. None \notin tokens.redeemed
  BY DEF Hands, None
<1> QED
  BY <1>1 DEF TokenReplaced, At

\* Whoever redeems the stored token has its successor, until it is stored
\* or dropped.
LEMMA ReplacedStep ==
  ASSUME SyncTyped, CredentialsKept, [Next]_vars
  PROVE  TokenReplaced'
<1>0. /\ proc \in [Proc -> Runs] /\ RowsShaped /\ Hands /\ TokenReplaced
      /\ None \notin tokens.redeemed /\ OnItsWay
  BY DEF SyncTyped, SyncShaped, TypeOK, RunsHold, Hands, CredentialsKept, None
<1>1. ASSUME UNCHANGED proc, tokens'.dropped = tokens.dropped, tokens'.redeemed = tokens.redeemed,
             installation'.credential \in {installation.credential, None}
      PROVE  TokenReplaced'
  BY <1>0, <1>1 DEF TokenReplaced, At
<1>2. ASSUME NEW p \in Proc, Claim(p) \/ Manual(p) \/ BeginSettings(p) \/ Callback(p)
      PROVE  TokenReplaced'
  <2>1. tokens' = tokens /\ installation'.credential = installation.credential
    BY <1>0, <1>2 DEF Claim, Manual, BeginSettings, Callback, RowsShaped, outside
  <2>2. proc[p].pc # "store" /\ \A q \in Proc : q # p => proc'[q] = proc[q]
    BY <1>0, <1>2, Beginning
  <2> QED
    BY <1>0, <2>1, <2>2, ReplacedKept
<1>3. ASSUME NEW p \in Proc,
             \/ Ends(p) \/ Advance(p) \/ Crash(p) \/ Finish(p)
             \/ FinishFailed(p) \/ SaveSettings(p) \/ EnableSchedule(p),
             \/ tokens' = tokens /\ proc[p].pc # "store"
             \/ Drops(p)
             \/ tokens' = [tokens EXCEPT !.dropped = TRUE]
      PROVE  TokenReplaced'
  <2>1. installation'.credential = installation.credential
    BY <1>0, <1>3 DEF Ends, Advance, Crash, Finish, FinishFailed, SaveSettings,
       EnableSchedule, RowsShaped, outside
  <2>2. tokens'.dropped \/ (tokens' = tokens /\ proc[p].pc # "store")
    BY <1>0, <1>3 DEF Drops, RowsShaped
  <2> QED
    BY <1>0, <1>3, <2>1, <2>2, Ending, ReplacedKept
<1>4. ASSUME NEW p \in Proc,
             ReadInstallation(p) \/ ReadToken(p) \/ Redeem(p) \/ StoreToken(p)
      PROVE  TokenReplaced'
  <2>1. CASE Ends(p)
    <3>1. proc'[p].pc \in {"idle", "failed", "finish", "schedule"}
      BY <1>0, <2>1, Ending
    <3>2. CASE Redeem(p)
      BY <1>0, <1>3, <2>1, <3>1, <3>2 DEF Redeem, Fails, At, Runs
    <3>3. CASE StoreToken(p)
      BY <1>0, <1>3, <2>1, <3>1, <3>3 DEF StoreToken, AfterToken, Runs
    <3> QED
      BY <1>3, <1>4, <2>1, <3>2, <3>3 DEF ReadInstallation, ReadToken, Fails, At
  <2>2. CASE ~Ends(p)
    <3>1. \A q \in Proc : q # p => proc'[q] = proc[q]
      BY <1>0, <1>4, <2>2, Fetching
    <3>2. CASE /\ proc[p].pc \in {"lock", "token"}
               /\ UNCHANGED <<installation, tokens>>
      BY <1>0, <3>1, <3>2, ReplacedKept
    <3>3. CASE proc'[p].pc = "store"
      BY <3>3 DEF TokenReplaced, At
    <3>4. CASE /\ proc[p].pc = "store"
               /\ tokens' = [tokens EXCEPT !.fresh = TRUE]
               /\ installation' = [installation EXCEPT !.credential = proc[p].refresh]
      BY <1>0, <3>4 DEF RowsShaped, OnItsWay, TokenReplaced
    <3> QED
      BY <1>0, <1>4, <2>2, <3>2, <3>3, <3>4, Fetching
  <2> QED
    BY <2>1, <2>2
<1>5. ASSUME NEW p \in Proc, Exchange(p)
      PROVE  TokenReplaced'
  <2>1. /\ tokens'.dropped = tokens.dropped /\ tokens'.redeemed = tokens.redeemed
        /\ proc[p].pc # "store" /\ installation' = installation
        /\ \A q \in Proc : q # p => proc'[q] = proc[q]
    BY <1>0, <1>5, Exchanging DEF RowsShaped
  <2> QED
    BY <1>0, <2>1, ReplacedKept
<1>6. ASSUME NEW p \in Proc, Connect(p)
      PROVE  TokenReplaced'
  BY <1>0, <1>6 DEF Connect, At, RowsShaped, OnItsWay, TokenReplaced
<1>7. ASSUME NEW p \in Proc, \/ Plan(p) \/ Search(p)
                             \/ BeginCycle(p) \/ SaveCandidate(p) \/ SetConnected(p)
      PROVE  TokenReplaced'
  <2>1. tokens' = tokens /\ installation'.credential = installation.credential
    BY <1>0, <1>7 DEF Plan, Search, BeginCycle, SaveCandidate, SetConnected, outside,
       RowsShaped
  <2>2. proc[p].pc # "store" /\ \A q \in Proc : q # p => proc'[q] = proc[q]
    BY <1>0, <1>7, Planning, Searching, GoingOn
  <2> QED
    BY <1>0, <2>1, <2>2, ReplacedKept
<1>8. CASE \/ Tick \/ BecomesReady \/ AccessExpires \/ StartOAuth \/ StateExpires
           \/ Reset \/ Disable \/ UNCHANGED vars
  <2>1. /\ proc' = proc /\ tokens'.dropped = tokens.dropped /\ tokens'.redeemed = tokens.redeemed
        /\ installation'.credential \in {installation.credential, None}
    BY <1>0, <1>8 DEF Tick, BecomesReady, AccessExpires, StartOAuth, StateExpires,
       Reset, Disable, vars, RowsShaped
  <2> QED
    BY <1>1, <2>1
<1>9. ASSUME \/ \E i \in Issue : UpdateIssue(i)
             \/ \E on \in BOOLEAN : PauseOrResume(on)
      PROVE  TokenReplaced'
  BY <1>1, <1>9 DEF UpdateIssue, PauseOrResume
<1>10. ASSUME NEW p \in Proc, Error(p) \/ Crash(p)
       PROVE  TokenReplaced'
  <2>1. (tokens' = tokens /\ proc[p].pc # "store") \/ Drops(p)
    BY <1>10 DEF Error, Crash, At
  <2> QED
    BY <1>3, <1>10, <2>1 DEF Error
<1>11. ASSUME NEW p \in Proc, \/ Advance(p) \/ Finish(p) \/ FinishFailed(p)
                              \/ SaveSettings(p) \/ EnableSchedule(p)
       PROVE  TokenReplaced'
  <2>1. tokens' = tokens /\ proc[p].pc # "store"
    BY <1>11 DEF Advance, Finish, FinishFailed, SaveSettings, EnableSchedule, At
  <2> QED
    BY <1>3, <1>11, <2>1
<1>12. ASSUME NEW p \in Proc, Refuse(p)
       PROVE  TokenReplaced'
  BY <1>3, <1>12, Refusing
<1> QED
  BY <1>2, <1>4, <1>5, <1>6, <1>7, <1>8, <1>9, <1>10, <1>11, <1>12 DEF Next, Step

\* Whoever writes a credential writes it with the status connected, or under it.
LEMMA ErasedStep ==
  ASSUME SyncTyped, DisabledIsErased, [Next]_vars
  PROVE  DisabledIsErased'
<1> SUFFICES ASSUME RowsShaped, DisabledIsErased, installation' # installation
             PROVE  DisabledIsErased'
  BY DEF SyncTyped, SyncShaped, DisabledIsErased
<1> USE DEF DisabledIsErased, RowsShaped
<1>1. CASE Disable
  BY <1>1 DEF Disable
<1>2. ASSUME NEW p \in Proc, \/ Callback(p) \/ Ends(p) \/ StoreToken(p) \/ SetConnected(p)
                             \/ SaveSettings(p) \/ Connect(p)
      PROVE  DisabledIsErased'
  <2>1. \/ installation' = [installation EXCEPT !.status = "error"]
        \/ installation' = [installation EXCEPT !.status = "connected"]
        \/ installation' = [installation EXCEPT !.filter = proc[p].filter]
        \/ /\ installation.status = "connected"
           /\ installation' = [installation EXCEPT !.credential = proc[p].refresh]
        \/ installation'.status = "connected"
    BY <1>2 DEF Callback, Ends, StoreToken, StillConnected, Rotated, SetConnected,
       SaveSettings, Connect
  <2> QED
    BY <2>1
<1> QED
  BY <1>1, <1>2 DEF Next, Step, Error, Crash, Fails, vars, outside, Tick,
     BecomesReady, AccessExpires, StartOAuth, StateExpires, UpdateIssue, Reset,
     PauseOrResume, Claim, Manual, BeginSettings, ReadInstallation, ReadToken, Redeem,
     Plan, BeginCycle, Search, Refuse, SaveCandidate, Advance, Finish, FinishFailed,
     Exchange, EnableSchedule

\* The credentials of an installation, whatever runs, requests, authorizations
\* and disabling do to them at the same time.
THEOREM CredentialsSafe == Spec => []CredentialInv
<1>1. Init => SyncTyped /\ CredentialsKept
  <2>1. Init => DisabledIsErased /\ TokenReplaced
    BY DEF Init, DisabledIsErased, TokenReplaced
  <2>2. Init => OnItsWay
    BY DEF Init, OnItsWay, Idle
  <2> QED
    BY <2>1, <2>2, SyncTypedInit DEF CredentialsKept
<1>2. SyncTyped /\ CredentialsKept /\ [Next]_vars => (SyncTyped /\ CredentialsKept)'
  BY SyncTypedStep, HandsStep, ReplacedStep, ErasedStep DEF CredentialsKept
<1>3. SyncTyped /\ CredentialsKept => CredentialInv
  BY DEF SyncTyped, CredentialsKept, CredentialInv
<1> QED
  BY <1>1, <1>2, <1>3, PTL DEF Spec

-----------------------------------------------------------------------------
(* The invariant of cycles.                                                *)

\* A cycle of which nothing is promised any more.
Emptied(c) == [c EXCEPT !.covers = {}]

\* The run sends the token of a cycle that was never written down: of the one
\* it has in hand nothing is promised.
Strange(p) ==
  /\ proc[p].token.query \in schedule.unwritten /\ proc[p].cycle.covers = {}
  /\ schedule.query = Nothing \/ proc[p].token.query # schedule.query

\* The query of a continuation stays with it, in the row as in the run, or it
\* was never written down.
QueriesKept ==
  /\ CycleInProgress(schedule) =>
       schedule.token.query \in
         {schedule.query, Emptied(schedule.query)} \cup schedule.unwritten
  /\ \A p \in Proc :
       /\ proc[p].pc \in {"search", "save", "advance"} =>
            proc[p].token = Start \/ proc[p].token.query = proc[p].cycle \/ Strange(p)
       /\ proc[p].pc = "begin" => proc[p].token = Start
       /\ proc[p].pc \in {"search", "save", "advance"} =>
            \/ schedule.query = Nothing
            \/ proc[p].cycle \in
                 {schedule.query, Emptied(schedule.query)} \cup schedule.unwritten

\* A page has each issue once, not older than what is imported and not newer
\* than what there is.
PagesFresh ==
  /\ \A i \in Issue : imported[i] <= version[i]
  /\ \A p \in Proc :
       /\ proc[p].pc \in {"begin", "search", "advance"} => proc[p].page = {}
       /\ proc[p].pc = "save" =>
            /\ \A c \in proc[p].page : imported[c[1]] <= c[2] /\ c[2] <= version[c[1]]
            /\ \A c, d \in proc[p].page : c[1] = d[1] => c = d

\* A cycle up to upper finds i, and the next one does not read it again.
Due(i, upper) == updated[i] < upper - Overlap + zone /\ updated[i] < upper - IndexLag

\* The candidate shows the issue as it is.
Settled(i) == imported[i] = version[i]

\* What a cycle promises is imported, on the page, or still to be read, unless
\* the cycles before it have missed it.
StillReads(cycle, token, page) ==
  \A i \in cycle.covers : Due(i, cycle.upper) =>
    \/ Settled(i) \/ Missed(i, cycle.after)
    \/ i \in Matching(cycle, token)
    \/ <<i, version[i]>> \in page

\* And when its last page is read, imported or on the page.
HasRead(cycle, page) ==
  \A i \in cycle.covers : Due(i, cycle.upper) =>
    \/ Settled(i) \/ Missed(i, cycle.after)
    \/ <<i, version[i]>> \in page

\* The cycle in the row, that of a run, and all of them.
RowComplete ==
  CycleInProgress(schedule) => StillReads(Continued(schedule), schedule.token, {})

RunComplete(p) ==
  /\ proc[p].pc \in Batching => StillReads(proc[p].cycle, proc[p].token, proc[p].page)
  /\ proc[p].pc \in {"save", "advance"} /\ proc[p].last =>
       HasRead(proc[p].cycle, proc[p].page)

CyclesComplete == RowComplete /\ \A p \in Proc : RunComplete(p)

\* Runs with a cycle in hand exclude one another.
LEMMA OneBatch ==
  ASSUME SyncTyped, NEW p \in Proc, NEW q \in Proc, q # p,
         proc[p].pc \in {"plan", "begin", "search", "save", "advance"}
  PROVE  proc[q].pc \notin {"plan", "begin", "search", "save", "advance"}
BY DEF SyncTyped, TypeOK

\* Steps that touch neither the cycle of a run nor that of the row.
LEMMA QueriesUntouched ==
  ASSUME QueriesKept, NEW p \in Proc, \A q \in Proc : q # p => proc'[q] = proc[q],
         \/ proc'[p].pc \notin {"begin", "search", "save", "advance"}
         \/ proc'[p] = proc[p]
         \/ /\ proc[p].pc \in {"save", "advance"} /\ proc'[p].pc \in {"save", "advance"}
            /\ proc'[p].cycle = proc[p].cycle /\ proc'[p].token = proc[p].token,
         schedule'.unwritten = schedule.unwritten,
         \/ schedule'.query = Nothing
         \/ schedule'.query = schedule.query /\ schedule'.token = schedule.token
  PROVE  QueriesKept'
<1>1. /\ CycleInProgress(schedule)' => schedule.query = schedule'.query
      /\ CycleInProgress(schedule)' => CycleInProgress(schedule)
      /\ CycleInProgress(schedule)' => schedule'.token = schedule.token
  BY DEF CycleInProgress
<1>2. \A q \in Proc : \/ proc'[q].pc \notin {"begin", "search", "save", "advance"}
                      \/ proc'[q] = proc[q]
                      \/ /\ proc[q].pc \in {"save", "advance"} /\ proc'[q].pc \in {"save", "advance"}
                         /\ proc'[q].cycle = proc[q].cycle /\ proc'[q].token = proc[q].token
  OBVIOUS
<1> QED
  BY <1>1, <1>2 DEF QueriesKept, Strange

\* A run and the row exchange query and token together.
LEMMA QueriesStep ==
  ASSUME SyncTyped, QueriesKept, [Next]_vars
  PROVE  QueriesKept'
<1>0. proc \in [Proc -> Runs] /\ RowsShaped
  BY DEF SyncTyped, SyncShaped
<1>1. Cleared.query = Nothing /\ Cleared.unwritten = schedule.unwritten
  BY <1>0 DEF Cleared, RowsShaped
<1>2. ASSUME NEW p \in Proc, Claim(p) \/ Manual(p) \/ BeginSettings(p) \/ Callback(p)
      PROVE  QueriesKept'
  <2>1. /\ schedule'.token = schedule.token /\ schedule'.query = schedule.query
        /\ schedule'.unwritten = schedule.unwritten
    BY <1>0, <1>2 DEF Claim, Manual, BeginSettings, Callback, RowsShaped, outside
  <2>2. /\ \A q \in Proc : q # p => proc'[q] = proc[q]
        /\ proc'[p] = proc[p] \/ proc'[p].pc \notin {"begin", "search", "save", "advance"}
    BY <1>0, <1>2, Beginning
  <2> QED
    BY <2>1, <2>2, QueriesUntouched
<1>3. ASSUME NEW p \in Proc, \/ Ends(p) \/ Connect(p) \/ Crash(p) \/ Finish(p)
                             \/ FinishFailed(p) \/ SaveSettings(p) \/ EnableSchedule(p)
      PROVE  QueriesKept'
  <2>1. /\ schedule'.unwritten = schedule.unwritten
        /\ \/ schedule'.query = Nothing
           \/ schedule'.token = schedule.token /\ schedule'.query = schedule.query
    BY <1>0, <1>1, <1>3 DEF Ends, Connect, Crash, Finish, FinishFailed, BackedOff,
       SaveSettings, EnableSchedule, RowsShaped, outside
  <2>2. /\ \A q \in Proc : q # p => proc'[q] = proc[q]
        /\ proc'[p].pc \notin {"begin", "search", "save", "advance"}
    BY <1>0, <1>3, Ending
  <2> QED
    BY <2>1, <2>2, QueriesUntouched
<1>4. ASSUME NEW p \in Proc,
             ReadInstallation(p) \/ ReadToken(p) \/ Redeem(p) \/ StoreToken(p)
      PROVE  QueriesKept'
  <2>1. CASE Ends(p)
    BY <1>3, <2>1
  <2>2. CASE ~Ends(p)
    <3>1. schedule' = schedule
      BY <1>4, <2>2 DEF ReadInstallation, ReadToken, Redeem, StoreToken, Fails
    <3>2. /\ \A q \in Proc : q # p => proc'[q] = proc[q]
          /\ proc'[p].pc \notin {"begin", "search", "save", "advance"}
      BY <1>0, <1>4, <2>2, Fetching DEF AfterToken
    <3> QED
      BY <3>1, <3>2, QueriesUntouched
  <2> QED
    BY <2>1, <2>2
<1>5. ASSUME NEW p \in Proc, Exchange(p)
      PROVE  QueriesKept'
  <2>1. schedule' = schedule
    BY <1>5 DEF Exchange
  <2> QED
    BY <1>0, <1>5, <2>1, Exchanging, QueriesUntouched
<1>6. ASSUME NEW p \in Proc, Plan(p)
      PROVE  QueriesKept'
  <2>1. schedule' = schedule
    BY <1>6 DEF Plan
  <2>2. \A q \in Proc : q # p => proc'[q] = proc[q]
    BY <1>0, <1>6, Planning
  <2>3. CASE proc'[p].pc = "begin" /\ proc'[p].token = Start
    BY <2>1, <2>2, <2>3 DEF QueriesKept, Strange, CycleInProgress
  <2>4. CASE /\ CycleInProgress(schedule)
             /\ proc'[p].pc = "search"
             /\ proc'[p].cycle = Continued(schedule) /\ proc'[p].token = schedule.token
    <3>1. CASE schedule.token.query = schedule.query
      BY <2>1, <2>2, <2>4, <3>1 DEF QueriesKept, Strange, Continued, CycleInProgress
    <3>2. CASE schedule.token.query # schedule.query
      <4>1. proc'[p].cycle = Emptied(schedule.query) /\ proc'[p].cycle.covers = {}
        BY <1>0, <2>4, <3>2 DEF Continued, Emptied, RowsShaped, Cycles
      <4> QED
        BY <2>1, <2>2, <2>4, <3>2, <4>1 DEF QueriesKept, Strange, CycleInProgress
    <3> QED
      BY <3>1, <3>2
  <2> QED
    BY <1>0, <1>6, <2>3, <2>4, Planning
<1>7. ASSUME NEW p \in Proc, BeginCycle(p)
      PROVE  QueriesKept'
  <2>1. \/ /\ schedule'.token = Start /\ schedule'.query = proc[p].cycle
           /\ schedule'.unwritten = schedule.unwritten
        \/ /\ schedule'.token = schedule.token /\ schedule'.query = schedule.query
           /\ schedule'.unwritten = schedule.unwritten \cup {proc[p].cycle}
    BY <1>0, <1>7 DEF BeginCycle, RowsShaped
  <2>2. /\ \A q \in Proc : q # p => proc'[q] = proc[q]
        /\ proc'[p].cycle = proc[p].cycle /\ proc'[p].token = proc[p].token
        /\ proc[p].pc = "begin" /\ proc'[p].pc = "search"
    BY <1>0, <1>7, GoingOn DEF BeginCycle, At
  <2>3. \A q \in Proc : q # p => proc[q].pc \notin {"begin", "search", "save", "advance"}
    BY <2>2, OneBatch
  <2>4. proc[p].token = Start
    BY <2>2 DEF QueriesKept
  <2>5. \A q \in Proc : q # p => proc'[q].pc \notin {"begin", "search", "save", "advance"}
    BY <2>2, <2>3
  <2> QED
    BY <2>1, <2>2, <2>4, <2>5 DEF QueriesKept, CycleInProgress
<1>8. ASSUME NEW p \in Proc, Search(p)
      PROVE  QueriesKept'
  <2>1. schedule' = schedule
    BY <1>8 DEF Search
  <2>2. /\ \A q \in Proc : q # p => proc'[q] = proc[q]
        /\ proc[p].pc = "search" /\ proc'[p].pc = "save" /\ proc'[p].cycle = proc[p].cycle
        /\ proc'[p].token = proc[p].token \/ proc'[p].token.query = proc[p].cycle
    BY <1>0, <1>8, Searching
  <2> QED
    BY <2>1, <2>2 DEF QueriesKept, Strange, CycleInProgress
<1>9. ASSUME NEW p \in Proc, SaveCandidate(p) \/ SetConnected(p)
      PROVE  QueriesKept'
  <2>1. schedule' = schedule /\ proc[p].pc = "save"
    BY <1>9 DEF SaveCandidate, SetConnected, At
  <2> QED
    BY <1>0, <1>9, <2>1, GoingOn, QueriesUntouched
<1>10. ASSUME NEW p \in Proc, Advance(p)
       PROVE  QueriesKept'
  <2>1. /\ schedule'.unwritten = schedule.unwritten
        /\ \/ schedule'.query = Nothing
           \/ schedule'.query = schedule.query /\ schedule'.token = proc[p].token
    BY <1>0, <1>10 DEF Advance, RowsShaped
  <2>2. /\ proc[p].pc = "advance" /\ (\A q \in Proc : q # p => proc'[q] = proc[q])
        /\ proc'[p].pc \in {"idle", "failed", "finish", "schedule"}
    BY <1>0, <1>10, Ending DEF Advance, At
  <2>3. \A q \in Proc : q # p => proc[q].pc \notin {"begin", "search", "save", "advance"}
    BY <2>2, OneBatch
  <2>4. CycleInProgress(schedule)' =>
          schedule'.token.query \in
            {schedule'.query, Emptied(schedule'.query)} \cup schedule'.unwritten
    BY <2>1, <2>2 DEF QueriesKept, Strange, CycleInProgress
  <2>5. \A q \in Proc : proc'[q].pc \notin {"begin", "search", "save", "advance"}
    BY <2>2, <2>3
  <2> QED
    BY <2>4, <2>5 DEF QueriesKept
<1>11. CASE \/ Tick \/ BecomesReady \/ AccessExpires \/ StartOAuth \/ StateExpires
            \/ Reset \/ Disable \/ UNCHANGED vars
  <2>1. /\ proc' = proc /\ schedule'.unwritten = schedule.unwritten
        /\ \/ schedule'.query = Nothing
           \/ schedule'.query = schedule.query /\ schedule'.token = schedule.token
    BY <1>0, <1>1, <1>11 DEF Tick, BecomesReady, AccessExpires, StartOAuth, StateExpires,
       Reset, Disable, vars, RowsShaped
  <2> QED
    BY <2>1 DEF QueriesKept, Strange, CycleInProgress
<1>12. ASSUME \/ \E i \in Issue : UpdateIssue(i)
              \/ \E on \in BOOLEAN : PauseOrResume(on)
      PROVE  QueriesKept'
  <2>1. /\ schedule'.query = schedule.query /\ schedule'.token = schedule.token
        /\ schedule'.unwritten = schedule.unwritten /\ proc' = proc
    BY <1>0, <1>12 DEF UpdateIssue, PauseOrResume, RowsShaped
  <2> QED
    BY <2>1 DEF QueriesKept, Strange, CycleInProgress
<1> QED
  BY <1>2, <1>3, <1>4, <1>5, <1>6, <1>7, <1>8, <1>9, <1>10, <1>11, <1>12, Refusing
  DEF Next, Step, Error

\* A run that is not at a page leaves pages and imports alone.
LEMMA PagesUntouched ==
  ASSUME PagesFresh, NEW p \in Proc, \A q \in Proc : q # p => proc'[q] = proc[q],
         \/ proc'[p].pc \notin {"begin", "search", "save", "advance"}
         \/ proc'[p].pc \in {"begin", "search", "advance"} /\ proc'[p].page = {}
         \/ proc'[p] = proc[p],
         UNCHANGED <<version, imported>>
  PROVE  PagesFresh'
BY DEF PagesFresh

\* A page is saved at once, and what has been saved is never older.
LEMMA PagesStep ==
  ASSUME SyncTyped, PagesFresh, [Next]_vars
  PROVE  PagesFresh' /\ \A i \in Issue : imported'[i] >= imported[i]
<1>0. /\ proc \in [Proc -> Runs] /\ RowsShaped
      /\ \A i \in Issue : imported[i] \in Nat /\ version[i] \in Nat
  BY DEF SyncTyped, SyncShaped, TypeOK
<1> USE DEF outside, jira
<1>1. ASSUME NEW p \in Proc, Claim(p) \/ Manual(p) \/ BeginSettings(p) \/ Callback(p)
      PROVE  PagesFresh' /\ \A i \in Issue : imported'[i] >= imported[i]
  <2>1. UNCHANGED <<version, imported>>
    BY <1>1 DEF Claim, Manual, BeginSettings, Callback
  <2>2. PagesFresh'
    BY <1>0, <1>1, <2>1, Beginning, PagesUntouched
  <2> QED
    BY <1>0, <2>1, <2>2
<1>2. ASSUME NEW p \in Proc, \/ Ends(p) \/ Connect(p) \/ Crash(p) \/ Finish(p)
                             \/ FinishFailed(p) \/ SaveSettings(p) \/ EnableSchedule(p)
                             \/ Advance(p)
      PROVE  PagesFresh' /\ \A i \in Issue : imported'[i] >= imported[i]
  <2>1. UNCHANGED <<version, imported>>
    BY <1>2 DEF Ends, Connect, Crash, Finish, FinishFailed, SaveSettings,
       EnableSchedule, Advance
  <2>2. PagesFresh'
    BY <1>0, <1>2, <2>1, Ending, PagesUntouched
  <2> QED
    BY <1>0, <2>1, <2>2
<1>3. ASSUME NEW p \in Proc,
             ReadInstallation(p) \/ ReadToken(p) \/ Redeem(p) \/ StoreToken(p)
      PROVE  PagesFresh' /\ \A i \in Issue : imported'[i] >= imported[i]
  <2>1. CASE Ends(p)
    BY <1>2, <2>1
  <2>2. CASE ~Ends(p)
    <3>1. UNCHANGED <<version, imported>>
      BY <1>3, <2>2 DEF ReadInstallation, ReadToken, Redeem, StoreToken, Fails
    <3>2. /\ \A q \in Proc : q # p => proc'[q] = proc[q]
          /\ proc'[p].pc \notin {"begin", "search", "save", "advance"}
      BY <1>0, <1>3, <2>2, Fetching DEF AfterToken
    <3>3. PagesFresh'
      BY <3>1, <3>2, PagesUntouched
    <3> QED
      BY <1>0, <3>1, <3>3
  <2> QED
    BY <2>1, <2>2
<1>4. ASSUME NEW p \in Proc, Exchange(p) \/ Plan(p)
      PROVE  PagesFresh' /\ \A i \in Issue : imported'[i] >= imported[i]
  <2>1. UNCHANGED <<version, imported>>
    BY <1>4 DEF Exchange, Plan
  <2>2. PagesFresh'
    BY <1>0, <1>4, <2>1, Exchanging, Planning, PagesUntouched
  <2> QED
    BY <1>0, <2>1, <2>2
<1>5. ASSUME NEW p \in Proc, BeginCycle(p) \/ SetConnected(p)
      PROVE  PagesFresh' /\ \A i \in Issue : imported'[i] >= imported[i]
  <2>1. UNCHANGED <<version, imported>>
    BY <1>5 DEF BeginCycle, SetConnected
  <2>2. /\ proc'[p].page = proc[p].page /\ proc'[p].pc \in {"search", "advance"}
        /\ \A q \in Proc : q # p => proc'[q] = proc[q]
        /\ proc[p].page = {}
    BY <1>0, <1>5 DEF BeginCycle, SetConnected, Goes, At, Runs, PagesFresh
  <2>3. PagesFresh'
    BY <2>1, <2>2, PagesUntouched
  <2> QED
    BY <1>0, <2>1, <2>3
<1>6. ASSUME NEW p \in Proc, Search(p)
      PROVE  PagesFresh' /\ \A i \in Issue : imported'[i] >= imported[i]
  <2>1. UNCHANGED <<version, imported>>
    BY <1>6 DEF Search
  <2>2. PICK page \in SUBSET Issue : proc'[p].page = {<<i, version[i]>> : i \in page}
    <3>1. \A S : PageOf(Matching(proc[p].cycle, proc[p].token) \ S) \in SUBSET Issue
      BY <1>0 DEF PageOf, Matching, Runs, Cycles
    <3> QED
      BY <1>0, <1>6, <3>1, Searching
  <2>3. /\ \A c \in proc'[p].page : imported[c[1]] <= c[2] /\ c[2] <= version[c[1]]
        /\ \A c, d \in proc'[p].page : c[1] = d[1] => c = d
    BY <1>0, <2>2 DEF PagesFresh
  <2>4. proc'[p].pc = "save" /\ \A q \in Proc : q # p => proc'[q] = proc[q]
    BY <1>0, <1>6, Searching
  <2> QED
    BY <1>0, <2>1, <2>3, <2>4 DEF PagesFresh
<1>7. ASSUME NEW p \in Proc, SaveCandidate(p)
      PROVE  PagesFresh' /\ \A i \in Issue : imported'[i] >= imported[i]
  <2>1. PICK c \in proc[p].page : /\ imported' = [imported EXCEPT ![c[1]] = c[2]]
                                  /\ proc' = [proc EXCEPT ![p].page = @ \ {c}]
    BY <1>7 DEF SaveCandidate
  <2>2. c[1] \in Issue /\ c[2] \in Nat /\ proc[p].pc = "save" /\ version' = version
    BY <1>0, <1>7 DEF SaveCandidate, At, Runs
  <2>3. /\ proc'[p].page = proc[p].page \ {c} /\ proc'[p].pc = "save"
        /\ \A q \in Proc : q # p => proc'[q] = proc[q]
    BY <1>0, <2>1, <2>2 DEF Runs
  <2>4. \A q \in Proc : q # p => proc[q].pc # "save"
    BY <2>2, OneBatch
  <2>5. /\ \A i \in Issue : imported'[i] = IF i = c[1] THEN c[2] ELSE imported[i]
        /\ imported[c[1]] <= c[2] /\ c[2] <= version[c[1]]
    BY <2>1, <2>2 DEF SyncTyped, TypeOK, PagesFresh
  <2>6. \A d \in proc'[p].page : d[1] \in Issue /\ d[1] # c[1]
    BY <1>0, <2>2, <2>3 DEF PagesFresh, Runs
  <2>7. /\ \A d \in proc'[p].page : imported'[d[1]] <= d[2] /\ d[2] <= version'[d[1]]
        /\ \A d, e \in proc'[p].page : d[1] = e[1] => d = e
    BY <2>2, <2>3, <2>5, <2>6 DEF PagesFresh
  <2>8. \A i \in Issue : imported'[i] <= version'[i]
    BY <1>0, <2>2, <2>5 DEF PagesFresh
  <2>9. PagesFresh'
    BY <2>3, <2>4, <2>7, <2>8 DEF PagesFresh
  <2> QED
    BY <1>0, <2>2, <2>5, <2>9
<1>8. ASSUME NEW i \in Issue, UpdateIssue(i)
      PROVE  PagesFresh' /\ \A j \in Issue : imported'[j] >= imported[j]
  <2>1. /\ UNCHANGED <<proc, imported>>
        /\ \A j \in Issue : version'[j] \in Nat /\ version[j] <= version'[j]
    BY <1>8 DEF UpdateIssue, SyncTyped, TypeOK
  <2>2. \A p \in Proc : \A c \in proc[p].page : c[1] \in Issue /\ c[2] \in Nat
    BY <1>0 DEF Runs
  <2> QED
    BY <1>0, <2>1, <2>2 DEF PagesFresh
<1>9. ASSUME UNCHANGED <<proc, imported, version>>
      PROVE  PagesFresh' /\ \A i \in Issue : imported'[i] >= imported[i]
  BY <1>0, <1>9 DEF PagesFresh
<1>10. CASE \/ Tick \/ BecomesReady \/ AccessExpires \/ StartOAuth \/ StateExpires
            \/ Reset \/ Disable \/ UNCHANGED vars
  BY <1>9, <1>10 DEF Tick, BecomesReady, AccessExpires, StartOAuth, StateExpires,
     Reset, Disable, vars
<1>11. ASSUME NEW on \in BOOLEAN, PauseOrResume(on)
       PROVE  PagesFresh' /\ \A i \in Issue : imported'[i] >= imported[i]
  BY <1>9, <1>11 DEF PauseOrResume
<1> QED
  BY <1>1, <1>2, <1>3, <1>4, <1>5, <1>6, <1>7, <1>8, <1>10, <1>11, Refusing
  DEF Next, Step, Error

\* What a step does to an issue: a new update, or nothing that an import of its
\* version would not survive.
Calm(i) ==
  \/ updated'[i] >= now
  \/ /\ updated'[i] = updated[i] /\ version'[i] = version[i]
     /\ imported[i] = version[i] => imported'[i] = version'[i]

\* Every step is calm about every issue.
LEMMA AllCalm ==
  ASSUME SyncTyped, PagesFresh, [Next]_vars
  PROVE  \A i \in Issue : Calm(i)
<1>0. /\ proc \in [Proc -> Runs] /\ updated \in [Issue -> 0 .. now] /\ now \in Nat
      /\ imported \in [Issue -> Nat] /\ version \in [Issue -> Nat]
  BY DEF SyncTyped, SyncShaped, TypeOK
<1>1. ASSUME NEW p \in Proc, SaveCandidate(p)
      PROVE  \A i \in Issue : Calm(i)
  <2>1. PICK c \in proc[p].page : imported' = [imported EXCEPT ![c[1]] = c[2]]
    BY <1>1 DEF SaveCandidate
  <2>2. /\ c[1] \in Issue /\ c[2] \in Nat /\ imported[c[1]] <= c[2] /\ c[2] <= version[c[1]]
        /\ updated' = updated /\ version' = version
    BY <1>0, <1>1 DEF SaveCandidate, At, Runs, PagesFresh, jira
  <2>3. \A i \in Issue : imported'[i] = IF i = c[1] THEN c[2] ELSE imported[i]
    BY <1>0, <2>1, <2>2
  <2> QED
    BY <1>0, <2>2, <2>3 DEF Calm
<1>2. ASSUME NEW j \in Issue, UpdateIssue(j)
      PROVE  \A i \in Issue : Calm(i)
  <2>1. /\ imported' = imported
        /\ \A i \in Issue : /\ updated'[i] = IF i = j THEN now ELSE updated[i]
                            /\ i # j => version'[i] = version[i]
    BY <1>0, <1>2 DEF UpdateIssue
  <2> QED
    BY <1>0, <2>1 DEF Calm
<1>3. ASSUME UNCHANGED <<version, updated, imported>>
      PROVE  \A i \in Issue : Calm(i)
  BY <1>3 DEF Calm
<1>4. ASSUME NEW p \in Proc, Claim(p) \/ Manual(p) \/ BeginSettings(p) \/ Callback(p)
      PROVE  \A i \in Issue : Calm(i)
  BY <1>3, <1>4 DEF Claim, Manual, BeginSettings, Callback, outside, jira
<1>5. ASSUME NEW p \in Proc, Step(p) \/ Error(p) \/ Crash(p), ~SaveCandidate(p)
      PROVE  \A i \in Issue : Calm(i)
  BY <1>3, <1>5 DEF Step, Error, Crash, Ends, ReadInstallation, ReadToken, Redeem,
     StoreToken, Fails, Plan, BeginCycle, Search, Refuse, SetConnected, Advance, Finish,
     FinishFailed, SaveSettings, Exchange, Connect, EnableSchedule, outside, jira
<1>6. CASE \/ Tick \/ BecomesReady \/ AccessExpires \/ StartOAuth \/ StateExpires
           \/ Reset \/ Disable \/ UNCHANGED vars
  BY <1>3, <1>6 DEF Tick, BecomesReady, AccessExpires, StartOAuth, StateExpires,
     Reset, Disable, vars, outside, jira
<1>7. ASSUME NEW on \in BOOLEAN, PauseOrResume(on)
      PROVE  \A i \in Issue : Calm(i)
  BY <1>3, <1>7 DEF PauseOrResume, outside, jira
<1> QED
  BY <1>1, <1>2, <1>4, <1>5, <1>6, <1>7 DEF Next

\* An update is never due in a cycle that began before it.
LEMMA NewUpdateAhead ==
  ASSUME now \in Nat, NEW upper \in 0 .. now,
         NEW i \in Issue, Calm(i), updated' \in [Issue -> Int], Due(i, upper)'
  PROVE  /\ updated'[i] = updated[i] /\ version'[i] = version[i]
         /\ imported[i] = version[i] => imported'[i] = version'[i]
BY SyncAssumption DEF Calm, Due

\* What a cycle has read stays read, and what it has not is still there to be
\* read.
LEMMA ReadingKept ==
  ASSUME now \in Nat, updated' \in [Issue -> Int], zone' = zone,
         \A i \in Issue : Calm(i),
         NEW c \in Cycles, c.upper \in 0 .. now, NEW t, NEW g
  PROVE  /\ StillReads(c, t, g) => StillReads(c, t, g)'
         /\ HasRead(c, g) => HasRead(c, g)'
<1>0. c.covers \subseteq Issue
  BY DEF Cycles
<1>1. ASSUME NEW i \in c.covers, Due(i, c.upper)'
      PROVE  /\ updated'[i] = updated[i] /\ version'[i] = version[i]
             /\ Settled(i) => Settled(i)'
             /\ Missed(i, c.after) => Missed(i, c.after)'
             /\ Due(i, c.upper)
  <2>1. /\ updated'[i] = updated[i] /\ version'[i] = version[i]
        /\ imported[i] = version[i] => imported'[i] = version'[i]
    BY <1>0, <1>1, NewUpdateAhead
  <2> QED
    BY <1>1, <2>1 DEF Settled, Missed, Due
<1>2. ASSUME NEW i \in c.covers, Due(i, c.upper)', i \in Matching(c, t)
      PROVE  i \in Matching(c, t)'
  BY <1>1, <1>2 DEF Matching, After
<1> QED
  BY <1>1, <1>2 DEF StillReads, HasRead

\* A page is the beginning of what there is: all that is not on it comes after
\* its last issue.
LEMMA PageIsPrefix ==
  ASSUME updated \in [Issue -> Nat], NEW S \in SUBSET Issue,
         PageOf(S) # {}, NEW i \in S, i \notin PageOf(S)
  PROVE  After(i, <<updated[LastOf(PageOf(S))], LastOf(PageOf(S))>>)
<1> DEFINE before(j) == {k \in S : After(j, <<updated[k], k>>)}
<1>1. PICK page : page = PageOf(S)
  OBVIOUS
<1>2. PICK last : last = LastOf(page)
  OBVIOUS
<1>3. page \in SUBSET Issue /\ page # {}
  BY <1>1 DEF PageOf
<1>4. last \in page
  BY <1>2, <1>3, LastOfPage
<1>5. last \in S /\ last \in Issue /\ i \in Issue /\ i # last
  BY <1>1, <1>4 DEF PageOf
<1>6. IsFiniteSet(before(last))
  <2>1. before(last) \in SUBSET Issue
    OBVIOUS
  <2> HIDE DEF before
  <2> QED
    BY <2>1, SearchOrder, FS_Subset
<1>7. page = {j \in S : Cardinality(before(j)) < Batch}
  BY <1>1 DEF PageOf
<1>8. ASSUME After(last, <<updated[i], i>>)
      PROVE  FALSE
  <2>1. before(i) \in SUBSET before(last)
    BY <1>5, <1>8, SearchOrder
  <2>2. Cardinality(before(last)) < Batch
    BY <1>4, <1>7
  <2>3. Cardinality(before(i)) <= Cardinality(before(last)) /\ IsFiniteSet(before(i))
    <3> HIDE DEF before
    <3> QED
      BY <1>6, <2>1, FS_Subset
  <2>4. Cardinality(before(i)) \in Nat /\ Cardinality(before(last)) \in Nat /\ Batch \in Nat
    <3> HIDE DEF before
    <3> QED
      BY <1>6, <2>3, FS_CardinalityType, SyncAssumption
  <2>5. ~(Cardinality(before(i)) < Batch)
    BY <1>1, <1>7
  <2> HIDE DEF before
  <2> QED
    BY <2>2, <2>3, <2>4, <2>5
<1> QED
  BY <1>1, <1>2, <1>5, <1>8, SearchOrder

\* A search puts on the page what it passes over, whatever the index hides.
LEMMA SearchReads ==
  ASSUME SyncTyped, NEW p \in Proc, Search(p),
         StillReads(proc[p].cycle, proc[p].token, {})
  PROVE  /\ StillReads(proc[p].cycle, proc'[p].token, proc'[p].page)
         /\ proc'[p].last => HasRead(proc[p].cycle, proc'[p].page)
<1>0. /\ proc \in [Proc -> Runs] /\ now \in Nat /\ proc[p].pc = "search"
      /\ updated \in [Issue -> Nat]
  <2>1. proc \in [Proc -> Runs] /\ now \in Nat /\ updated \in [Issue -> 0 .. now]
    BY DEF SyncTyped, SyncShaped, TypeOK
  <2>2. proc[p].pc = "search"
    BY DEF Search, At
  <2> QED
    BY <2>1, <2>2
<1>1. PICK hidden \in SUBSET Young :
        LET there == Matching(proc[p].cycle, proc[p].token) \ hidden
            page == PageOf(there)
        IN  /\ proc'[p].page = {<<i, version[i]>> : i \in page}
            /\ proc'[p].token = IF page = {} THEN proc[p].token ELSE
                 [query |-> proc[p].cycle,
                  at |-> <<updated[LastOf(page)], LastOf(page)>>]
            /\ proc'[p].last = (page = there)
  BY <1>0, Searching
<1>2. PICK c, t : c = proc[p].cycle /\ t = proc[p].token
  OBVIOUS
<1>3. PICK there : there = Matching(c, t) \ hidden
  OBVIOUS
<1>4. PICK page : page = PageOf(there)
  OBVIOUS
<1>5. /\ proc'[p].page = {<<i, version[i]>> : i \in page}
      /\ proc'[p].token = IF page = {} THEN t ELSE
           [query |-> c, at |-> <<updated[LastOf(page)], LastOf(page)>>]
      /\ proc'[p].last = (page = there)
  BY <1>1, <1>2, <1>3, <1>4
<1>6. c \in Cycles /\ c.upper \in 0 .. now /\ c.covers \subseteq Issue
  BY <1>0, <1>2 DEF SyncTyped, RunsHold, Batching, Runs, Cycles
<1>7. there \in SUBSET Issue /\ page \subseteq there
  BY <1>3, <1>4, <1>6 DEF Matching, PageOf, Cycles
<1>8. ASSUME NEW i \in c.covers, Due(i, c.upper), ~Settled(i), ~Missed(i, c.after)
      PROVE  i \in there /\ i \in Matching(c, t)
  <2>1. i \in Matching(c, t)
    BY <1>2, <1>8 DEF StillReads
  <2>2. i \notin Young
    BY <1>0, <1>6, <1>8, SyncAssumption DEF Young, Due
  <2> QED
    BY <1>3, <2>1, <2>2
<1>9. ASSUME NEW i \in there
      PROVE  i \in page \/ (i \in Matching(c, t) /\ i \in Matching(c, proc'[p].token))
  <2>1. CASE page = {}
    BY <1>3, <1>5, <1>9, <2>1
  <2>2. CASE page # {} /\ i \notin page
    <3>1. After(i, <<updated[LastOf(page)], LastOf(page)>>)
      BY <1>0, <1>4, <1>7, <1>9, <2>2, PageIsPrefix
    <3>2. proc'[p].token.at = <<updated[LastOf(page)], LastOf(page)>>
      BY <1>5, <2>2
    <3>3. i \in Matching(c, t)
      BY <1>3
    <3> QED
      BY <3>1, <3>2, <3>3 DEF Matching
  <2> QED
    BY <2>1, <2>2
<1>10. StillReads(c, proc'[p].token, proc'[p].page)
  BY <1>5, <1>8, <1>9 DEF StillReads
<1>11. proc'[p].last => HasRead(c, proc'[p].page)
  BY <1>5, <1>8 DEF HasRead
<1> QED
  BY <1>2, <1>10, <1>11

\* A new cycle reads what lies before it and was never promised, and may leave
\* out what the last cursor has behind it.
LEMMA NewCycleReads ==
  ASSUME SyncTyped, NothingLeftBehind, NEW p \in Proc
  PROVE  /\ StillReads(NewCycle(p, schedule), Start, {})
         /\ StillReads(NewCycle(p, Cleared), Start, {})
<1>0. /\ proc \in [Proc -> Runs] /\ updated \in [Issue -> Nat] /\ now \in Nat
      /\ proc[p].filter \in SUBSET Issue /\ zone \in Int
      /\ RowsShaped /\ schedule.cursor \in {None} \cup 0 .. now
  BY DEF SyncTyped, SyncShaped, TypeOK, Runs
<1>1. Overlap \in Nat /\ IndexLag \in Nat
  BY SyncAssumption
<1>2. ASSUME NEW i \in Issue
      PROVE  After(i, Start.at)
  BY <1>0 DEF After, Start, None
<1>3. ASSUME NEW s \in {schedule, Cleared}, s.cursor = None
      PROVE  StillReads(NewCycle(p, s), Start, {})
  <2> DEFINE c == NewCycle(p, s)
  <2>1. /\ c.filter = proc[p].filter /\ c.upper = now
        /\ c.lower = 0 - zone /\ c.covers = proc[p].filter
    BY <1>3 DEF NewCycle
  <2> HIDE DEF c
  <2>2. ASSUME NEW i \in c.covers, Due(i, c.upper)
        PROVE  i \in Matching(c, Start)
    <3>1. i \in Issue /\ i \in c.filter
      BY <1>0, <2>1
    <3>2. c.lower + zone <= updated[i] /\ updated[i] < c.upper + zone
      BY <1>0, <1>1, <2>1, <2>2, <3>1 DEF Due
    <3> QED
      BY <1>2, <3>1, <3>2 DEF Matching
  <2>3. StillReads(c, Start, {})
    BY <2>2 DEF StillReads
  <2> QED
    BY <2>3 DEF c
<1>4. ASSUME schedule.cursor # None
      PROVE  StillReads(NewCycle(p, schedule), Start, {})
  <2> DEFINE c == NewCycle(p, schedule)
  <2>1. /\ c.filter = proc[p].filter /\ c.upper = now
        /\ c.lower = schedule.cursor - Overlap /\ c.covers = schedule.covered \cap proc[p].filter
        /\ c.after = schedule.earlier \cup {schedule.cursor}
        /\ schedule.cursor \in Nat
    BY <1>0, <1>4 DEF NewCycle, From
  <2> HIDE DEF c
  <2>2. ASSUME NEW i \in c.covers, Due(i, c.upper)
        PROVE  Settled(i) \/ Missed(i, c.after) \/ i \in Matching(c, Start)
    <3>1. i \in Issue /\ i \in c.filter /\ i \in schedule.covered
      BY <1>0, <2>1
    <3>2. CASE updated[i] < schedule.cursor - Overlap + zone
      BY <1>4, <2>1, <3>1, <3>2 DEF NothingLeftBehind, Settled
    <3>3. CASE ~(updated[i] < schedule.cursor - Overlap + zone)
      <4>1. c.lower + zone <= updated[i] /\ updated[i] < c.upper + zone
        BY <1>0, <1>1, <2>1, <2>2, <3>1, <3>3 DEF Due
      <4> QED
        BY <1>2, <3>1, <4>1 DEF Matching
    <3> QED
      BY <3>2, <3>3
  <2>3. StillReads(c, Start, {})
    BY <2>2 DEF StillReads
  <2> QED
    BY <2>3 DEF c
<1>5. Cleared.cursor = None
  BY <1>0, PlannedCycles
<1> QED
  BY <1>3, <1>4, <1>5

\* No step takes from a cycle what it has read, or has still to read.
LEMMA StepKeepsReading ==
  ASSUME SyncTyped, PagesFresh, [Next]_vars,
         NEW c \in Cycles, c.upper \in 0 .. now, NEW t, NEW g
  PROVE  /\ StillReads(c, t, g) => StillReads(c, t, g)'
         /\ HasRead(c, g) => HasRead(c, g)'
<1>1. now \in Nat
  BY DEF SyncTyped, TypeOK
<1>2. updated' \in [Issue -> Int]
  <2>1. updated' \in [Issue -> 0 .. now'] /\ now' \in Nat
    BY JiraSideStep
  <2> QED
    BY <2>1
<1>3. zone' = zone
  BY JiraSideStep
<1> QED
  BY <1>1, <1>2, <1>3, AllCalm, ReadingKept

\* The cursor stands for a cycle that has been read: what it has behind it is
\* due, or the cycle has missed it.
LEMMA CursorIsCycle ==
  ASSUME updated \in [Issue -> Int], zone \in Int, RowsShaped, schedule.cursor # None,
         NEW c \in Cycles, c.upper = schedule.cursor, c.covers = schedule.covered,
         c.after = schedule.earlier
  PROVE  NothingLeftBehind <=> HasRead(c, {})
<1>1. schedule.cursor \in Int /\ Overlap \in Int /\ IndexLag \in Int
  BY SyncAssumption DEF RowsShaped
<1>2. ASSUME NEW i \in c.covers
      PROVE  (updated[i] < schedule.cursor - Overlap + zone =>
                Settled(i) \/ Missed(i, schedule.earlier \cup {schedule.cursor}))
             <=> (Due(i, c.upper) => Settled(i) \/ Missed(i, c.after))
  <2>1. updated[i] \in Int
    BY DEF Cycles
  <2> QED
    BY <1>1, <2>1 DEF Missed, Due
<1> QED
  BY <1>2 DEF NothingLeftBehind, HasRead, Settled

\* So does the cursor that a step leaves.
LEMMA CursorMoves ==
  ASSUME SyncTyped, [Next]_vars,
         NEW c \in Cycles, c.upper = schedule'.cursor, c.covers = schedule'.covered,
         c.after = schedule'.earlier, HasRead(c, {})'
  PROVE  NothingLeftBehind'
<1>1. /\ updated' \in [Issue -> Int] /\ zone' = zone /\ zone \in Int
      /\ Overlap \in Int /\ IndexLag \in Int
  <2>1. updated' \in [Issue -> 0 .. now'] /\ now' \in Nat /\ zone' = zone
    BY JiraSideStep
  <2> QED
    BY <2>1, SyncAssumption DEF SyncTyped, TypeOK
<1>2. c.upper \in Int /\ c.covers \subseteq Issue
  BY DEF Cycles
<1>3. ASSUME NEW i \in c.covers, updated'[i] < c.upper - Overlap + zone
      PROVE  Settled(i)' \/ Missed(i, c.after \cup {c.upper})'
  <2>1. Due(i, c.upper)' \/ Missed(i, {c.upper})'
    BY <1>1, <1>2, <1>3 DEF Due, Missed
  <2>2. Due(i, c.upper)' => Settled(i)' \/ Missed(i, c.after)'
    BY DEF HasRead
  <2> QED
    BY <2>1, <2>2 DEF Missed
<1> QED
  BY <1>1, <1>3 DEF NothingLeftBehind, Settled

\* What lies behind the cursor stays settled.
LEMMA CursorKept ==
  ASSUME SyncTyped, PagesFresh, NothingLeftBehind, [Next]_vars,
         \/ schedule' = Cleared
         \/ /\ schedule'.cursor = schedule.cursor /\ schedule'.covered = schedule.covered
            /\ schedule'.earlier = schedule.earlier
  PROVE  NothingLeftBehind'
<1>0. /\ RowsShaped /\ schedule.cursor \in {None} \cup 0 .. now
      /\ now \in Nat /\ zone \in Int /\ updated \in [Issue -> Int]
  BY DEF SyncTyped, SyncShaped, TypeOK
<1>1. Cleared.cursor = None
  BY <1>0, PlannedCycles
<1> SUFFICES ASSUME schedule'.cursor # None
             PROVE  NothingLeftBehind'
  BY DEF NothingLeftBehind
<1>2. /\ schedule'.cursor = schedule.cursor /\ schedule'.covered = schedule.covered
      /\ schedule'.earlier = schedule.earlier
  BY <1>1
<1>3. PICK c \in Cycles : /\ c.upper = schedule.cursor /\ c.covers = schedule.covered
                          /\ c.after = schedule.earlier
  <2> DEFINE d == [filter |-> {}, lower |-> 0, upper |-> schedule.cursor,
                   covers |-> schedule.covered, after |-> schedule.earlier]
  <2>1. d \in Cycles
    BY <1>0 DEF Cycles, RowsShaped
  <2> QED
    BY <2>1
<1>4. c.upper \in 0 .. now /\ HasRead(c, {})
  BY <1>0, <1>2, <1>3, CursorIsCycle
<1>5. HasRead(c, {})'
  BY <1>4, StepKeepsReading
<1> QED
  BY <1>2, <1>3, <1>5, CursorMoves

\* The cycle in the row goes on, is dropped, or begins anew under the same
\* cursor.
LEMMA RowKept ==
  ASSUME SyncTyped, PagesFresh, RowComplete, NothingLeftBehind,
         [Next]_vars,
         \/ schedule' = Cleared
         \/ /\ schedule'.cursor = schedule.cursor /\ schedule'.covered = schedule.covered
            /\ schedule'.earlier = schedule.earlier
            /\ \/ schedule'.query = schedule.query /\ schedule'.token = schedule.token
               \/ schedule'.token = Start
  PROVE  RowComplete' /\ NothingLeftBehind'
<1>0. /\ RowsShaped /\ now \in Nat /\ zone \in Int
      /\ schedule.query = Nothing \/ schedule.query.upper \in 0 .. now
  BY DEF SyncTyped, SyncShaped, TypeOK
<1>1. Cleared.token = Start
  BY <1>0 DEF Cleared, RowsShaped
<1>2. RowComplete'
  <2> SUFFICES ASSUME CycleInProgress(schedule)'
               PROVE  RowComplete'
    BY DEF RowComplete
  <2>1. /\ schedule'.query = schedule.query /\ schedule'.token = schedule.token
        /\ CycleInProgress(schedule)
    BY <1>1 DEF CycleInProgress
  <2>2. PICK c, t : c = Continued(schedule) /\ t = schedule.token
    OBVIOUS
  <2>3. c \in Cycles /\ c.upper \in 0 .. now
    BY <1>0, <2>1, <2>2, PlannedCycles DEF CycleInProgress
  <2>4. StillReads(c, t, {})'
    BY <2>1, <2>2, <2>3, StepKeepsReading DEF RowComplete
  <2>5. c = Continued(schedule)' /\ t = schedule'.token
    BY <2>1, <2>2 DEF Continued
  <2> QED
    BY <2>4, <2>5 DEF RowComplete
<1>3. NothingLeftBehind'
  BY CursorKept
<1> QED
  BY <1>2, <1>3

\* A run that goes on with its cycle keeps it complete.
LEMMA RunKept ==
  ASSUME SyncTyped, PagesFresh, [Next]_vars, NEW p \in Proc,
         proc'[p].pc \notin Batching \/ (RunComplete(p) /\ proc'[p] = proc[p])
  PROVE  RunComplete(p)'
<1> SUFFICES ASSUME proc[p].pc \in Batching, proc'[p] = proc[p], RunComplete(p)
             PROVE  RunComplete(p)'
  BY DEF RunComplete, Batching
<1>1. PICK c, t, g : c = proc[p].cycle /\ t = proc[p].token /\ g = proc[p].page
  OBVIOUS
<1>2. c \in Cycles /\ c.upper \in 0 .. now
  BY <1>1 DEF SyncTyped, SyncShaped, RunsHold, Runs
<1>3. /\ StillReads(c, t, g)'
      /\ proc[p].pc \in {"save", "advance"} /\ proc[p].last => HasRead(c, g)'
  BY <1>1, <1>2, StepKeepsReading DEF RunComplete
<1>4. c = proc'[p].cycle /\ t = proc'[p].token /\ g = proc'[p].page
  BY <1>1
<1> QED
  BY <1>3, <1>4 DEF RunComplete

\* So does one that gets a cycle which is complete now.
LEMMA RunBegins ==
  ASSUME SyncTyped, PagesFresh, [Next]_vars, NEW p \in Proc,
         NEW c \in Cycles, c.upper \in 0 .. now, NEW t, NEW g,
         c = proc'[p].cycle, t = proc'[p].token, g = proc'[p].page,
         StillReads(c, t, g),
         proc'[p].pc \in {"save", "advance"} /\ proc'[p].last => HasRead(c, g)
  PROVE  RunComplete(p)'
<1>1. /\ StillReads(c, t, g)'
      /\ proc'[p].pc \in {"save", "advance"} /\ proc'[p].last => HasRead(c, g)'
  BY StepKeepsReading
<1> QED
  BY <1>1 DEF RunComplete

\* An issue whose candidate is saved leaves the page settled.
LEMMA SavingSettles ==
  ASSUME SyncTyped, PagesFresh, [Next]_vars, NEW p \in Proc,
         SaveCandidate(p), RunComplete(p)
  PROVE  RunComplete(p)'
<1>0. proc \in [Proc -> Runs]
  BY DEF SyncTyped, SyncShaped
<1>1. PICK d \in proc[p].page : /\ imported' = [imported EXCEPT ![d[1]] = d[2]]
                                /\ proc' = [proc EXCEPT ![p].page = @ \ {d}]
  BY DEF SaveCandidate
<1>2. /\ proc[p].pc = "save" /\ d \in Issue \X Nat /\ imported \in [Issue -> Nat]
      /\ UNCHANGED <<version, updated>>
  BY <1>0 DEF SaveCandidate, At, jira, Runs, SyncTyped, TypeOK
<1>3. PICK c, t, g : c = proc[p].cycle /\ t = proc[p].token /\ g = proc[p].page
  OBVIOUS
<1>4. /\ proc'[p].cycle = c /\ proc'[p].token = t /\ proc'[p].page = g \ {d}
      /\ proc'[p].last = proc[p].last /\ proc'[p].pc = "save"
  BY <1>0, <1>1, <1>2, <1>3 DEF Runs
<1>5. c \in Cycles /\ c.upper \in 0 .. now
  BY <1>0, <1>2, <1>3 DEF SyncTyped, RunsHold, Runs, Batching
<1>6. /\ StillReads(c, t, g)'
      /\ proc[p].last => HasRead(c, g)'
  BY <1>2, <1>3, <1>5, StepKeepsReading DEF RunComplete, Batching
<1>7. ASSUME NEW i \in c.covers, <<i, version'[i]>> \in g, ~(<<i, version'[i]>> \in g \ {d})
      PROVE  Settled(i)'
  <2>1. d[1] = i /\ d[2] = version'[i]
    BY <1>7
  <2> QED
    BY <1>1, <1>2, <2>1 DEF Settled
<1>8. /\ StillReads(c, t, g \ {d})'
      /\ proc[p].last => HasRead(c, g \ {d})'
  BY <1>6, <1>7 DEF StillReads, HasRead
<1> QED
  BY <1>4, <1>8 DEF RunComplete

\* No step leaves anything out of a cycle, or behind the cursor.
LEMMA CyclesStep ==
  ASSUME SyncTyped, QueriesKept, PagesFresh, CyclesComplete,
         NothingLeftBehind, [Next]_vars
  PROVE  CyclesComplete' /\ NothingLeftBehind'
<1>0. proc \in [Proc -> Runs] /\ proc' \in [Proc -> Runs] /\ RowsShaped
  BY RunsShapedStep DEF SyncTyped, SyncShaped
<1>1. RowComplete /\ \A q \in Proc : RunComplete(q)
  BY DEF CyclesComplete
<1>2. ASSUME NEW p \in Proc, \A q \in Proc : q # p => proc'[q] = proc[q],
             RunComplete(p)', RowComplete', NothingLeftBehind'
      PROVE  CyclesComplete' /\ NothingLeftBehind'
  <2>1. ASSUME NEW q \in Proc, q # p
        PROVE  RunComplete(q)'
    BY <1>1, <1>2, <2>1, RunKept
  <2> QED
    BY <1>2, <2>1 DEF CyclesComplete
<1>3. ASSUME NEW p \in Proc, \A q \in Proc : q # p => proc'[q] = proc[q],
             proc'[p].pc \notin Batching \/ proc'[p] = proc[p],
             \/ schedule' = Cleared
             \/ /\ schedule'.cursor = schedule.cursor /\ schedule'.covered = schedule.covered
                /\ schedule'.earlier = schedule.earlier
                /\ schedule'.query = schedule.query /\ schedule'.token = schedule.token
      PROVE  CyclesComplete' /\ NothingLeftBehind'
  <2>1. RowComplete' /\ NothingLeftBehind'
    BY <1>1, <1>3, RowKept
  <2>2. RunComplete(p)'
    BY <1>1, <1>3, RunKept
  <2> QED
    BY <1>2, <1>3, <2>1, <2>2
<1>4. ASSUME NEW p \in Proc, Claim(p) \/ Manual(p) \/ BeginSettings(p) \/ Callback(p)
      PROVE  CyclesComplete' /\ NothingLeftBehind'
  <2>1. /\ schedule'.cursor = schedule.cursor /\ schedule'.covered = schedule.covered
        /\ schedule'.earlier = schedule.earlier
        /\ schedule'.query = schedule.query /\ schedule'.token = schedule.token
    BY <1>0, <1>4 DEF Claim, Manual, BeginSettings, Callback, RowsShaped, outside
  <2>2. /\ \A q \in Proc : q # p => proc'[q] = proc[q]
        /\ proc'[p].pc \notin Batching \/ proc'[p] = proc[p]
    BY <1>0, <1>4, Beginning DEF Batching
  <2> QED
    BY <1>3, <2>1, <2>2
<1>5. ASSUME NEW p \in Proc, \/ Ends(p) \/ Connect(p) \/ Crash(p) \/ Finish(p)
                             \/ FinishFailed(p) \/ SaveSettings(p) \/ EnableSchedule(p)
      PROVE  CyclesComplete' /\ NothingLeftBehind'
  <2>1. \/ schedule' = Cleared
        \/ /\ schedule'.cursor = schedule.cursor /\ schedule'.covered = schedule.covered
           /\ schedule'.earlier = schedule.earlier
           /\ schedule'.query = schedule.query /\ schedule'.token = schedule.token
    BY <1>0, <1>5 DEF Ends, Connect, Crash, Finish, FinishFailed, BackedOff,
       SaveSettings, EnableSchedule, RowsShaped, outside
  <2>2. (\A q \in Proc : q # p => proc'[q] = proc[q]) /\ proc'[p].pc \notin Batching
    BY <1>0, <1>5, Ending DEF Batching
  <2> QED
    BY <1>3, <2>1, <2>2
<1>6. ASSUME NEW p \in Proc,
             ReadInstallation(p) \/ ReadToken(p) \/ Redeem(p) \/ StoreToken(p)
      PROVE  CyclesComplete' /\ NothingLeftBehind'
  <2>1. CASE Ends(p)
    BY <1>5, <2>1
  <2>2. CASE ~Ends(p)
    <3>1. schedule' = schedule
      BY <1>6, <2>2 DEF ReadInstallation, ReadToken, Redeem, StoreToken, Fails
    <3>2. (\A q \in Proc : q # p => proc'[q] = proc[q]) /\ proc'[p].pc \notin Batching
      BY <1>0, <1>6, <2>2, Fetching DEF AfterToken, Batching
    <3> QED
      BY <1>3, <3>1, <3>2
  <2> QED
    BY <2>1, <2>2
<1>7. ASSUME NEW p \in Proc, Exchange(p)
      PROVE  CyclesComplete' /\ NothingLeftBehind'
  <2>1. schedule' = schedule
    BY <1>7 DEF Exchange
  <2>2. (\A q \in Proc : q # p => proc'[q] = proc[q]) /\ proc'[p].pc \notin Batching
    BY <1>0, <1>7, Exchanging DEF Batching
  <2> QED
    BY <1>3, <2>1, <2>2
<1>8. ASSUME NEW p \in Proc, Plan(p)
      PROVE  CyclesComplete' /\ NothingLeftBehind'
  <2>1. schedule' = schedule /\ \A q \in Proc : q # p => proc'[q] = proc[q]
    BY <1>0, <1>8, Planning DEF Plan
  <2>2. PICK c, t, g : c = proc'[p].cycle /\ t = proc'[p].token /\ g = proc'[p].page
    OBVIOUS
  <2>3. c \in Cycles /\ g = {} /\ proc'[p].pc \in {"search", "begin"}
    BY <1>0, <1>8, <2>2, Planning DEF Runs
  <2>4. StillReads(c, t, {}) /\ c.upper \in 0 .. now
    <3>1. CASE /\ CycleInProgress(schedule) /\ proc'[p].cycle = Continued(schedule)
               /\ proc'[p].token = schedule.token
      <4>1. Continued(schedule).upper = schedule.query.upper
        BY <1>0, PlannedCycles DEF SyncTyped, TypeOK
      <4> QED
        BY <1>1, <2>2, <3>1, <4>1 DEF RowComplete, CycleInProgress, SyncTyped, TypeOK
    <3>2. CASE /\ proc'[p].cycle \in {NewCycle(p, schedule), NewCycle(p, Cleared)}
               /\ proc'[p].token = Start
      <4>1. c.upper = now /\ now \in Nat
        BY <2>2, <3>2 DEF NewCycle, SyncTyped, TypeOK
      <4> QED
        BY <2>2, <3>2, <4>1, NewCycleReads
    <3> QED
      BY <1>0, <1>8, <3>1, <3>2, Planning
  <2>5. RunComplete(p)'
    BY <2>2, <2>3, <2>4, RunBegins
  <2> QED
    BY <1>1, <1>2, <2>1, <2>5, RowKept
<1>9. ASSUME NEW p \in Proc, BeginCycle(p) \/ SetConnected(p)
      PROVE  CyclesComplete' /\ NothingLeftBehind'
  <2>1. /\ schedule'.cursor = schedule.cursor /\ schedule'.covered = schedule.covered
        /\ schedule'.earlier = schedule.earlier
        /\ \/ schedule'.query = schedule.query /\ schedule'.token = schedule.token
           \/ schedule'.token = Start
    BY <1>0, <1>9 DEF BeginCycle, SetConnected, RowsShaped
  <2>2. /\ \A q \in Proc : q # p => proc'[q] = proc[q]
        /\ proc'[p].cycle = proc[p].cycle /\ proc'[p].token = proc[p].token
        /\ proc'[p].page = proc[p].page /\ proc'[p].last = proc[p].last
        /\ \/ proc[p].pc = "begin" /\ proc'[p].pc = "search"
           \/ proc[p].pc = "save" /\ proc'[p].pc = "advance"
    BY <1>0, <1>9 DEF BeginCycle, SetConnected, Goes, At, Runs
  <2>3. PICK c, t, g : c = proc[p].cycle /\ t = proc[p].token /\ g = proc[p].page
    OBVIOUS
  <2>4. c \in Cycles /\ c.upper \in 0 .. now
    BY <1>0, <2>2, <2>3 DEF SyncTyped, RunsHold, Runs, Batching
  <2>5. /\ StillReads(c, t, g)
        /\ proc'[p].pc \in {"save", "advance"} /\ proc'[p].last => HasRead(c, g)
    BY <1>1, <2>2, <2>3 DEF RunComplete, Batching
  <2>6. RunComplete(p)'
    BY <2>2, <2>3, <2>4, <2>5, RunBegins
  <2> QED
    BY <1>1, <1>2, <2>1, <2>2, <2>6, RowKept
<1>10. ASSUME NEW p \in Proc, Search(p)
       PROVE  CyclesComplete' /\ NothingLeftBehind'
  <2>1. schedule' = schedule
    BY <1>10 DEF Search
  <2>2. /\ \A q \in Proc : q # p => proc'[q] = proc[q]
        /\ proc[p].pc = "search" /\ proc'[p].pc = "save" /\ proc'[p].cycle = proc[p].cycle
    BY <1>0, <1>10, Searching
  <2>3. PICK c, t, g : c = proc'[p].cycle /\ t = proc'[p].token /\ g = proc'[p].page
    OBVIOUS
  <2>4. c \in Cycles /\ c.upper \in 0 .. now /\ c = proc[p].cycle
    BY <1>0, <2>2, <2>3 DEF SyncTyped, RunsHold, Runs, Batching
  <2>5. proc[p].page = {} /\ StillReads(proc[p].cycle, proc[p].token, {})
    BY <1>1, <2>2 DEF RunComplete, Batching, PagesFresh
  <2>6. StillReads(c, t, g) /\ (proc'[p].last => HasRead(c, g))
    BY <1>10, <2>3, <2>4, <2>5, SearchReads
  <2>7. RunComplete(p)'
    BY <2>3, <2>4, <2>6, RunBegins
  <2> QED
    BY <1>1, <1>2, <2>1, <2>2, <2>7, RowKept
<1>11. ASSUME NEW p \in Proc, SaveCandidate(p)
       PROVE  CyclesComplete' /\ NothingLeftBehind'
  <2>1. schedule' = schedule /\ \A q \in Proc : q # p => proc'[q] = proc[q]
    BY <1>0, <1>11, GoingOn DEF SaveCandidate
  <2>2. RunComplete(p)'
    BY <1>1, <1>11, SavingSettles
  <2> QED
    BY <1>1, <1>2, <2>1, <2>2, RowKept
<1>12. ASSUME NEW p \in Proc, Advance(p)
       PROVE  CyclesComplete' /\ NothingLeftBehind'
  <2>1. /\ proc[p].pc = "advance" /\ (\A q \in Proc : q # p => proc'[q] = proc[q])
        /\ proc'[p].pc \notin Batching
    BY <1>0, <1>12, Ending DEF Advance, At, Batching
  <2>2. PICK c, t : c = proc[p].cycle /\ t = proc[p].token
    OBVIOUS
  <2>3. c \in Cycles /\ c.upper \in 0 .. now /\ c.upper # None
    BY <1>0, <2>1, <2>2 DEF SyncTyped, RunsHold, Runs, Batching, None
  <2>4. StillReads(c, t, {}) /\ (proc[p].last => HasRead(c, {}))
    BY <1>1, <2>1, <2>2 DEF RunComplete, Batching, PagesFresh
  <2>5. StillReads(c, t, {})' /\ (proc[p].last => HasRead(c, {})')
    BY <2>3, <2>4, StepKeepsReading
  <2>6. CASE proc[p].last
    <3>1. /\ schedule'.cursor = c.upper /\ schedule'.covered = c.covers
          /\ schedule'.earlier = c.after /\ schedule'.token = Start
      BY <1>0, <1>12, <2>2, <2>6 DEF Advance, LastPage, RowsShaped
    <3>2. RowComplete'
      BY <3>1 DEF RowComplete, CycleInProgress
    <3>3. NothingLeftBehind'
      BY <2>3, <2>5, <2>6, <3>1, CursorMoves
    <3> QED
      BY <1>2, <2>1, <3>2, <3>3, RunKept
  <2>7. CASE ~proc[p].last
    <3>1. /\ schedule'.cursor = schedule.cursor /\ schedule'.covered = schedule.covered
          /\ schedule'.earlier = schedule.earlier
          /\ schedule'.token = t /\ schedule'.query = schedule.query
      BY <1>0, <1>12, <2>2, <2>7 DEF Advance, LastPage, RowsShaped
    <3>2. RowComplete'
      <4> SUFFICES ASSUME CycleInProgress(schedule)'
                   PROVE  StillReads(Continued(schedule), schedule.token, {})'
        BY DEF RowComplete
      <4>1. schedule.query # Nothing /\ t # Start
        BY <3>1 DEF CycleInProgress
      <4>2. CASE t.query = schedule.query
        <5>1. t.query = c
          BY <2>1, <2>2, <4>1, <4>2 DEF QueriesKept, Strange
        <5>2. Continued(schedule)' = c /\ schedule'.token = t
          BY <3>1, <4>2, <5>1 DEF Continued
        <5> QED
          BY <2>5, <5>2
      <4>3. CASE t.query # schedule.query
        <5>1. Continued(schedule)' = Emptied(schedule.query)
          BY <3>1, <4>3 DEF Continued, Emptied
        <5>2. Emptied(schedule.query).covers = {}
          BY <1>0 DEF Emptied, RowsShaped, Cycles
        <5> QED
          BY <5>1, <5>2 DEF StillReads
      <4> QED
        BY <4>2, <4>3
    <3>3. NothingLeftBehind'
      BY <3>1, CursorKept
    <3> QED
      BY <1>2, <2>1, <3>2, <3>3, RunKept
  <2> QED
    BY <2>6, <2>7
<1>13. ASSUME proc' = proc,
              \/ schedule' = Cleared
              \/ /\ schedule'.cursor = schedule.cursor /\ schedule'.covered = schedule.covered
                 /\ schedule'.earlier = schedule.earlier
                 /\ schedule'.query = schedule.query /\ schedule'.token = schedule.token
       PROVE  CyclesComplete' /\ NothingLeftBehind'
  <2>1. RowComplete' /\ NothingLeftBehind'
    BY <1>1, <1>13, RowKept
  <2>2. ASSUME NEW q \in Proc
        PROVE  RunComplete(q)'
    BY <1>1, <1>13, <2>2, RunKept
  <2> QED
    BY <2>1, <2>2 DEF CyclesComplete
<1>14. CASE \/ Tick \/ BecomesReady \/ AccessExpires \/ StartOAuth \/ StateExpires
            \/ Reset \/ Disable \/ UNCHANGED vars
  BY <1>0, <1>13, <1>14 DEF Tick, BecomesReady, AccessExpires, StartOAuth,
     StateExpires, Reset, Disable, vars, RowsShaped
<1>15. ASSUME \/ \E i \in Issue : UpdateIssue(i)
              \/ \E on \in BOOLEAN : PauseOrResume(on)
       PROVE  CyclesComplete' /\ NothingLeftBehind'
  BY <1>0, <1>13, <1>15 DEF UpdateIssue, PauseOrResume, RowsShaped
<1> QED
  BY <1>4, <1>5, <1>6, <1>7, <1>8, <1>9, <1>10, <1>11, <1>12, <1>14, <1>15, Refusing
  DEF Next, Step, Error

-----------------------------------------------------------------------------
(* The theorems about cycles.                                              *)

\* A token goes with the query it was given for, whatever settings and resets
\* do to the row between two pages, unless the error of writing that query down
\* was discarded (syncJira).
THEOREM TokensOfTheirQuery == Spec => []TokenOfItsQuery
<1>1. Init => SyncTyped /\ QueriesKept
  BY SyncTypedInit, IdleRun DEF QueriesKept, Init, CycleInProgress
<1>2. SyncTyped /\ QueriesKept /\ [Next]_vars => (SyncTyped /\ QueriesKept)'
  BY SyncTypedStep, QueriesStep
<1>3. QueriesKept => TokenOfItsQuery
  BY DEF QueriesKept, Strange, TokenOfItsQuery, At
<1> QED
  BY <1>1, <1>2, <1>3, PTL DEF Spec

\* No run writes an older version of an issue over a newer one: there is one
\* batch at a time, and it is saved by the run that read it (upsertCandidate).
THEOREM ImportsOnlyAdvance == Spec => ImportsAdvance
<1>1. Init => SyncTyped /\ PagesFresh
  BY SyncTypedInit, IdleRun DEF PagesFresh, Init
<1>2. SyncTyped /\ PagesFresh /\ [Next]_vars => (SyncTyped /\ PagesFresh)'
  BY SyncTypedStep, PagesStep
<1>3. SyncTyped /\ PagesFresh /\ [Next]_vars
        => [\A i \in Issue : imported'[i] >= imported[i]]_vars
  BY PagesStep
<1> QED
  BY <1>1, <1>2, <1>3, PTL DEF Spec, ImportsAdvance

\* What the cursor has behind it is imported, through pages, failures, crashes,
\* discarded errors, late indexing, changes of the filter and resets, or it was
\* updated in a minute that the overlap of two cycles, the lag of the index and
\* the time zone of the account leave out (syncJira).
THEOREM NothingIsLeftBehind == Spec => []NothingLeftBehind
<1> DEFINE Inv == /\ SyncTyped /\ QueriesKept /\ PagesFresh
                  /\ CyclesComplete /\ NothingLeftBehind
<1>1. Init => Inv
  <2> SUFFICES ASSUME Init
               PROVE  Inv
    OBVIOUS
  <2>1. SyncTyped
    BY SyncTypedInit
  <2>2. QueriesKept /\ PagesFresh
    BY IdleRun DEF QueriesKept, PagesFresh, Init, CycleInProgress
  <2>3. CyclesComplete
    BY IdleRun DEF CyclesComplete, RowComplete, RunComplete, Batching, Init,
       CycleInProgress
  <2>4. NothingLeftBehind
    BY DEF NothingLeftBehind, Init
  <2> QED
    BY <2>1, <2>2, <2>3, <2>4
<1>2. Inv /\ [Next]_vars => Inv'
  BY SyncTypedStep, QueriesStep, PagesStep, CyclesStep
<1>3. Inv => NothingLeftBehind
  OBVIOUS
<1> QED
  BY <1>1, <1>2, <1>3, PTL DEF Spec
=============================================================================

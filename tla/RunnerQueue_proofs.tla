-------------------------- MODULE RunnerQueue_proofs --------------------------
(***************************************************************************)
(* Proofs about RunnerQueue for any numbers of circles, workspaces,        *)
(* runners and members and any bounds on edits, changes and faults: what   *)
(* stage, attempts and node say of one another while runners, members and  *)
(* the deadlock detector interleave, and that results and what has been    *)
(* removed stand.                                                          *)
(***************************************************************************)
EXTENDS RunnerQueue, SequenceTheorems, FiniteSetTheorems, TLAPS

\* The loops and requests keep to the fields of their records.
RunnerLoop ==
  [pc : {"poll", "check", "activate", "work", "report", "finish"},
   circle : Circle, attempt : Nat, outcome : {"none"} \cup Outcomes]
MemberRequest ==
  [pc : {"quiet", "first", "second"}, op : Operations \cup {"none"},
   circle : Circle, config : {"open", "guarded"}]

LoopsTyped ==
  /\ runner \in [Runner -> RunnerLoop]
  /\ \A r \in Runner : runner[r].pc \in {"report", "finish"} => runner[r].outcome \in Outcomes
  /\ request \in [Member -> MemberRequest]

\* The attempt that runs is the last one; a completed stage has it succeeded.
LastRuns ==
  \A c \in Circle :
    /\ stage[c] \in {"active", "completed"} => Len(attempts[c]) > 0
    /\ stage[c] = "completed" => attempts[c][Len(attempts[c])] = "succeeded"
    /\ \A n \in 1 .. Len(attempts[c]) :
         attempts[c][n] = "running" <=> stage[c] = "active" /\ n = Len(attempts[c])

\* What a runner has found under the lock of the row, it still finds.
RunnersHold ==
  \A r \in Runner :
    LET c == runner[r].circle  n == runner[r].attempt IN
    /\ runner[r].pc \in {"check", "activate"} => stage[c] = "ready"
    /\ runner[r].pc \in {"activate", "finish"} => ~removed[c]
    /\ runner[r].pc = "finish" => n \in 1 .. Len(attempts[c]) /\ attempts[c][n] = "running"

\* So does a member who edits a stage or a branch.
MembersHold ==
  \A m \in Member :
    LET q == request[m] IN
    /\ q.pc = "first" => q.op \in WorkspaceFirst
    /\ q.pc = "second" /\ q.op \notin WorkspaceFirst =>
         /\ row[q.circle] = m
         /\ q.op = "edit" => ~removed[q.circle]

LocksInv ==
  /\ TypeOK
  /\ LoopsTyped
  /\ LifecycleAgrees
  /\ LastRuns
  /\ RunnersHold
  /\ MembersHold

-----------------------------------------------------------------------------
(* The oldest stage; attempts as sequences.                                *)

\* A queue that is not empty has an oldest stage: of the sets of stages that
\* are no younger than one of them, take a least one.
LEMMA OldestExists ==
  ASSUME NEW S \in SUBSET Circle, S # {}
  PROVE  First(S) \in S /\ \A d \in S : First(S) <= d
<1> DEFINE upTo(c) == {d \in S : d <= c}
           T == {upTo(c) : c \in S}
<1>0. S \subseteq 1 .. MaxCircle /\ MaxCircle \in Int
  BY QueueAssumption DEF Circle
<1>1. IsFiniteSet(S)
  <2>1. IsFiniteSet(1 .. MaxCircle)
    BY <1>0, FS_Interval
  <2> QED
    BY <1>0, <2>1, FS_Subset
<1>2. T \subseteq FiniteSubsetsOf(S) /\ T # {}
  <2>1. ASSUME NEW c \in S
        PROVE  upTo(c) \in FiniteSubsetsOf(S)
    <3>1. upTo(c) \in SUBSET S
      OBVIOUS
    <3>2. IsFiniteSet(upTo(c))
      BY <1>1, <3>1, FS_Subset
    <3> QED
      BY <3>1, <3>2 DEF FiniteSubsetsOf
  <2> QED
    BY <2>1
<1>3. PICK x \in T : \A y \in T : <<y, x>> \notin StrictSubsetOrdering(S)
  <2> HIDE DEF T
  <2> QED
    BY <1>2, FS_StrictSubsetOrderingWellFounded, WFMin
<1>4. PICK c \in S : x = upTo(c)
  OBVIOUS
<1>5. ASSUME NEW d \in S, ~(c <= d)
      PROVE  FALSE
  <2>1. upTo(d) \in T
    OBVIOUS
  <2>2. d < c /\ S \subseteq Int
    BY <1>0, <1>5
  <2>3. upTo(d) \subseteq upTo(c) /\ c \in upTo(c) /\ c \notin upTo(d)
    <3>1. \A e \in S : e <= d => e <= c
      BY <2>2
    <3>2. c <= c /\ ~(c <= d)
      BY <2>2
    <3> QED
      BY <3>1, <3>2
  <2>4. <<upTo(d), upTo(c)>> \in StrictSubsetOrdering(S)
    BY <2>3 DEF StrictSubsetOrdering
  <2> QED
    BY <1>3, <1>4, <2>1, <2>4
<1> QED
  BY <1>5 DEF First

\* A new attempt is the last one.
LEMMA AttemptAdded ==
  ASSUME TypeOK, NEW c \in Circle, attempts' = [attempts EXCEPT ![c] = Append(@, "running")]
  PROVE  /\ attempts' \in [Circle -> Seq({"running"} \cup Over)]
         /\ \A d \in Circle : d # c => attempts'[d] = attempts[d]
         /\ Len(attempts'[c]) = Len(attempts[c]) + 1
         /\ Len(attempts[c]) \in Nat
         /\ attempts'[c][Len(attempts'[c])] = "running"
         /\ \A n \in 1 .. Len(attempts[c]) : attempts'[c][n] = attempts[c][n]
<1>1. attempts[c] \in Seq({"running"} \cup Over) /\ Len(attempts[c]) \in Nat
  BY LenProperties DEF TypeOK
<1>2. /\ Append(attempts[c], "running") \in Seq({"running"} \cup Over)
      /\ Len(Append(attempts[c], "running")) = Len(attempts[c]) + 1
      /\ Append(attempts[c], "running")[Len(attempts[c]) + 1] = "running"
      /\ \A n \in 1 .. Len(attempts[c]) : Append(attempts[c], "running")[n] = attempts[c][n]
  BY <1>1, AppendProperties
<1>3. attempts' \in [Circle -> Seq({"running"} \cup Over)]
  BY <1>2 DEF TypeOK
<1>4. attempts'[c] = Append(attempts[c], "running") /\ \A d \in Circle : d # c => attempts'[d] = attempts[d]
  BY DEF TypeOK
<1> QED
  BY <1>1, <1>2, <1>3, <1>4

\* An attempt ends in its place.
LEMMA AttemptEnded ==
  ASSUME NEW a \in Seq({"running"} \cup Over), NEW n \in 1 .. Len(a), NEW s \in Over
  PROVE  LET x == [a EXCEPT ![n] = s]
         IN  /\ x \in Seq({"running"} \cup Over)
             /\ Len(x) = Len(a)
             /\ x[n] = s
             /\ \A k \in 1 .. Len(a) : k # n => x[k] = a[k]
BY ExceptSeq

-----------------------------------------------------------------------------
(* The locks.                                                              *)

\* A transaction that ends frees its rows and no others.
LEMMA RowsFreed ==
  ASSUME TypeOK, NEW p, Unlock(p)
  PROVE  /\ row' \in [Circle -> Runner \cup Member \cup {Nobody}]
         /\ \A c \in Circle : row[c] # p => row'[c] = row[c]
BY DEF Unlock, TypeOK

\* The queue hands out a stage that is ready, and whose row is free.
LEMMA LeaseTakes ==
  ASSUME NEW r \in Runner, Lease(r)
  PROVE  \E c \in Circle : /\ InQueue(c) /\ row[c] = Nobody
                           /\ row' = [row EXCEPT ![c] = r]
                           /\ runner' = [runner EXCEPT ![r].pc = "check", ![r].circle = c]
<1> DEFINE ready == {c \in Circle : InQueue(c) /\ Available(c)}
<1>1. ready \in SUBSET Circle /\ ready # {}
  BY DEF Lease
<1>2. First(ready) \in ready
  BY <1>1, OldestExists
<1>3. /\ row' = [row EXCEPT ![First(ready)] = r]
      /\ runner' = [runner EXCEPT ![r].pc = "check", ![r].circle = First(ready)]
  BY DEF Lease
<1> HIDE DEF ready
<1>4. First(ready) \in Circle /\ InQueue(First(ready)) /\ Available(First(ready))
  BY <1>2 DEF ready
<1> QED
  BY <1>3, <1>4 DEF Available

\* What the detector does to its victim.
LEMMA VictimEnds ==
  ASSUME NEW p \in Runner \cup Member, NEW m \in Member, Victim(p, m)
  PROVE  /\ UNCHANGED circles
         /\ \/ Ends(m)
            \/ p \in Runner /\ Drop(p)
            \/ p \in Member /\ Ends(p)
BY DEF Victim, Drop

\* A row is kept until its holder's own transaction ends.
LEMMA RowsKept ==
  ASSUME LocksInv, [Next]_vars, NEW c \in Circle, NEW p \in Runner \cup Member, row[c] = p
  PROVE  \/ row'[c] = p
         \/ p \in Runner /\ runner'[p].pc \notin {"check", "activate", "finish"}
         \/ p \in Member /\ request'[p].pc = "quiet"
<1> USE DEF LocksInv
<1>0. p # Nobody /\ TypeOK /\ LoopsTyped
  BY QueueAssumption
<1>1. CASE row' = row
  BY <1>1
<1>2. ASSUME NEW r \in Runner, Lease(r)
      PROVE  row'[c] = p
  BY <1>0, <1>2, LeaseTakes DEF TypeOK
<1>3. ASSUME NEW r \in Runner, Unlock(r), runner'[r].pc \notin {"check", "activate", "finish"}
      PROVE  \/ row'[c] = p
             \/ p \in Runner /\ runner'[p].pc \notin {"check", "activate", "finish"}
  <2>1. CASE p = r
    BY <1>3, <2>1
  <2>2. CASE p # r
    BY <1>0, <1>3, <2>2, RowsFreed
  <2> QED
    BY <2>1, <2>2
<1>4. ASSUME NEW r \in Runner, Check(r) \/ Activate(r) \/ Finish(r) \/ Drop(r)
      PROVE  \/ row' = row
             \/ Unlock(r) /\ runner'[r].pc \notin {"check", "activate", "finish"}
  <2>1. runner[r] \in RunnerLoop
    BY <1>0 DEF LoopsTyped
  <2>2. ASSUME Unlock(r), runner' = [runner EXCEPT ![r] = Polling]
        PROVE  runner'[r].pc = "poll"
    BY <1>0, <2>2 DEF LoopsTyped, Polling
  <2>3. CASE Check(r)
    BY <2>2, <2>3 DEF Check
  <2>4. CASE Activate(r)
    <3>1. ASSUME NEW n, runner' = [runner EXCEPT ![r].pc = "work", ![r].attempt = n]
          PROVE  runner'[r].pc = "work"
      BY <1>0, <2>1, <3>1 DEF LoopsTyped, RunnerLoop
    <3> QED
      BY <2>2, <2>4, <3>1 DEF Activate
  <2>5. CASE Finish(r)
    BY <2>2, <2>5 DEF Finish
  <2>6. CASE Drop(r)
    BY <2>2, <2>6 DEF Drop
  <2> QED
    BY <1>4, <2>3, <2>4, <2>5, <2>6
<1>5. ASSUME NEW r \in Runner, Report(r)
      PROVE  row'[c] = p
  BY <1>0, <1>5 DEF Report, TypeOK
<1>6. ASSUME NEW m \in Member, BeginEdit(m)
      PROVE  row'[c] = p
  BY <1>0, <1>6 DEF BeginEdit, TypeOK
<1>7. ASSUME NEW m \in Member, Ends(m)
      PROVE  \/ row'[c] = p
             \/ p \in Member /\ request'[p].pc = "quiet"
  <2>1. Unlock(m) /\ request'[m].pc = "quiet"
    BY <1>0, <1>7 DEF Ends, LoopsTyped, Quiet
  <2>2. CASE p = m
    BY <2>1, <2>2
  <2>3. CASE p # m
    BY <1>0, <2>1, <2>3, RowsFreed
  <2> QED
    BY <2>2, <2>3
<1>8. ASSUME NEW r \in Runner, Work(r) \/ SeeCancelled(r)
      PROVE  row' = row
  BY <1>8 DEF Work, SeeCancelled
<1>9. ASSUME NEW m \in Member, BeginAdd(m) \/ BeginAction(m) \/ BeginSweep(m) \/ TakeWorkspace(m)
      PROVE  row' = row
  BY <1>9 DEF BeginAdd, BeginAction, BeginSweep, TakeWorkspace
<1>10. ASSUME Disable \/ \E w \in Workspace :
                ChangePolicy(w) \/ \E what \in {"module", "secret"} : CheckReferences(what, w)
       PROVE  row' = row
  BY <1>10 DEF Disable, ChangePolicy, CheckReferences
<1>11. ASSUME NEW q \in Runner \cup Member, NEW m \in Member, Victim(q, m)
       PROVE  Ends(m) \/ (q \in Runner /\ Drop(q)) \/ (q \in Member /\ Ends(q))
  BY <1>11, VictimEnds
<1>12. CASE UNCHANGED vars
  BY <1>12 DEF vars
<1> QED
  BY <1>1, <1>2, <1>3, <1>4, <1>5, <1>6, <1>7, <1>8, <1>9, <1>10, <1>11, <1>12
     DEF Next, Loop, Fault, Transaction, Commit, Detector

-----------------------------------------------------------------------------
(* What a step leaves of the types.                                        *)

\* A runner's loop goes on, and stays one.
LEMMA LoopMoves ==
  ASSUME LocksInv, NEW r \in Runner, Loop(r) \/ Fault(r) \/ Drop(r)
  PROVE  /\ runner' \in [Runner -> RunnerLoop]
         /\ \A s \in Runner : s # r => runner'[s] = runner[s]
         /\ runner'[r].pc \in {"report", "finish"} => runner'[r].outcome \in Outcomes
         /\ request' = request
<1>0. /\ runner \in [Runner -> RunnerLoop] /\ runner[r] \in RunnerLoop
      /\ runner[r].pc \in {"report", "finish"} => runner[r].outcome \in Outcomes
      /\ Polling \in RunnerLoop /\ Polling.pc = "poll"
  BY QueueAssumption DEF LocksInv, LoopsTyped, RunnerLoop, Polling, Circle
<1>1. ASSUME NEW x \in RunnerLoop, x.pc \in {"report", "finish"} => x.outcome \in Outcomes,
             runner' = [runner EXCEPT ![r] = x], request' = request
      PROVE  /\ runner' \in [Runner -> RunnerLoop]
             /\ \A s \in Runner : s # r => runner'[s] = runner[s]
             /\ runner'[r].pc \in {"report", "finish"} => runner'[r].outcome \in Outcomes
             /\ request' = request
  BY <1>0, <1>1
<1>2. \E x \in RunnerLoop :
        /\ runner' = [runner EXCEPT ![r] = x]
        /\ x.pc \in {"report", "finish"} => x.outcome \in Outcomes
  <2>1. CASE Lease(r)
    <3>1. PICK c \in Circle : runner' = [runner EXCEPT ![r].pc = "check", ![r].circle = c]
      BY <2>1, LeaseTakes
    <3>2. runner' = [runner EXCEPT ![r] = [runner[r] EXCEPT !.pc = "check", !.circle = c]]
      BY <1>0, <3>1
    <3>3. [runner[r] EXCEPT !.pc = "check", !.circle = c] \in RunnerLoop
      BY <1>0 DEF RunnerLoop
    <3>4. [runner[r] EXCEPT !.pc = "check", !.circle = c].pc = "check"
      BY <1>0 DEF RunnerLoop
    <3> QED
      BY <3>2, <3>3, <3>4
  <2>2. ASSUME NEW pc \in {"activate", "work", "report", "finish"},
               runner' = [runner EXCEPT ![r].pc = pc],
               pc = "finish" => runner[r].pc = "report", pc # "report"
        PROVE  \E x \in RunnerLoop :
                 /\ runner' = [runner EXCEPT ![r] = x]
                 /\ x.pc \in {"report", "finish"} => x.outcome \in Outcomes
    <3> DEFINE x == [runner[r] EXCEPT !.pc = pc]
    <3>1. x \in RunnerLoop /\ x.pc = pc /\ x.outcome = runner[r].outcome
      BY <1>0 DEF RunnerLoop
    <3>2. runner' = [runner EXCEPT ![r] = x]
      BY <2>2
    <3>3. x.pc \in {"report", "finish"} => x.outcome \in Outcomes
      BY <1>0, <2>2, <3>1
    <3> HIDE DEF x
    <3> QED
      BY <3>1, <3>2, <3>3
  <2>3. CASE Check(r)
    BY <1>0, <2>2, <2>3 DEF Check
  <2>4. CASE Activate(r)
    <3>1. ASSUME NEW n \in Nat, runner' = [runner EXCEPT ![r].pc = "work", ![r].attempt = n]
          PROVE  \E x \in RunnerLoop :
                   /\ runner' = [runner EXCEPT ![r] = x]
                   /\ x.pc \in {"report", "finish"} => x.outcome \in Outcomes
      <4> DEFINE x == [runner[r] EXCEPT !.pc = "work", !.attempt = n]
      <4>1. x \in RunnerLoop /\ x.pc = "work"
        BY <1>0 DEF RunnerLoop
      <4>2. runner' = [runner EXCEPT ![r] = x]
        BY <3>1
      <4> HIDE DEF x
      <4> QED
        BY <4>1, <4>2
    <3>2. Last(runner[r].circle) + 1 \in Nat
      <4>1. attempts[runner[r].circle] \in Seq({"running"} \cup Over)
        BY <1>0 DEF LocksInv, TypeOK, RunnerLoop
      <4> QED
        BY <4>1, LenProperties DEF Last
    <3> QED
      BY <1>0, <2>4, <3>1, <3>2 DEF Activate
  <2>5. CASE Work(r)
    <3>1. PICK o \in Outcomes : runner' = [runner EXCEPT ![r].pc = "report", ![r].outcome = o]
      BY <2>5 DEF Work
    <3> DEFINE x == [runner[r] EXCEPT !.pc = "report", !.outcome = o]
    <3>2. x \in RunnerLoop /\ x.outcome = o
      BY <1>0 DEF RunnerLoop
    <3>3. runner' = [runner EXCEPT ![r] = x]
      BY <3>1
    <3> HIDE DEF x
    <3> QED
      BY <3>2, <3>3
  <2>6. CASE Report(r)
    BY <1>0, <2>2, <2>6 DEF Report
  <2>7. CASE SeeCancelled(r) \/ Finish(r) \/ Fault(r) \/ Drop(r)
    BY <1>0, <2>7 DEF SeeCancelled, Finish, Fault, Drop
  <2> QED
    BY <2>1, <2>3, <2>4, <2>5, <2>6, <2>7 DEF Loop
<1>3. request' = request
  BY DEF Loop, Lease, Check, Activate, Work, SeeCancelled, Report, Finish, Fault, Drop
<1> QED
  BY <1>1, <1>2, <1>3

\* A request of a member begins, goes on and ends, and stays one.
LEMMA RequestMoves ==
  ASSUME LocksInv, NEW m \in Member,
         BeginAdd(m) \/ BeginAction(m) \/ BeginEdit(m) \/ BeginSweep(m)
               \/ TakeWorkspace(m) \/ Ends(m)
  PROVE  /\ request' \in [Member -> MemberRequest]
         /\ \A n \in Member : n # m => request'[n] = request[n]
         /\ workspace' \in [Workspace -> Member \cup {Nobody}]
<1>0. /\ request \in [Member -> MemberRequest] /\ request[m] \in MemberRequest
      /\ Quiet \in MemberRequest /\ Home \in [Circle -> Workspace]
      /\ workspace \in [Workspace -> Member \cup {Nobody}]
      /\ config \in [Circle -> {"open", "guarded"}]
  BY QueueAssumption DEF LocksInv, TypeOK, LoopsTyped, MemberRequest, Quiet, Circle
<1>1. ASSUME NEW pc \in {"first", "second"}, NEW o \in Operations, NEW c \in Circle,
             NEW f \in {"open", "guarded"}, Begins(m, o, c, f, pc)
      PROVE  /\ request' \in [Member -> MemberRequest]
             /\ \A n \in Member : n # m => request'[n] = request[n]
  <2>1. request' = [request EXCEPT ![m] = [pc |-> pc, op |-> o, circle |-> c, config |-> f]]
    BY <1>1 DEF Begins
  <2>2. [pc |-> pc, op |-> o, circle |-> c, config |-> f] \in MemberRequest
    BY DEF MemberRequest
  <2> QED
    BY <1>0, <2>1, <2>2
<1>2. CASE BeginAdd(m)
  BY <1>0, <1>1, <1>2 DEF BeginAdd, Operations
<1>3. CASE BeginAction(m)
  BY <1>0, <1>1, <1>3 DEF BeginAction, Operations, WorkspaceFirst
<1>4. CASE BeginEdit(m)
  BY <1>0, <1>1, <1>4 DEF BeginEdit
<1>5. CASE BeginSweep(m)
  BY <1>0, <1>1, <1>5 DEF BeginSweep, Operations
<1>6. CASE TakeWorkspace(m)
  BY <1>0, <1>6 DEF TakeWorkspace, MemberRequest
<1>7. CASE Ends(m)
  BY <1>0, <1>7 DEF Ends
<1> QED
  BY <1>2, <1>3, <1>4, <1>5, <1>6, <1>7

\* Three actions change stages, nodes and attempts.
LEMMA CirclesChange ==
  ASSUME [Next]_vars
  PROVE  \/ UNCHANGED circles
         \/ \E r \in Runner : Activate(r) \/ Finish(r)
         \/ \E m \in Member :
              /\ Commit(m) /\ Apply(request[m])
              /\ request[m].op \in WorkspaceFirst => Allowed(request[m])
<1>1. ASSUME NEW r \in Runner, Loop(r) \/ Fault(r)
      PROVE  UNCHANGED circles \/ Activate(r) \/ Finish(r)
  BY <1>1 DEF Loop, Lease, Check, Work, SeeCancelled, Report, Fault, Drop
<1>2. ASSUME NEW m \in Member,
             BeginAdd(m) \/ BeginAction(m) \/ BeginEdit(m) \/ BeginSweep(m) \/ TakeWorkspace(m)
      PROVE  UNCHANGED circles
  BY <1>2 DEF BeginAdd, BeginAction, BeginEdit, BeginSweep, TakeWorkspace
<1>3. ASSUME NEW m \in Member, Commit(m)
      PROVE  \/ UNCHANGED circles
             \/ /\ Apply(request[m])
                /\ request[m].op \in WorkspaceFirst => Allowed(request[m])
  BY <1>3 DEF Commit
<1>4. ASSUME Disable \/ \E w \in Workspace :
               ChangePolicy(w) \/ \E what \in {"module", "secret"} : CheckReferences(what, w)
      PROVE  UNCHANGED circles
  BY <1>4 DEF Disable, ChangePolicy, CheckReferences
<1>5. CASE UNCHANGED vars
  BY <1>5 DEF vars, circles
<1> QED
  BY <1>1, <1>2, <1>3, <1>4, <1>5, VictimEnds DEF Next, Transaction, Detector

\* What such a step leaves: types, agreement, and rows that stay held.
CirclesTyped ==
  /\ stage \in [Circle -> {"none", "ready", "active", "completed", "failed"}]
  /\ life \in [Circle -> {"planned", "active", "review", "blocked"}]
  /\ removed \in [Circle -> BOOLEAN] /\ config \in [Circle -> {"open", "guarded"}]
  /\ attempts \in [Circle -> Seq({"running"} \cup Over)]

Undisturbed(c) ==
  /\ stage'[c] = stage[c] /\ life'[c] = life[c] /\ removed'[c] = removed[c]
  /\ attempts'[c] = attempts[c]

ResultsKept(c) ==
  \A n \in 1 .. Len(attempts[c]) :
    attempts[c][n] \in Over =>
      \/ attempts'[c][n] = attempts[c][n]
      \/ attempts[c][n] = "succeeded" /\ attempts'[c][n] = "returned"

RemovedKept(c) ==
  removed[c] /\ removed'[c] =>
    /\ stage'[c] = stage[c] /\ life'[c] = life[c]
    /\ config'[c] = config[c] /\ attempts'[c] = attempts[c]

\* A stage is activated only while it is ready and its row is held.
LEMMA ActivateKeeps ==
  ASSUME LocksInv, NEW r \in Runner, Activate(r)
  PROVE  /\ CirclesTyped' /\ LifecycleAgrees' /\ LastRuns'
         /\ \A c \in Circle : row[c] # Nobody /\ row'[c] = row[c] => Undisturbed(c)
         /\ \A c \in Circle : ResultsKept(c) /\ RemovedKept(c)
<1> DEFINE k == runner[r].circle
<1>0. /\ TypeOK /\ LoopsTyped /\ CirclesTyped /\ LifecycleAgrees /\ LastRuns /\ RunnersHold
      /\ k \in Circle /\ runner[r].pc = "activate" /\ r # Nobody
  BY QueueAssumption DEF LocksInv, TypeOK, CirclesTyped, LoopsTyped, RunnerLoop, Activate
<1>1. stage[k] = "ready" /\ ~removed[k] /\ row[k] = r
  BY <1>0 DEF RunnersHold, TypeOK
<1>2. /\ attempts' = [attempts EXCEPT ![k] = Append(@, "running")]
      /\ stage' = [stage EXCEPT ![k] = "active"] /\ life' = [life EXCEPT ![k] = "active"]
      /\ removed' = removed /\ config' = config /\ Unlock(r)
  BY DEF Activate
<1> HIDE DEF k
<1>3. /\ attempts' \in [Circle -> Seq({"running"} \cup Over)]
      /\ \A d \in Circle : d # k => attempts'[d] = attempts[d]
      /\ Len(attempts'[k]) = Len(attempts[k]) + 1
      /\ Len(attempts[k]) \in Nat
      /\ attempts'[k][Len(attempts'[k])] = "running"
      /\ \A n \in 1 .. Len(attempts[k]) : attempts'[k][n] = attempts[k][n]
  BY <1>0, <1>2, AttemptAdded
<1>4. /\ stage'[k] = "active" /\ life'[k] = "active" /\ removed'[k] = removed[k]
      /\ \A d \in Circle : d # k => Undisturbed(d)
  BY <1>0, <1>2, <1>3 DEF CirclesTyped, Undisturbed
<1>5. CirclesTyped'
  BY <1>0, <1>2, <1>3 DEF CirclesTyped
<1>6. LifecycleAgrees'
  BY <1>0, <1>1, <1>4 DEF LifecycleAgrees, Undisturbed
<1>7. LastRuns'
  <2>1. \A n \in 1 .. Len(attempts'[k]) : attempts'[k][n] = "running" <=> n = Len(attempts'[k])
    <3>1. \A n \in 1 .. Len(attempts[k]) : attempts[k][n] # "running"
      BY <1>0, <1>1 DEF LastRuns
    <3> QED
      BY <1>3, <3>1
  <2> QED
    BY <1>0, <1>3, <1>4, <2>1 DEF LastRuns, Undisturbed
<1>8. ASSUME NEW c \in Circle, row[c] # Nobody, row'[c] = row[c]
      PROVE  Undisturbed(c)
  <2>1. row'[k] = Nobody
    BY <1>0, <1>1, <1>2 DEF Unlock
  <2> QED
    BY <1>4, <1>8, <2>1
<1>9. ASSUME NEW c \in Circle
      PROVE  ResultsKept(c) /\ RemovedKept(c)
  BY <1>1, <1>2, <1>3, <1>4, <1>9 DEF ResultsKept, RemovedKept, Undisturbed
<1> QED
  BY <1>5, <1>6, <1>7, <1>8, <1>9

\* A report ends the attempt that still runs, whose row is held.
LEMMA FinishKeeps ==
  ASSUME LocksInv, NEW r \in Runner, Finish(r)
  PROVE  /\ CirclesTyped' /\ LifecycleAgrees' /\ LastRuns'
         /\ \A c \in Circle : row[c] # Nobody /\ row'[c] = row[c] => Undisturbed(c)
         /\ \A c \in Circle : ResultsKept(c) /\ RemovedKept(c)
<1>0. /\ TypeOK /\ LoopsTyped /\ CirclesTyped /\ LifecycleAgrees /\ LastRuns /\ RunnersHold
      /\ runner[r] \in RunnerLoop /\ runner[r].pc = "finish" /\ r # Nobody
  BY QueueAssumption DEF LocksInv, TypeOK, CirclesTyped, LoopsTyped, Finish
<1>1. PICK k \in Circle, i \in Nat, o \in Over :
        /\ i \in 1 .. Len(attempts[k])
        /\ k = runner[r].circle /\ i = runner[r].attempt /\ o = runner[r].outcome
        /\ attempts[k][i] = "running" /\ row[k] = r /\ ~removed[k] /\ o \in Outcomes
  BY <1>0 DEF RunnersHold, TypeOK, LoopsTyped, RunnerLoop, Outcomes, Over
<1>2. /\ attempts' = [attempts EXCEPT ![k] = [attempts[k] EXCEPT ![i] = o]]
      /\ stage' = [stage EXCEPT ![k] = IF o = "succeeded" THEN "completed" ELSE "failed"]
      /\ life' = [life EXCEPT ![k] = IF o = "succeeded" THEN "review" ELSE "blocked"]
      /\ removed' = removed /\ config' = config /\ Unlock(r)
  BY <1>1 DEF Finish
<1>3. /\ attempts' \in [Circle -> Seq({"running"} \cup Over)]
      /\ \A d \in Circle : d # k => attempts'[d] = attempts[d]
      /\ Len(attempts'[k]) = Len(attempts[k])
      /\ attempts'[k][i] = o
      /\ \A n \in 1 .. Len(attempts[k]) : n # i => attempts'[k][n] = attempts[k][n]
  <2>1. PICK x : x = [attempts[k] EXCEPT ![i] = o]
    OBVIOUS
  <2>2. attempts[k] \in Seq({"running"} \cup Over) /\ i \in 1 .. Len(attempts[k])
    BY <1>0, <1>1 DEF CirclesTyped
  <2>3. /\ x \in Seq({"running"} \cup Over) /\ Len(x) = Len(attempts[k]) /\ x[i] = o
        /\ \A n \in 1 .. Len(attempts[k]) : n # i => x[n] = attempts[k][n]
    BY <1>1, <2>1, <2>2, AttemptEnded
  <2>4. attempts' = [attempts EXCEPT ![k] = x]
    BY <1>2, <2>1
  <2> QED
    BY <1>0, <2>3, <2>4 DEF CirclesTyped
<1>4. /\ stage'[k] = IF o = "succeeded" THEN "completed" ELSE "failed"
      /\ life'[k] = IF o = "succeeded" THEN "review" ELSE "blocked"
      /\ removed'[k] = removed[k]
      /\ \A d \in Circle : d # k => Undisturbed(d)
  BY <1>0, <1>2, <1>3 DEF CirclesTyped, Undisturbed
<1>5. CirclesTyped'
  BY <1>0, <1>2, <1>3 DEF CirclesTyped
<1>6. stage[k] = "active" /\ i = Len(attempts[k]) /\ Len(attempts[k]) > 0
  BY <1>0, <1>1 DEF LastRuns
<1>7. LifecycleAgrees'
  BY <1>0, <1>4, <1>6 DEF LifecycleAgrees, Undisturbed
<1>8. LastRuns'
  <2>1. ASSUME NEW n \in 1 .. Len(attempts'[k])
        PROVE  attempts'[k][n] # "running"
    <3>1. n \in 1 .. Len(attempts[k])
      BY <1>3
    <3>2. CASE n = i
      BY <1>1, <1>3, <3>2 DEF Outcomes
    <3>3. CASE n # i
      <4>1. attempts'[k][n] = attempts[k][n]
        BY <1>3, <3>1, <3>3
      <4>2. attempts[k][n] # "running"
        BY <1>0, <1>1, <1>6, <3>1, <3>3 DEF LastRuns
      <4> QED
        BY <4>1, <4>2
    <3> QED
      BY <3>2, <3>3
  <2>2. Len(attempts'[k]) > 0 /\ attempts'[k][Len(attempts'[k])] = o
    BY <1>1, <1>3, <1>6
  <2> QED
    BY <1>0, <1>3, <1>4, <2>1, <2>2 DEF LastRuns, Undisturbed
<1>9. ASSUME NEW c \in Circle, row[c] # Nobody, row'[c] = row[c]
      PROVE  Undisturbed(c)
  <2>1. row'[k] = Nobody
    BY <1>0, <1>1, <1>2 DEF Unlock
  <2> QED
    BY <1>4, <1>9, <2>1
<1>10. ASSUME NEW c \in Circle
       PROVE  ResultsKept(c) /\ RemovedKept(c)
  BY <1>1, <1>2, <1>3, <1>4, <1>10 DEF ResultsKept, RemovedKept, Undisturbed, Over
<1> QED
  BY <1>5, <1>7, <1>8, <1>9, <1>10

\* A member changes a circle when no runner holds it, or holds it himself.
LEMMA CommitKeeps ==
  ASSUME LocksInv, NEW m \in Member, Commit(m), Apply(request[m]),
         request[m].op \in WorkspaceFirst => Allowed(request[m])
  PROVE  /\ CirclesTyped' /\ LifecycleAgrees' /\ LastRuns'
         /\ \A c \in Circle : row[c] # Nobody /\ row'[c] = row[c] => Undisturbed(c)
         /\ \A c \in Circle : ResultsKept(c) /\ RemovedKept(c)
<1>0. /\ TypeOK /\ LoopsTyped /\ CirclesTyped /\ LifecycleAgrees /\ LastRuns /\ MembersHold
      /\ request[m] \in MemberRequest /\ request[m].pc = "second" /\ m # Nobody
  BY QueueAssumption DEF LocksInv, TypeOK, CirclesTyped, LoopsTyped, Commit
<1>1. PICK k \in Circle, o \in Operations \cup {"none"}, f \in {"open", "guarded"} :
        k = request[m].circle /\ o = request[m].op /\ f = request[m].config
  BY <1>0 DEF MemberRequest
<1>2. /\ config' = IF o \in {"add", "edit"} THEN [config EXCEPT ![k] = f] ELSE config
      /\ removed' = [removed EXCEPT ![k] = o \in {"remove", "sweep"} \/ (@ /\ o # "restore")]
      /\ Unlock(m)
  BY <1>1 DEF Apply, Commit, Ends
<1>3. /\ config' \in [Circle -> {"open", "guarded"}] /\ removed' \in [Circle -> BOOLEAN]
      /\ \A d \in Circle : d # k => removed'[d] = removed[d]
      /\ \A d \in Circle : d # k => config'[d] = config[d]
  BY <1>0, <1>2 DEF CirclesTyped
<1>4. row[k] # Nobody => row'[k] # row[k]
  <2>1. CASE o \in WorkspaceFirst
    BY <1>1, <2>1 DEF Commit
  <2>2. CASE o \notin WorkspaceFirst
    <3>1. row[k] = m
      BY <1>0, <1>1, <2>2 DEF MembersHold
    <3> QED
      BY <1>0, <1>2, <3>1 DEF Unlock
  <2> QED
    BY <2>1, <2>2
<1>5. ASSUME NEW s \in {"none", "ready", "active", "completed", "failed"},
             NEW l \in {"planned", "active", "review", "blocked"},
             NEW x \in Seq({"running"} \cup Over),
             stage' = [stage EXCEPT ![k] = s], life' = [life EXCEPT ![k] = l],
             attempts' = [attempts EXCEPT ![k] = x],
             l = "planned" <=> s \in {"none", "ready"}, l = "active" <=> s = "active",
             l = "blocked" <=> s = "failed",
             \/ ~removed[k]
             \/ s = stage[k] /\ l = life[k] /\ x = attempts[k] /\ config'[k] = config[k],
             s \in {"active", "completed"} => Len(x) > 0,
             s = "completed" => x[Len(x)] = "succeeded",
             \A n \in 1 .. Len(x) : x[n] = "running" <=> s = "active" /\ n = Len(x),
             \A n \in 1 .. Len(attempts[k]) :
               attempts[k][n] \in Over =>
                 x[n] = attempts[k][n] \/ (attempts[k][n] = "succeeded" /\ x[n] = "returned")
      PROVE  /\ CirclesTyped' /\ LifecycleAgrees' /\ LastRuns'
             /\ \A c \in Circle : row[c] # Nobody /\ row'[c] = row[c] => Undisturbed(c)
             /\ \A c \in Circle : ResultsKept(c) /\ RemovedKept(c)
  <2>1. /\ stage'[k] = s /\ life'[k] = l /\ attempts'[k] = x
        /\ \A d \in Circle : d # k => Undisturbed(d)
    BY <1>0, <1>3, <1>5 DEF CirclesTyped, Undisturbed
  <2>2. CirclesTyped'
    BY <1>0, <1>3, <1>5 DEF CirclesTyped
  <2>3. LifecycleAgrees'
    BY <1>0, <1>5, <2>1 DEF LifecycleAgrees, Undisturbed
  <2>4. LastRuns'
    BY <1>0, <1>5, <2>1 DEF LastRuns, Undisturbed
  <2>5. \A c \in Circle : row[c] # Nobody /\ row'[c] = row[c] => Undisturbed(c)
    BY <1>4, <2>1
  <2>6. \A c \in Circle : ResultsKept(c) /\ RemovedKept(c)
    BY <1>3, <1>5, <2>1 DEF ResultsKept, RemovedKept, Undisturbed
  <2> QED
    BY <2>2, <2>3, <2>4, <2>5, <2>6
<1>6. CASE o \in {"add", "retry"}
  <2>1. Allowed(request[m])
    BY <1>1, <1>6 DEF WorkspaceFirst
  <2>2. stage[k] \in {"none", "failed"} /\ ~removed[k]
    BY <1>1, <1>6, <2>1 DEF Allowed, NodeByID
  <2>3. /\ stage' = [stage EXCEPT ![k] = "ready"] /\ life' = [life EXCEPT ![k] = "planned"]
        /\ attempts' = attempts
    BY <1>1, <1>6 DEF Apply
  <2>4. PICK x \in Seq({"running"} \cup Over) :
          x = attempts[k] /\ attempts' = [attempts EXCEPT ![k] = x]
    BY <1>0, <2>3 DEF CirclesTyped
  <2>5. \A n \in 1 .. Len(x) : x[n] # "running"
    BY <1>0, <2>2, <2>4 DEF LastRuns
  <2> QED
    BY <1>5, <2>2, <2>3, <2>4, <2>5
<1>7. CASE o \in {"cancel", "return"}
  <2> DEFINE s == IF o = "cancel" THEN "cancelled" ELSE "returned"
  <2>1. Allowed(request[m]) /\ s \in Over
    BY <1>1, <1>7 DEF WorkspaceFirst, Over
  <2>2. /\ Len(attempts[k]) > 0 /\ ~removed[k]
        /\ attempts[k][Len(attempts[k])] = IF o = "cancel" THEN "running" ELSE "succeeded"
        /\ stage[k] = IF o = "cancel" THEN "active" ELSE "completed"
    BY <1>0, <1>1, <1>7, <2>1
       DEF Allowed, NodeByID, LifecycleAgrees, LastRuns, Running, Last, CirclesTyped
  <2>3. PICK x : x = [attempts[k] EXCEPT ![Len(attempts[k])] = s]
    OBVIOUS
  <2>4. /\ stage' = [stage EXCEPT ![k] = IF o = "cancel" THEN "failed" ELSE "ready"]
        /\ life' = [life EXCEPT ![k] = IF o = "cancel" THEN "blocked" ELSE "planned"]
        /\ attempts' = [attempts EXCEPT ![k] = x]
    BY <1>1, <1>7, <2>3 DEF Apply, Last
  <2>5. attempts[k] \in Seq({"running"} \cup Over) /\ Len(attempts[k]) \in 1 .. Len(attempts[k])
    BY <1>0, <2>2, LenProperties DEF CirclesTyped
  <2>6. /\ x \in Seq({"running"} \cup Over) /\ Len(x) = Len(attempts[k])
        /\ x[Len(attempts[k])] = s
        /\ \A n \in 1 .. Len(attempts[k]) : n # Len(attempts[k]) => x[n] = attempts[k][n]
    BY <2>1, <2>3, <2>5, AttemptEnded
  <2>7. \A n \in 1 .. Len(x) : x[n] # "running"
    BY <1>0, <2>6 DEF LastRuns
  <2>8. \A n \in 1 .. Len(attempts[k]) :
          attempts[k][n] \in Over =>
            x[n] = attempts[k][n] \/ (attempts[k][n] = "succeeded" /\ x[n] = "returned")
    BY <1>7, <2>2, <2>6 DEF Over
  <2> HIDE DEF s
  <2>9. CASE o = "cancel"
    BY <1>5, <2>2, <2>4, <2>6, <2>7, <2>8, <2>9
  <2>10. CASE o = "return"
    BY <1>5, <2>2, <2>4, <2>6, <2>7, <2>8, <2>10
  <2> QED
    BY <1>7, <2>9, <2>10
<1>8. CASE o \notin {"add", "retry", "cancel", "return"}
  <2>1. /\ stage' = [stage EXCEPT ![k] = stage[k]] /\ life' = [life EXCEPT ![k] = life[k]]
        /\ attempts' = [attempts EXCEPT ![k] = attempts[k]]
    BY <1>0, <1>1, <1>8 DEF Apply, CirclesTyped
  <2>2. ~removed[k] \/ config'[k] = config[k]
    BY <1>0, <1>1, <1>2, <1>8 DEF MembersHold, WorkspaceFirst
  <2>3. /\ stage[k] \in {"none", "ready", "active", "completed", "failed"}
        /\ life[k] \in {"planned", "active", "review", "blocked"}
        /\ attempts[k] \in Seq({"running"} \cup Over)
    BY <1>0 DEF CirclesTyped
  <2> QED
    BY <1>0, <1>5, <2>1, <2>2, <2>3 DEF LifecycleAgrees, LastRuns
<1> QED
  BY <1>6, <1>7, <1>8

\* Every step keeps circles sound, and leaves those alone whose row stays held.
LEMMA CirclesStep ==
  ASSUME LocksInv, [Next]_vars
  PROVE  /\ CirclesTyped' /\ LifecycleAgrees' /\ LastRuns'
         /\ \A c \in Circle : row[c] # Nobody /\ row'[c] = row[c] => Undisturbed(c)
         /\ \A c \in Circle : ResultsKept(c) /\ RemovedKept(c)
<1>1. CASE UNCHANGED circles
  BY <1>1 DEF circles, LocksInv, TypeOK, CirclesTyped, LifecycleAgrees, LastRuns, Undisturbed,
              ResultsKept, RemovedKept
<1> QED
  BY <1>1, CirclesChange, ActivateKeeps, FinishKeeps, CommitKeeps

-----------------------------------------------------------------------------
(* What runners and members hold.                                          *)

\* The types of the locks and of the loops.
LEMMA LocksTyped ==
  ASSUME LocksInv, [Next]_vars
  PROVE  /\ row' \in [Circle -> Runner \cup Member \cup {Nobody}]
         /\ workspace' \in [Workspace -> Member \cup {Nobody}]
         /\ LoopsTyped'
<1>0. /\ TypeOK /\ LoopsTyped /\ row \in [Circle -> Runner \cup Member \cup {Nobody}]
      /\ workspace \in [Workspace -> Member \cup {Nobody}]
      /\ runner \in [Runner -> RunnerLoop] /\ request \in [Member -> MemberRequest]
      /\ \A r \in Runner : runner[r].pc \in {"report", "finish"} => runner[r].outcome \in Outcomes
  BY DEF LocksInv, TypeOK, LoopsTyped
<1>1. ASSUME NEW r \in Runner, Loop(r) \/ Fault(r) \/ Drop(r)
      PROVE  LoopsTyped'
  BY <1>0, <1>1, LoopMoves DEF LoopsTyped
<1>2. ASSUME NEW r \in Runner, Loop(r) \/ Fault(r) \/ Drop(r)
      PROVE  row' \in [Circle -> Runner \cup Member \cup {Nobody}] /\ workspace' = workspace
  <2>1. CASE Lease(r)
    BY <1>0, <2>1, LeaseTakes DEF Lease
  <2>2. CASE Check(r) \/ Activate(r) \/ Finish(r) \/ Drop(r) \/ Fault(r)
    BY <1>0, <2>2, RowsFreed DEF Check, Activate, Finish, Drop, Fault
  <2>3. CASE Work(r) \/ SeeCancelled(r)
    BY <1>0, <2>3 DEF Work, SeeCancelled
  <2>4. CASE Report(r)
    BY <1>0, <2>4 DEF Report
  <2> QED
    BY <1>2, <2>1, <2>2, <2>3, <2>4 DEF Loop
<1>3. ASSUME NEW m \in Member,
             BeginAdd(m) \/ BeginAction(m) \/ BeginEdit(m) \/ BeginSweep(m)
               \/ TakeWorkspace(m) \/ Ends(m)
      PROVE  /\ LoopsTyped' /\ workspace' \in [Workspace -> Member \cup {Nobody}]
             /\ row' \in [Circle -> Runner \cup Member \cup {Nobody}]
  <2>1. runner' = runner
    BY <1>3 DEF BeginAdd, BeginAction, BeginEdit, BeginSweep, TakeWorkspace, Ends
  <2>2. request' \in [Member -> MemberRequest] /\ workspace' \in [Workspace -> Member \cup {Nobody}]
    BY <1>3, RequestMoves
  <2>3. row' \in [Circle -> Runner \cup Member \cup {Nobody}]
    BY <1>0, <1>3, RowsFreed DEF BeginAdd, BeginAction, BeginEdit, BeginSweep, TakeWorkspace, Ends
  <2> QED
    BY <1>0, <2>1, <2>2, <2>3 DEF LoopsTyped
<1>4. ASSUME UNCHANGED <<row, workspace, runner, request>>
      PROVE  /\ LoopsTyped' /\ workspace' = workspace /\ row' = row
  BY <1>0, <1>4 DEF LoopsTyped
<1>5. CASE Disable \/ \E w \in Workspace :
               ChangePolicy(w) \/ \E what \in {"module", "secret"} : CheckReferences(what, w)
  BY <1>0, <1>4, <1>5 DEF Disable, ChangePolicy, CheckReferences
<1>6. CASE UNCHANGED vars
  BY <1>0, <1>4, <1>6 DEF vars
<1> QED
  BY <1>0, <1>1, <1>2, <1>3, <1>5, <1>6, VictimEnds DEF Next, Transaction, Commit, Detector

\* What one runner holds.
RunnerHolds(r) ==
  LET c == runner[r].circle  n == runner[r].attempt IN
  /\ runner[r].pc \in {"check", "activate", "finish"} => row[c] = r
  /\ runner[r].pc \in {"check", "activate"} => stage[c] = "ready"
  /\ runner[r].pc \in {"activate", "finish"} => ~removed[c]
  /\ runner[r].pc = "finish" => n \in 1 .. Len(attempts[c]) /\ attempts[c][n] = "running"

\* A runner that does not move holds what it held.
LEMMA RunnerRests ==
  ASSUME LocksInv, [Next]_vars, NEW r \in Runner, runner'[r] = runner[r]
  PROVE  RunnerHolds(r)'
<1>1. CASE runner[r].pc \notin {"check", "activate", "finish"}
  BY <1>1 DEF RunnerHolds
<1>2. CASE runner[r].pc \in {"check", "activate", "finish"}
  <2>1. PICK c \in Circle : c = runner[r].circle
    BY DEF LocksInv, LoopsTyped, RunnerLoop
  <2>2. row[c] = r /\ row[c] # Nobody
    BY <1>2, <2>1, QueueAssumption DEF LocksInv, TypeOK
  <2>3. row'[c] = r
    BY <1>2, <2>2, RowsKept, QueueAssumption
  <2>4. Undisturbed(c)
    BY <2>2, <2>3, CirclesStep
  <2> QED
    BY <2>1, <2>3, <2>4 DEF RunnerHolds, Undisturbed, LocksInv, RunnersHold
<1> QED
  BY <1>1, <1>2

\* A runner that moves has found what it holds.
LEMMA RunnerMoves ==
  ASSUME LocksInv, NEW r \in Runner, Loop(r) \/ Fault(r) \/ Drop(r)
  PROVE  RunnerHolds(r)'
<1>0. /\ runner \in [Runner -> RunnerLoop] /\ runner[r] \in RunnerLoop /\ Polling.pc = "poll"
      /\ row \in [Circle -> Runner \cup Member \cup {Nobody}] /\ RunnersHold /\ TypeOK
  BY DEF LocksInv, TypeOK, LoopsTyped, Polling
<1>1. ASSUME runner'[r].pc \notin {"check", "activate", "finish"}
      PROVE  RunnerHolds(r)'
  BY <1>1 DEF RunnerHolds
<1>2. CASE Lease(r)
  <2>1. PICK c \in Circle : /\ InQueue(c) /\ row' = [row EXCEPT ![c] = r]
                            /\ runner' = [runner EXCEPT ![r].pc = "check", ![r].circle = c]
    BY <1>2, LeaseTakes
  <2>2. runner'[r].pc = "check" /\ runner'[r].circle = c
    BY <1>0, <2>1 DEF RunnerLoop
  <2>3. row'[c] = r /\ stage'[c] = "ready"
    BY <1>0, <1>2, <2>1 DEF Lease, InQueue, circles
  <2> QED
    BY <2>2, <2>3 DEF RunnerHolds
<1>3. CASE Check(r)
  <2>1. CASE runner' = [runner EXCEPT ![r] = Polling]
    BY <1>0, <1>1, <2>1
  <2>2. CASE NodeByID(runner[r].circle) /\ runner' = [runner EXCEPT ![r].pc = "activate"] /\ row' = row
    <3>1. runner'[r].pc = "activate" /\ runner'[r].circle = runner[r].circle
      BY <1>0, <2>2 DEF RunnerLoop
    <3>2. runner[r].pc = "check" /\ stage' = stage /\ removed' = removed
      BY <1>3 DEF Check, circles
    <3> QED
      BY <1>0, <2>2, <3>1, <3>2 DEF RunnerHolds, RunnersHold, TypeOK, NodeByID
  <2> QED
    BY <1>3, <2>1, <2>2 DEF Check
<1>4. CASE Activate(r)
  <2>1. ASSUME NEW n, runner' = [runner EXCEPT ![r].pc = "work", ![r].attempt = n]
        PROVE  runner'[r].pc = "work"
    BY <1>0, <2>1 DEF RunnerLoop
  <2>2. ASSUME runner' = [runner EXCEPT ![r] = Polling]
        PROVE  runner'[r].pc = "poll"
    BY <1>0, <2>2
  <2> QED
    BY <1>1, <1>4, <2>1, <2>2 DEF Activate
<1>5. CASE Work(r)
  <2>1. PICK o : runner' = [runner EXCEPT ![r].pc = "report", ![r].outcome = o]
    BY <1>5 DEF Work
  <2>2. runner'[r].pc = "report"
    BY <1>0, <2>1 DEF RunnerLoop
  <2> QED
    BY <1>1, <2>2
<1>6. CASE Report(r)
  <2>1. CASE runner' = [runner EXCEPT ![r] = Polling]
    BY <1>0, <1>1, <2>1
  <2>2. ASSUME Found(runner[r].circle, runner[r].attempt), NodeByID(runner[r].circle),
               row' = [row EXCEPT ![runner[r].circle] = r],
               runner' = [runner EXCEPT ![r].pc = "finish"]
        PROVE  RunnerHolds(r)'
    <3>1. PICK c \in Circle : c = runner[r].circle
      BY <1>0 DEF RunnerLoop
    <3>2. /\ runner'[r].pc = "finish" /\ runner'[r].circle = c
          /\ runner'[r].attempt = runner[r].attempt
      BY <1>0, <2>2, <3>1 DEF RunnerLoop
    <3>3. row'[c] = r /\ attempts' = attempts /\ ~removed'[c]
      BY <1>0, <1>6, <2>2, <3>1 DEF Report, circles, NodeByID
    <3>4. runner[r].attempt \in 1 .. Len(attempts[c]) /\ attempts[c][runner[r].attempt] = "running"
      BY <2>2, <3>1 DEF Found, Running, Last
    <3> QED
      BY <3>2, <3>3, <3>4 DEF RunnerHolds
  <2> QED
    BY <1>6, <2>1, <2>2 DEF Report
<1>7. CASE SeeCancelled(r) \/ Finish(r) \/ Fault(r) \/ Drop(r)
  <2>1. runner'[r] = Polling
    BY <1>0, <1>7 DEF SeeCancelled, Finish, Fault, Drop
  <2> QED
    BY <1>0, <1>1, <2>1
<1> QED
  BY <1>2, <1>3, <1>4, <1>5, <1>6, <1>7 DEF Loop

\* Runners hold what they need to after every step.
LEMMA RunnersStep ==
  ASSUME LocksInv, [Next]_vars, NEW r \in Runner
  PROVE  RunnerHolds(r)'
<1>1. ASSUME NEW s \in Runner, s # r, Loop(s) \/ Fault(s) \/ Drop(s)
      PROVE  runner'[r] = runner[r]
  BY <1>1, LoopMoves
<1>2. ASSUME NEW m \in Member,
             BeginAdd(m) \/ BeginAction(m) \/ BeginEdit(m) \/ BeginSweep(m)
               \/ TakeWorkspace(m) \/ Ends(m)
      PROVE  runner' = runner
  BY <1>2 DEF BeginAdd, BeginAction, BeginEdit, BeginSweep, TakeWorkspace, Ends
<1>3. CASE Disable \/ \E w \in Workspace :
               ChangePolicy(w) \/ \E what \in {"module", "secret"} : CheckReferences(what, w)
  BY <1>3, RunnerRests DEF Disable, ChangePolicy, CheckReferences
<1>4. CASE UNCHANGED vars
  BY <1>4, RunnerRests DEF vars
<1>5. ASSUME NEW p \in Runner \cup Member, NEW m \in Member, Victim(p, m)
      PROVE  RunnerHolds(r)'
  BY <1>1, <1>2, <1>5, VictimEnds, RunnerRests, RunnerMoves
<1> QED
  BY <1>1, <1>2, <1>3, <1>4, <1>5, RunnerRests, RunnerMoves
     DEF Next, Transaction, Commit, Detector

\* What one member holds.
MemberHolds(m) ==
  LET q == request[m] IN
  /\ q.pc = "first" => q.op \in WorkspaceFirst
  /\ q.pc = "second" /\ q.op \notin WorkspaceFirst =>
       /\ row[q.circle] = m
       /\ q.op = "edit" => ~removed[q.circle]

\* A member who does not move holds what he held.
LEMMA MemberRests ==
  ASSUME LocksInv, [Next]_vars, NEW m \in Member, request'[m] = request[m]
  PROVE  MemberHolds(m)'
<1>0. MemberHolds(m) /\ request[m] \in MemberRequest
  BY DEF LocksInv, LoopsTyped, MembersHold, MemberHolds
<1>1. CASE ~(request[m].pc = "second" /\ request[m].op \notin WorkspaceFirst)
  BY <1>0, <1>1 DEF MemberHolds
<1>2. CASE request[m].pc = "second" /\ request[m].op \notin WorkspaceFirst
  <2>1. PICK c \in Circle : c = request[m].circle
    BY <1>0 DEF MemberRequest
  <2>2. row[c] = m /\ row[c] # Nobody
    BY <1>0, <1>2, <2>1, QueueAssumption DEF MemberHolds
  <2>3. row'[c] = m
    BY <1>2, <2>2, RowsKept, QueueAssumption
  <2>4. Undisturbed(c)
    BY <2>2, <2>3, CirclesStep
  <2> QED
    BY <1>0, <1>2, <2>1, <2>3, <2>4 DEF MemberHolds, Undisturbed
<1> QED
  BY <1>1, <1>2

\* A member who moves holds what the change needs.
LEMMA MemberMoves ==
  ASSUME LocksInv, NEW m \in Member,
         BeginAdd(m) \/ BeginAction(m) \/ BeginEdit(m) \/ BeginSweep(m)
               \/ TakeWorkspace(m) \/ Ends(m)
  PROVE  MemberHolds(m)'
<1>0. /\ request \in [Member -> MemberRequest] /\ request[m] \in MemberRequest /\ MemberHolds(m)
      /\ row \in [Circle -> Runner \cup Member \cup {Nobody}]
  BY DEF LocksInv, TypeOK, LoopsTyped, MembersHold, MemberHolds
<1>1. ASSUME NEW pc, NEW o, NEW c, NEW f, Begins(m, o, c, f, pc)
      PROVE  /\ request'[m] = [pc |-> pc, op |-> o, circle |-> c, config |-> f]
             /\ request'[m].pc = pc /\ request'[m].op = o /\ request'[m].circle = c
  BY <1>0, <1>1 DEF Begins
<1>2. CASE BeginAdd(m)
  <2>1. PICK c, f : Begins(m, "add", c, f, "first")
    BY <1>2 DEF BeginAdd
  <2> QED
    BY <1>1, <2>1 DEF MemberHolds, WorkspaceFirst
<1>3. CASE BeginAction(m)
  <2>1. PICK o \in WorkspaceFirst, c \in Circle : Begins(m, o, c, config[c], "second")
    BY <1>3 DEF BeginAction
  <2> QED
    BY <1>1, <2>1 DEF MemberHolds
<1>4. CASE BeginEdit(m)
  <2>1. PICK o \in Operations \ WorkspaceFirst, c \in Circle, f \in {"open", "guarded"} :
          /\ Begins(m, o, c, f, "second") /\ Allowed(request'[m])
          /\ row' = [row EXCEPT ![c] = m] /\ removed' = removed
    BY <1>4 DEF BeginEdit, circles
  <2>2. request'[m].pc = "second" /\ request'[m].op = o /\ request'[m].circle = c
    BY <1>1, <2>1
  <2>3. o = "edit" => ~removed[c]
    BY <2>1, <2>2 DEF Allowed, NodeByID
  <2>4. row'[c] = m
    BY <1>0, <2>1
  <2> QED
    BY <2>1, <2>2, <2>3, <2>4 DEF MemberHolds
<1>5. CASE BeginSweep(m)
  <2>1. PICK c : Begins(m, "sweep", c, config[c], "first")
    BY <1>5 DEF BeginSweep
  <2> QED
    BY <1>1, <2>1 DEF MemberHolds, WorkspaceFirst
<1>6. CASE TakeWorkspace(m)
  <2>1. request[m].pc = "first" /\ request' = [request EXCEPT ![m].pc = "second"]
    BY <1>6 DEF TakeWorkspace
  <2>2. request'[m].pc = "second" /\ request'[m].op = request[m].op
    BY <1>0, <2>1 DEF MemberRequest
  <2> QED
    BY <1>0, <2>1, <2>2 DEF MemberHolds
<1>7. CASE Ends(m)
  <2>1. request'[m].pc = "quiet"
    BY <1>0, <1>7 DEF Ends, Quiet
  <2> QED
    BY <2>1 DEF MemberHolds
<1> QED
  BY <1>2, <1>3, <1>4, <1>5, <1>6, <1>7

\* Members hold what they need to after every step.
LEMMA MembersStep ==
  ASSUME LocksInv, [Next]_vars, NEW m \in Member
  PROVE  MemberHolds(m)'
<1>1. ASSUME NEW r \in Runner, Loop(r) \/ Fault(r) \/ Drop(r)
      PROVE  request' = request
  BY <1>1, LoopMoves
<1>2. ASSUME NEW n \in Member, n # m,
             BeginAdd(n) \/ BeginAction(n) \/ BeginEdit(n) \/ BeginSweep(n)
               \/ TakeWorkspace(n) \/ Ends(n)
      PROVE  request'[m] = request[m]
  BY <1>2, RequestMoves
<1>3. CASE Disable \/ \E w \in Workspace :
               ChangePolicy(w) \/ \E what \in {"module", "secret"} : CheckReferences(what, w)
  BY <1>3, MemberRests DEF Disable, ChangePolicy, CheckReferences
<1>4. CASE UNCHANGED vars
  BY <1>4, MemberRests DEF vars
<1>5. ASSUME NEW p \in Runner \cup Member, NEW n \in Member, Victim(p, n)
      PROVE  MemberHolds(m)'
  BY <1>1, <1>2, <1>5, VictimEnds, MemberRests, MemberMoves
<1> QED
  BY <1>1, <1>2, <1>3, <1>4, <1>5, MemberRests, MemberMoves
     DEF Next, Transaction, Commit, Detector

-----------------------------------------------------------------------------
(* The queue.                                                              *)

\* In the beginning nothing is held and no attempt has been made.
LEMMA LocksInit == Init => LocksInv
<1> SUFFICES ASSUME Init PROVE LocksInv
  OBVIOUS
<1>1. PICK b \in Scenarios :
        /\ stage = [c \in Circle |-> IF b.config[c] = "none" THEN "none" ELSE "ready"]
        /\ config = [c \in Circle |-> IF b.config[c] = "none" THEN "open" ELSE b.config[c]]
  BY DEF Init
<1>2. /\ life = [c \in Circle |-> "planned"] /\ removed = [c \in Circle |-> FALSE]
      /\ attempts = [c \in Circle |-> <<>>]
      /\ row = [c \in Circle |-> Nobody] /\ workspace = [w \in Workspace |-> Nobody]
      /\ runner = [r \in Runner |-> Polling] /\ request = [m \in Member |-> Quiet]
  BY DEF Init
<1>3. \A c \in Circle : b.config[c] \in {"none", "open", "guarded"}
  BY ScenarioAssumption
<1>4. Polling \in RunnerLoop /\ Polling.pc = "poll"
  BY QueueAssumption DEF Polling, RunnerLoop, Circle
<1>5. Quiet \in MemberRequest /\ Quiet.pc = "quiet"
  BY QueueAssumption DEF Quiet, MemberRequest, Circle
<1>6. TypeOK
  BY <1>1, <1>2, <1>3, <1>4 DEF TypeOK
<1>7. LoopsTyped
  BY <1>2, <1>4, <1>5 DEF LoopsTyped
<1>8. LifecycleAgrees /\ LastRuns
  BY <1>1, <1>2, <1>3 DEF LifecycleAgrees, LastRuns
<1>9. RunnersHold /\ MembersHold
  BY <1>2, <1>4, <1>5 DEF RunnersHold, MembersHold
<1> QED
  BY <1>6, <1>7, <1>8, <1>9 DEF LocksInv

\* No step of anybody breaks it.
LEMMA LocksStep ==
  ASSUME LocksInv, [Next]_vars
  PROVE  LocksInv'
<1>1. CirclesTyped' /\ LifecycleAgrees' /\ LastRuns'
  BY CirclesStep
<1>2. /\ row' \in [Circle -> Runner \cup Member \cup {Nobody}]
      /\ workspace' \in [Workspace -> Member \cup {Nobody}] /\ LoopsTyped'
  BY LocksTyped
<1>3. RunnersHold' /\ \A r \in Runner : runner'[r].pc \in {"check", "activate", "finish"} =>
                                          row'[runner'[r].circle] = r
  BY RunnersStep DEF RunnersHold, RunnerHolds
<1>4. MembersHold'
  BY MembersStep DEF MembersHold, MemberHolds
<1>5. TypeOK'
  BY <1>1, <1>2, <1>3 DEF TypeOK, CirclesTyped
<1> QED
  BY <1>1, <1>2, <1>3, <1>4, <1>5 DEF LocksInv

\* The attempts that run are the last one of an active stage, or none.
LEMMA OneRuns ==
  ASSUME LocksInv
  PROVE  OneRunningAttempt
<1> SUFFICES ASSUME NEW c \in Circle
             PROVE  Cardinality({n \in 1 .. Last(c) : Running(c, n)}) =
                      IF stage[c] = "active" THEN 1 ELSE 0
  BY DEF OneRunningAttempt
<1>1. /\ Last(c) \in Nat
      /\ stage[c] = "active" => Last(c) > 0
      /\ \A n \in 1 .. Last(c) : Running(c, n) <=> stage[c] = "active" /\ n = Last(c)
  <2>1. Len(attempts[c]) \in Nat
    BY LenProperties DEF LocksInv, TypeOK
  <2> QED
    BY <2>1 DEF LocksInv, LastRuns, Running, Last
<1>2. CASE stage[c] = "active"
  <2>1. {n \in 1 .. Last(c) : Running(c, n)} = {Last(c)}
    <3>1. Last(c) \in 1 .. Last(c) /\ Running(c, Last(c))
      BY <1>1, <1>2
    <3>2. \A n \in 1 .. Last(c) : Running(c, n) => n = Last(c)
      BY <1>1
    <3> QED
      BY <3>1, <3>2
  <2> QED
    BY <1>2, <2>1, FS_Singleton
<1>3. CASE stage[c] # "active"
  <2>1. {n \in 1 .. Last(c) : Running(c, n)} = {}
    BY <1>1, <1>3
  <2> QED
    BY <1>3, <2>1, FS_EmptySet
<1> QED
  BY <1>2, <1>3

\* Runners that poll at once, members who edit, cancel, retry and return, lost
\* calls, deadlocks, and removals of branches that circles have just joined: an
\* active stage has one attempt that runs and no other stage has any, and stage and
\* node agree.
THEOREM QueueInvariant == Spec => []QueueInv
<1>1. LocksInv /\ [Next]_vars => LocksInv'
  BY LocksStep
<1>2. LocksInv => QueueInv
  BY OneRuns DEF LocksInv, QueueInv
<1> QED
  BY <1>1, <1>2, LocksInit, PTL DEF Spec

\* A late report, a second report or a cancellation leaves the result of an
\* attempt that is over; only a requester returns one that succeeded.
THEOREM LateResultsRejected == Spec => ResultsStand
<1>1. LocksInv /\ [Next]_vars => LocksInv'
  BY LocksStep
<1>2. LocksInv /\ [Next]_vars =>
        [\A c \in Circle : \A n \in 1 .. Last(c) :
           attempts[c][n] \in Over =>
             \/ attempts'[c][n] = attempts[c][n]
             \/ attempts[c][n] = "succeeded" /\ attempts'[c][n] = "returned"]_vars
  BY CirclesStep DEF ResultsKept, Last
<1> QED
  BY <1>1, <1>2, LocksInit, PTL DEF Spec, ResultsStand

\* What is removed is left alone until it is restored, by the runner that has leased
\* or is reporting it and by members, although a removal may catch a circle that is
\* at work.
THEOREM RemovedLeftAlone == Spec => RemovedStands
<1>1. LocksInv /\ [Next]_vars => LocksInv'
  BY LocksStep
<1>2. LocksInv /\ [Next]_vars =>
        [\A c \in Circle : removed[c] /\ removed'[c] =>
           /\ stage'[c] = stage[c] /\ life'[c] = life[c]
           /\ config'[c] = config[c] /\ attempts'[c] = attempts[c]]_vars
  BY CirclesStep DEF RemovedKept
<1> QED
  BY <1>1, <1>2, LocksInit, PTL DEF Spec, RemovedStands
=============================================================================

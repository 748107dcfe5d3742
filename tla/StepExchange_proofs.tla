------------------------- MODULE StepExchange_proofs -------------------------
(***************************************************************************)
(* Proofs about StepExchange for any set of members, any promises in use   *)
(* and any bound on the attempts: the invariants of the run, and that an   *)
(* assigned stage starts as the winner's.                                  *)
(***************************************************************************)
EXTENDS StepExchange, SequenceTheorems, FiniteSetTheorems, TLAPS

Indices == 1..Len(attempts)

\* The lifecycle of the node follows the stage: it is active with the stage or
\* with the one before it, and in review or closed once the stage is completed.
PhasesAgree ==
  /\ status = "active" => lifecycle = "active"
  /\ lifecycle = "active" => status \in {"pending", "active"}
  /\ status = "completed" <=> lifecycle \in {"review", "closed"}
  /\ status \in {"pending", "ready"} <=> claimedBy = Nobody

\* The attempt that runs is the last one, it is the holder's, and it runs as
\* long as the stage is active.
RunningIsLast ==
  /\ status = "active" =>
       /\ Len(attempts) \in Indices
       /\ attempts[Len(attempts)].status = "running"
  /\ \A i \in Indices :
       attempts[i].status = "running" => status = "active" /\ i = Len(attempts)

\* A result stands only while the stage is completed.
ResultsWithdrawn ==
  status # "completed" => \A i \in Indices : attempts[i].status # "succeeded"

RoundsInv ==
  /\ ExchangeInv
  /\ PhasesAgree
  /\ RunningIsLast
  /\ ResultsWithdrawn
  /\ StatisticsReproducible

-----------------------------------------------------------------------------
(* The attempts as a sequence.                                             *)

\* A function on an initial interval is a sequence of its length.
LEMMA Interval ==
  ASSUME NEW S, NEW n \in Nat, NEW seq \in [1..n -> S]
  PROVE  seq \in Seq(S) /\ Len(seq) = n
<1>1. seq \in Seq(S)
  BY SeqDef
<1>2. Len(seq) \in Nat /\ 1..Len(seq) = 1..n
  BY <1>1, LenProperties
<1> QED
  BY <1>1, <1>2

\* A claim adds the new attempt behind the others.
LEMMA Started ==
  ASSUME TypeOK, NEW actor \in Actors, Claim(actor)
  PROVE  /\ attempts' \in Seq(Attempt)
         /\ Len(attempts) \in Nat
         /\ Len(attempts') = Len(attempts) + 1
         /\ attempts'[Len(attempts')] = [by |-> actor, bidder |-> selectedBid,
                                         promise |-> AgreedPromise, status |-> "running"]
         /\ \A i \in Indices : i \in Indices' /\ attempts'[i] = attempts[i]
         /\ \A i \in Indices' : i \in Indices \/ i = Len(attempts')
<1> DEFINE new == [by |-> actor, bidder |-> selectedBid,
                   promise |-> AgreedPromise, status |-> "running"]
<1>1. attempts \in Seq(Attempt) /\ Len(attempts) \in Nat
  BY LenProperties DEF TypeOK
<1>2. new \in Attempt
  BY DEF TypeOK, Attempt, AgreedPromise
<1>3. attempts' = Append(attempts, new)
  BY DEF Claim
<1> HIDE DEF new
<1>4. /\ attempts' \in Seq(Attempt)
      /\ Len(attempts') = Len(attempts) + 1
      /\ \A i \in Indices : attempts'[i] = attempts[i]
      /\ attempts'[Len(attempts) + 1] = new
  BY <1>1, <1>2, <1>3, AppendProperties DEF Indices
<1> QED
  BY <1>1, <1>4 DEF Indices, new

\* A submission ends the last attempt, and only this one.
LEMMA Finished ==
  ASSUME TypeOK, RunningIsLast, NEW actor \in Actors, Submit(actor)
  PROVE  /\ attempts' \in Seq(Attempt)
         /\ Len(attempts') = Len(attempts)
         /\ Len(attempts) \in Indices
         /\ \A i \in Indices :
              /\ attempts'[i].by = attempts[i].by
              /\ attempts'[i].bidder = attempts[i].bidder
              /\ attempts'[i].promise = attempts[i].promise
              /\ attempts'[i].status = IF i = Len(attempts) THEN "succeeded" ELSE attempts[i].status
<1>1. /\ attempts \in [Indices -> Attempt]
      /\ Len(attempts) \in Indices /\ Len(attempts) \in Nat
  BY LenProperties DEF TypeOK, Indices, Submit, RunningIsLast
<1>2. /\ DOMAIN attempts' = Indices
      /\ \A i \in Indices : attempts'[i] = IF i = Len(attempts)
                                             THEN [attempts[i] EXCEPT !.status = "succeeded"]
                                             ELSE attempts[i]
  BY <1>1 DEF Submit
<1>3. \A i \in Indices : attempts'[i] \in Attempt
  BY <1>1, <1>2 DEF Attempt
<1>4. attempts' \in [1..Len(attempts) -> Attempt]
  BY <1>1, <1>2, <1>3 DEF Indices, Submit
<1>5. attempts' \in Seq(Attempt) /\ Len(attempts') = Len(attempts)
  BY <1>1, <1>4, Interval
<1> QED
  BY <1>1, <1>2, <1>5 DEF Attempt

\* An opening takes the results back.
LEMMA Reopened ==
  ASSUME TypeOK, NEW s, NEW result \in {"returned", "superseded"}, OpenAgain(s, result)
  PROVE  /\ attempts' \in Seq(Attempt)
         /\ Len(attempts') = Len(attempts)
         /\ \A i \in Indices :
              /\ attempts'[i].by = attempts[i].by
              /\ attempts'[i].bidder = attempts[i].bidder
              /\ attempts'[i].promise = attempts[i].promise
              /\ attempts'[i].status = IF attempts[i].status = "succeeded"
                                         THEN result ELSE attempts[i].status
<1>1. attempts \in [Indices -> Attempt] /\ Len(attempts) \in Nat
  BY LenProperties DEF TypeOK, Indices
<1>2. attempts' = [i \in Indices |-> IF attempts[i].status = "succeeded"
                                       THEN [attempts[i] EXCEPT !.status = result]
                                       ELSE attempts[i]]
  BY DEF OpenAgain, Indices
<1>3. \A i \in Indices : attempts'[i] \in Attempt
  BY <1>1, <1>2 DEF Attempt
<1>4. attempts' \in [1..Len(attempts) -> Attempt]
  BY <1>2, <1>3 DEF Indices
<1>5. attempts' \in Seq(Attempt) /\ Len(attempts') = Len(attempts)
  BY <1>1, <1>4, Interval
<1> QED
  BY <1>1, <1>2, <1>5 DEF Attempt

-----------------------------------------------------------------------------
(* The invariants.                                                         *)

\* Nothing has been asked for, promised or worked.
LEMMA RoundsInit == Init => RoundsInv
<1> SUFFICES ASSUME Init
             PROVE  RoundsInv
  OBVIOUS
<1>1. attempts = <<>> /\ attempts \in Seq(Attempt) /\ Len(attempts) = 0 /\ Indices = {}
  BY EmptySeq DEF Init, Indices
<1>2. TypeOK
  BY <1>1, ExchangeAssumption DEF Init, TypeOK, BidStatus
<1>3. ASSUME NEW a \in Actors
      PROVE  observations[a] = Cardinality(FinishedUnderPromise(a))
  <2>1. FinishedUnderPromise(a) = {}
    BY <1>1 DEF FinishedUnderPromise, Indices
  <2> QED
    BY <2>1, FS_EmptySet DEF Init
<1> QED
  BY <1>1, <1>2, <1>3 DEF Init, RoundsInv, ExchangeInv, AssignedToWinner, AgreementStands,
       PhasesAgree, RunningIsLast, ResultsWithdrawn, StatisticsReproducible

\* Policy and bids leave the stage and its attempts alone.
LEMMA PolicyAside ==
  ASSUME Policy
  PROVE  UNCHANGED <<stageVars, bidVars, workVars>>
  BY DEF Policy, SetWorkspaceMode, UpdateStep, AddRequirement, ProfilesChange, bidVars

\* A selection takes one of the active bids.
LEMMA WinnerIsBidder ==
  ASSUME NEW winner \in Shortest
  PROVE  winner \in Actors /\ bidStatus[winner] = "active"
  BY DEF Shortest, Bidders

\* No transaction writes a value outside the columns' ranges.
LEMMA TypeStep ==
  ASSUME TypeOK, RunningIsLast, [Next]_vars
  PROVE  TypeOK'
<1> USE DEF TypeOK, stageVars, policyVars, bidVars, workVars
<1>1. CASE Policy
  BY <1>1, ExchangeAssumption DEF Policy, SetWorkspaceMode, UpdateStep, AddRequirement, ProfilesChange
<1>2. CASE Bidding
  <2>1. ASSUME NEW a \in Actors, NEW m \in Promises, Bid(a, m)
        PROVE  TypeOK'
    BY <2>1 DEF Bid, BidStatus
  <2>2. ASSUME NEW a \in Actors, Withdraw(a)
        PROVE  TypeOK'
    BY <2>2 DEF Withdraw, BidStatus
  <2>3. CASE Select
    <3>1. PICK winner \in Shortest : /\ bidStatus' = BidsClosed(winner)
                                     /\ claimedBy' = winner
                                     /\ selectedBid' = winner
      BY <2>3 DEF Select
    <3>2. bidStatus' \in [Actors -> BidStatus]
      BY <3>1 DEF BidsClosed, BidStatus
    <3> QED
      BY <2>3, <3>1, <3>2, WinnerIsBidder DEF Select
  <2> QED
    BY <1>2, <2>1, <2>2, <2>3 DEF Bidding
<1>3. ASSUME NEW a \in Actors, Claim(a)
      PROVE  TypeOK'
  BY <1>3, Started DEF Claim
<1>4. ASSUME NEW a \in Actors, Submit(a)
      PROVE  TypeOK'
  <2>1. observations' \in [Actors -> Nat]
    <3>1. attempts' \in Seq(Attempt) /\ Len(attempts') \in Nat
      BY <1>4, Finished, LenProperties
    <3>2. IsFiniteSet(1..Len(attempts'))
      BY <3>1, FS_Interval
    <3> DEFINE latest == {i \in Promised(attempts') : \A j \in Promised(attempts') : j <= i}
    <3>3. ASSUME NEW x \in Actors
          PROVE  Cardinality({i \in latest : attempts'[i].by = x}) \in Nat
      <4>1. {i \in latest : attempts'[i].by = x} \in SUBSET (1..Len(attempts'))
        BY DEF Promised
      <4>2. IsFiniteSet({i \in latest : attempts'[i].by = x})
        BY <3>2, <4>1, FS_Subset
      <4> QED
        BY <4>2, FS_CardinalityType
    <3>4. observations' = [x \in Actors |-> observations[x] + Cardinality({i \in latest : attempts'[i].by = x})]
      BY <1>4 DEF Submit, Observed
    <3> HIDE DEF latest
    <3> QED
      BY <3>3, <3>4
  <2> QED
    BY <1>4, <2>1, Finished DEF Submit
<1>5. ASSUME NEW s \in {"ready", "pending"}, NEW result \in {"returned", "superseded"},
             OpenAgain(s, result)
      PROVE  TypeOK'
  BY <1>5, Reopened DEF OpenAgain
<1>6. CASE PriorClaim \/ PriorSubmit \/ Close
  BY <1>6 DEF PriorClaim, PriorSubmit, Close
<1>7. CASE UNCHANGED vars
  BY <1>7 DEF vars
<1> QED
  BY <1>1, <1>2, <1>3, <1>4, <1>5, <1>6, <1>7 DEF Next, Work, Return, ReturnPrior, Reopen

\* Node and stage move together.
LEMMA PhasesStep ==
  ASSUME TypeOK, PhasesAgree, [Next]_vars
  PROVE  PhasesAgree'
<1> USE DEF TypeOK, PhasesAgree, stageVars
<1>1. CASE Policy \/ UNCHANGED vars
  BY <1>1, PolicyAside DEF vars
<1>2. CASE Bidding
  BY <1>2, WinnerIsBidder, ExchangeAssumption DEF Bidding, Bid, Withdraw, Select, BiddingOpen
<1>3. CASE Work
  BY <1>3, ExchangeAssumption
  DEF Work, PriorClaim, PriorSubmit, Claim, Submit, Close, Return, ReturnPrior, Reopen, OpenAgain
<1> QED
  BY <1>1, <1>2, <1>3 DEF Next

\* An attempt runs from the claim to the submission, and results are withdrawn
\* when the stage is opened again.
LEMMA AttemptsStep ==
  ASSUME TypeOK, PhasesAgree, RunningIsLast, ResultsWithdrawn, [Next]_vars
  PROVE  RunningIsLast' /\ ResultsWithdrawn'
<1> USE DEF RunningIsLast, ResultsWithdrawn, stageVars, workVars
<1>1. CASE Policy \/ UNCHANGED vars
  BY <1>1, PolicyAside DEF vars, Indices
<1>2. CASE Bidding
  BY <1>2 DEF Bidding, Bid, Withdraw, Select, BiddingOpen, Indices
<1>3. ASSUME NEW a \in Actors, Claim(a)
      PROVE  RunningIsLast' /\ ResultsWithdrawn'
  BY <1>3, Started DEF Claim, Indices
<1>4. ASSUME NEW a \in Actors, Submit(a)
      PROVE  RunningIsLast' /\ ResultsWithdrawn'
  BY <1>4, Finished DEF Submit, Indices
<1>5. ASSUME NEW s \in {"ready", "pending"}, NEW result \in {"returned", "superseded"},
             OpenAgain(s, result), status = "completed"
      PROVE  RunningIsLast' /\ ResultsWithdrawn'
  BY <1>5, Reopened DEF OpenAgain, Indices
<1>6. CASE PriorClaim \/ PriorSubmit \/ Close
  BY <1>6 DEF PriorClaim, PriorSubmit, Close, PhasesAgree, Indices
<1> QED
  BY <1>1, <1>2, <1>3, <1>4, <1>5, <1>6 DEF Next, Work, Return, ReturnPrior, Reopen, PhasesAgree

\* A selection gives the stage to its winner and closes every bid; until the
\* claim, nothing reopens the bidding.
LEMMA WinnerHolds ==
  ASSUME TypeOK, PhasesAgree, AssignedToWinner, [Next]_vars
  PROVE  AssignedToWinner'
<1> USE DEF TypeOK, AssignedToWinner, Bidders, stageVars, bidVars
<1>1. CASE Policy \/ UNCHANGED vars
  BY <1>1, PolicyAside DEF vars
<1>2. ASSUME NEW a \in Actors, NEW m \in Promises, Bid(a, m)
      PROVE  AssignedToWinner'
  BY <1>2 DEF Bid, BiddingOpen
<1>3. ASSUME NEW a \in Actors, Withdraw(a)
      PROVE  AssignedToWinner'
  BY <1>3 DEF Withdraw
<1>4. CASE Select
  <2>1. PICK winner \in Shortest : /\ bidStatus' = BidsClosed(winner)
                                   /\ claimedBy' = winner
                                   /\ selectedBid' = winner
    BY <1>4 DEF Select
  <2>2. \A b \in Actors : bidStatus'[b] = CASE b = winner -> "won"
                                            [] b \in Bidders \ {winner} -> "lost"
                                            [] OTHER -> bidStatus[b]
    BY <2>1 DEF BidsClosed
  <2>3. \A b \in Actors : bidStatus'[b] # "active"
    BY <2>2
  <2> QED
    BY <2>1, <2>2, <2>3, WinnerIsBidder
<1>5. CASE Work
  BY <1>5 DEF Work, PriorClaim, PriorSubmit, Claim, Submit, Close, Return, ReturnPrior, Reopen,
              OpenAgain, PhasesAgree
<1> QED
  BY <1>1, <1>2, <1>3, <1>4, <1>5 DEF Next, Bidding

\* The claim takes over what the selected bid promises, and no bid is placed
\* before the submission.
LEMMA AgreementHolds ==
  ASSUME TypeOK, PhasesAgree, RunningIsLast, AgreementStands, [Next]_vars
  PROVE  AgreementStands'
<1> USE DEF AgreementStands, stageVars, bidVars, workVars
<1>1. CASE Policy \/ UNCHANGED vars
  BY <1>1, PolicyAside DEF vars
<1>2. CASE Bidding
  BY <1>2 DEF Bidding, Bid, Withdraw, Select, BiddingOpen
<1>3. ASSUME NEW a \in Actors, Claim(a)
      PROVE  AgreementStands'
  BY <1>3, Started DEF Claim, AgreedPromise
<1>4. CASE PriorClaim \/ PriorSubmit \/ Close \/ \E a \in Actors : Submit(a)
  BY <1>4 DEF PriorClaim, PriorSubmit, Close, Submit, PhasesAgree
<1>5. CASE Return \/ ReturnPrior \/ Reopen
  BY <1>5 DEF Return, ReturnPrior, Reopen, OpenAgain
<1> QED
  BY <1>1, <1>2, <1>3, <1>4, <1>5 DEF Next, Work

-----------------------------------------------------------------------------
(* The statistics.                                                         *)

\* What an actor finished is a finite set of attempts.
LEMMA FinishedFinite ==
  ASSUME TypeOK, NEW a
  PROVE  IsFiniteSet(FinishedUnderPromise(a))
<1>1. IsFiniteSet(1..Len(attempts))
  BY LenProperties, FS_Interval DEF TypeOK
<1>2. FinishedUnderPromise(a) \in SUBSET (1..Len(attempts))
  BY DEF FinishedUnderPromise
<1> QED
  BY <1>1, <1>2, FS_Subset

\* A submission finds no other result standing: the attempt it enters into the
\* statistics is the one it ends, if that one has a promise.
LEMMA OneObservation ==
  ASSUME TypeOK, RunningIsLast, ResultsWithdrawn, NEW actor \in Actors, Submit(actor),
         NEW a \in Actors
  PROVE  LET ends == attempts[Len(attempts)]
             counted == IF ends.promise # NoPromise /\ ends.by = a THEN {Len(attempts)} ELSE {}
         IN /\ observations'[a] = observations[a] + Cardinality(counted)
            /\ FinishedUnderPromise(a)' = FinishedUnderPromise(a) \cup counted
            /\ Len(attempts) \notin FinishedUnderPromise(a)
<1> DEFINE last == Len(attempts)
           counted == IF attempts[last].promise # NoPromise /\ attempts[last].by = a
                        THEN {last} ELSE {}
           latest == {i \in Promised(attempts') : \A j \in Promised(attempts') : j <= i}
<1>1. /\ last \in Nat /\ last \in Indices
      /\ Len(attempts') = last
      /\ status = "active"
  BY Finished, LenProperties DEF TypeOK, Submit
<1>2. \A i \in Indices :
        /\ attempts'[i].by = attempts[i].by
        /\ attempts'[i].promise = attempts[i].promise
        /\ attempts'[i].status = IF i = last THEN "succeeded" ELSE attempts[i].status
        /\ attempts[i].status # "succeeded"
        /\ i # last => attempts[i].status # "running"
        /\ i = last => attempts[i].status = "running"
  BY <1>1, Finished DEF RunningIsLast, ResultsWithdrawn
<1>3. Promised(attempts') = IF attempts[last].promise # NoPromise THEN {last} ELSE {}
  BY <1>1, <1>2 DEF Promised, Indices
<1>4. latest = Promised(attempts')
  BY <1>1, <1>3
<1>5. {i \in latest : attempts'[i].by = a} = counted
  BY <1>1, <1>2, <1>3, <1>4
<1>6. observations'[a] = observations[a] + Cardinality({i \in latest : attempts'[i].by = a})
  BY DEF Submit, Observed
<1>7. FinishedUnderPromise(a)' = FinishedUnderPromise(a) \cup counted
  BY <1>1, <1>2 DEF FinishedUnderPromise, Indices
<1>8. last \notin FinishedUnderPromise(a)
  BY <1>1, <1>2 DEF FinishedUnderPromise
<1> QED
  BY <1>5, <1>6, <1>7, <1>8

\* Every submission under a promise counts once; returns keep what was counted.
LEMMA StatisticsStep ==
  ASSUME TypeOK, PhasesAgree, RunningIsLast, ResultsWithdrawn, StatisticsReproducible,
         [Next]_vars
  PROVE  StatisticsReproducible'
<1> SUFFICES ASSUME NEW a \in Actors
             PROVE  observations'[a] = Cardinality(FinishedUnderPromise(a)')
  BY DEF StatisticsReproducible
<1>1. observations[a] = Cardinality(FinishedUnderPromise(a)) /\ observations[a] \in Nat
  BY DEF StatisticsReproducible, TypeOK
<1>2. CASE UNCHANGED workVars
  BY <1>1, <1>2 DEF FinishedUnderPromise, workVars
<1>3. ASSUME NEW actor \in Actors, Claim(actor)
      PROVE  observations'[a] = Cardinality(FinishedUnderPromise(a)')
  <2>1. attempts'[Len(attempts')] = [by |-> actor, bidder |-> selectedBid,
                                     promise |-> AgreedPromise, status |-> "running"]
    BY <1>3, Started
  <2>2. attempts'[Len(attempts')].status = "running"
    BY <2>1
  <2>3. \A i \in Indices' : attempts'[i].status # "running" => i \in Indices
    BY <1>3, <2>2, Started
  <2>4. \A i \in Indices : i \in Indices' /\ attempts'[i] = attempts[i]
    BY <1>3, Started
  <2>5. FinishedUnderPromise(a)' = FinishedUnderPromise(a)
    BY <2>3, <2>4 DEF FinishedUnderPromise, Indices
  <2> QED
    BY <1>1, <1>3, <2>5 DEF Claim
<1>4. ASSUME NEW actor \in Actors, Submit(actor)
      PROVE  observations'[a] = Cardinality(FinishedUnderPromise(a)')
  <2>1. /\ IsFiniteSet(FinishedUnderPromise(a))
        /\ Cardinality({}) = 0
        /\ Cardinality({Len(attempts)}) = 1
        /\ FinishedUnderPromise(a) \cup {} = FinishedUnderPromise(a)
    BY FinishedFinite, FS_EmptySet, FS_Singleton
  <2>2. Len(attempts) \notin FinishedUnderPromise(a)
    BY <1>4, OneObservation
  <2>3. Cardinality(FinishedUnderPromise(a) \cup {Len(attempts)})
          = Cardinality(FinishedUnderPromise(a)) + 1
    BY <2>1, <2>2, FS_AddElement
  <2>4. CASE attempts[Len(attempts)].promise # NoPromise /\ attempts[Len(attempts)].by = a
    <3>1. /\ observations'[a] = observations[a] + Cardinality({Len(attempts)})
          /\ FinishedUnderPromise(a)' = FinishedUnderPromise(a) \cup {Len(attempts)}
      BY <1>4, <2>4, OneObservation
    <3> QED
      BY <1>1, <2>1, <2>3, <3>1
  <2>5. CASE ~(attempts[Len(attempts)].promise # NoPromise /\ attempts[Len(attempts)].by = a)
    <3>1. /\ observations'[a] = observations[a] + Cardinality({})
          /\ FinishedUnderPromise(a)' = FinishedUnderPromise(a) \cup {}
      BY <1>4, <2>5, OneObservation
    <3> QED
      BY <1>1, <2>1, <3>1
  <2> QED
    BY <2>4, <2>5
<1>5. ASSUME NEW s \in {"ready", "pending"}, NEW result \in {"returned", "superseded"},
             OpenAgain(s, result)
      PROVE  observations'[a] = Cardinality(FinishedUnderPromise(a)')
  <2>1. FinishedUnderPromise(a)' = FinishedUnderPromise(a)
    BY <1>5, Reopened DEF FinishedUnderPromise, Indices
  <2> QED
    BY <1>1, <1>5, <2>1 DEF OpenAgain
<1>6. CASE Policy
  BY <1>2, <1>6, PolicyAside
<1>7. CASE Bidding \/ PriorClaim \/ PriorSubmit \/ Close \/ UNCHANGED vars
  BY <1>2, <1>7 DEF Bidding, Bid, Withdraw, Select, PriorClaim, PriorSubmit, Close, vars
<1> QED
  BY <1>3, <1>4, <1>5, <1>6, <1>7 DEF Next, Work, Return, ReturnPrior, Reopen

-----------------------------------------------------------------------------
(* The theorems.                                                           *)

\* The invariant is inductive.
LEMMA RoundsStep ==
  ASSUME RoundsInv, [Next]_vars
  PROVE  RoundsInv'
  BY TypeStep, PhasesStep, AttemptsStep, WinnerHolds, AgreementHolds, StatisticsStep
  DEF RoundsInv, ExchangeInv

\* The inductive invariant holds in every state: the invariants of the run,
\* the phases of node and stage, and one running attempt at most.
THEOREM RoundsInvariant == Spec => []RoundsInv
  BY RoundsInit, RoundsStep, PTL DEF Spec

\* docs/task-exchange.md:61-68: the stage is the winner's from the selection
\* on, and the attempt that runs is measured by the promise its bid shows.
THEOREM ExchangeInvariant == Spec => []ExchangeInv
<1>1. RoundsInv => ExchangeInv
  BY DEF RoundsInv
<1> QED
  BY <1>1, RoundsInvariant, PTL

\* docs/task-exchange.md:85: for any number of rounds and actors, the counters
\* equal what the attempts tell.
THEOREM Reproducible == Spec => []StatisticsReproducible
<1>1. RoundsInv => StatisticsReproducible
  BY DEF RoundsInv
<1> QED
  BY <1>1, RoundsInvariant, PTL

\* An assigned stage starts, and then as the attempt of the winner under the
\* winner's promise.
THEOREM WinnerStartsAssigned == Spec => WinnerStarts
<1> DEFINE Starts == status = "assigned" /\ status' # "assigned" =>
                       LET started == attempts'[Len(attempts')] IN
                       /\ status' = "active"
                       /\ started.by = claimedBy
                       /\ started.bidder = claimedBy
                       /\ started.promise = promise[claimedBy]
<1>1. RoundsInv /\ [Next]_vars => [Starts]_vars
  <2> SUFFICES ASSUME RoundsInv, Next, status = "assigned", status' # "assigned"
               PROVE  Starts
    OBVIOUS
  <2>1. PICK a \in Actors : Claim(a)
    BY PolicyAside DEF Next, stageVars, Bidding, Bid, Withdraw, Select, BiddingOpen, Work,
       PriorClaim, PriorSubmit, Submit, Close, Return, ReturnPrior, Reopen, OpenAgain,
       RoundsInv, PhasesAgree
  <2> QED
    BY <2>1, Started, ExchangeAssumption
    DEF RoundsInv, ExchangeInv, AssignedToWinner, Claim, MayClaim, AgreedPromise
<1> QED
  BY <1>1, RoundsInvariant, PTL DEF Spec, WinnerStarts
=============================================================================

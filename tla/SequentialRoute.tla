--------------------------- MODULE SequentialRoute ---------------------------
(***************************************************************************)
(* What a Task circle promises to the people who look at it, with no rows, *)
(* no positions and no attempts: a route of length stages of which the     *)
(* first done are completed, and one phase.  Work happens on stage done+1  *)
(* and nowhere else, and acceptance comes after the last stage.            *)
(***************************************************************************)
EXTENDS Naturals

VARIABLES
  length,   \* number of stages of the route
  done,     \* number of completed stages, which are its first ones
  phase     \* what the circle waits for

Phase == {"idle",      \* nothing is offered: the route has no current stage
          "offered",   \* stage done+1 waits for a performer
          "working",   \* stage done+1 is being performed
          "stopped",   \* stage done+1 failed or was cancelled
          "review",    \* the requester decides on the result
          "closed"}    \* the result is accepted

TypeOK ==
  /\ length \in Nat
  /\ done \in 0..length
  /\ phase \in Phase

Init == length = 0 /\ done = 0 /\ phase = "idle"

Editable == phase \in {"idle", "offered"}

\* The first stage of a circle is offered at once, a later one waits.
AddStage ==
  /\ Editable
  /\ length' = length + 1
  /\ phase' = IF length = 0 THEN "offered" ELSE phase
  /\ UNCHANGED done

RemoveCompletedStage ==
  /\ Editable
  /\ done > 0
  /\ length' = length - 1
  /\ done' = done - 1
  /\ UNCHANGED phase

RemoveWaitingStage ==
  /\ Editable
  /\ length > done + (IF phase = "offered" THEN 1 ELSE 0)
  /\ length' = length - 1
  /\ UNCHANGED <<done, phase>>

\* Nothing takes the place of the current stage.
RemoveOfferedStage ==
  /\ phase = "offered"
  /\ length' = length - 1
  /\ phase' = "idle"
  /\ UNCHANGED done

StartWork ==
  /\ phase = "offered"
  /\ phase' = "working"
  /\ UNCHANGED <<length, done>>

FinishWork ==
  /\ phase = "working"
  /\ done' = done + 1
  /\ phase' = IF done' < length THEN "offered" ELSE "review"
  /\ UNCHANGED length

StopWork ==
  /\ phase = "working"
  /\ phase' = "stopped"
  /\ UNCHANGED <<length, done>>

RetryWork ==
  /\ phase = "stopped"
  /\ phase' = "offered"
  /\ UNCHANGED <<length, done>>

Accept ==
  /\ phase = "review"
  /\ phase' = "closed"
  /\ UNCHANGED <<length, done>>

\* The work goes back to any of the completed stages.
ReturnWork ==
  /\ phase = "review"
  /\ done' \in 0..(length - 1)
  /\ phase' = "offered"
  /\ UNCHANGED length

ReopenWork ==
  /\ phase = "closed"
  /\ done' = length - 1
  /\ phase' = "offered"
  /\ UNCHANGED length

Next ==
  \/ AddStage \/ RemoveCompletedStage \/ RemoveWaitingStage \/ RemoveOfferedStage
  \/ StartWork \/ FinishWork \/ StopWork \/ RetryWork
  \/ Accept \/ ReturnWork \/ ReopenWork

Spec == Init /\ [][Next]_<<length, done, phase>>
=============================================================================

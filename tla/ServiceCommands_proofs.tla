------------------------ MODULE ServiceCommands_proofs ------------------------
(***************************************************************************)
(* Proofs about ServiceCommands for any numbers of requests, keys and      *)
(* contents and any bound on the revision: the four invariants of the run, *)
(* and that the interleaved statements implement IdempotentCreate.         *)
(***************************************************************************)
EXTENDS ServiceCommands, TLAPS

\* A request has its command from its first statement on, and its answer from
\* its last one.
PhasesAgree ==
  \A r \in Requests :
    /\ command[r] = Nothing <=> pc[r] = "idle"
    /\ answer[r] = "none" <=> pc[r] # "done"

CommandInv ==
  /\ TypeOK
  /\ PhasesAgree
  /\ LocksHeld
  /\ OneNodePerKey
  /\ RevisionsDistinct

\* No request has been sent, nothing is held, nothing committed.
LEMMA CommandInit == Init => CommandInv
  BY CommandAssumption
  DEF Init, CommandInv, TypeOK, PhasesAgree, LocksHeld, OneNodePerKey, RevisionsDistinct

\* Once begun, a request has a command, and its key is one of the keys.
LEMMA BegunHasCommand ==
  ASSUME TypeOK, PhasesAgree, NEW r \in Requests, pc[r] # "idle"
  PROVE  /\ command[r] \in Command
         /\ Key(r) \in Keys
  BY DEF TypeOK, PhasesAgree, Key, Command

\* The end of one request leaves the locks of the others alone, and never
\* gives a lock to anybody.
LEMMA FinishFrees ==
  ASSUME TypeOK, NEW r \in Requests, NEW a, Finish(r, a)
  PROVE  /\ \A q \in Requests : q # r => pc'[q] = pc[q] /\ answer'[q] = answer[q]
         /\ pc'[r] = "done" /\ answer'[r] = a
         /\ \A k \in Keys : keyLock[k] # r => keyLock'[k] = keyLock[k]
         /\ rowLock # r => rowLock' = rowLock
  BY DEF TypeOK, Finish

-----------------------------------------------------------------------------
(* Types.                                                                  *)

\* An answer and freed locks have their types.
LEMMA FinishTypes ==
  ASSUME TypeOK, NEW r \in Requests,
         NEW a \in {"created", "lost", "replayed", "reused", "stale", "notFound", "failed"},
         Finish(r, a)
  PROVE  /\ pc' \in [Requests -> {"idle", "begun", "locked", "new", "advanced", "inserted", "done"}]
         /\ answer' \in [Requests -> {"none", "created", "lost", "replayed", "reused",
                                      "stale", "notFound", "failed"}]
         /\ keyLock' \in [Keys -> Requests \cup {Nobody}]
         /\ rowLock' \in Requests \cup {Others, Nobody}
  BY DEF TypeOK, Finish

\* Every statement keeps the types; a commit stores the content of a command.
LEMMA TypeStep ==
  ASSUME TypeOK, PhasesAgree, LocksHeld, [Next]_vars
  PROVE  TypeOK'
<1> USE DEF TypeOK, committed, locks
<1>1. ASSUME NEW r \in Requests, NEW k \in Keys, NEW c \in Contents, Begin(r, k, c)
      PROVE  TypeOK'
  BY <1>1 DEF Begin, Command
<1>2. ASSUME NEW r \in Requests, LockKey(r)
      PROVE  TypeOK'
  BY <1>2 DEF LockKey, TakeKey
<1>3. ASSUME NEW r \in Requests, Lookup(r)
      PROVE  TypeOK'
  <2>1. CASE pc' = [pc EXCEPT ![r] = "new"] /\ UNCHANGED <<locks, answer>>
    BY <1>3, <2>1 DEF Lookup
  <2>2. ASSUME NEW a \in {"replayed", "reused"}, Finish(r, a)
        PROVE  TypeOK'
    BY <1>3, <2>2, FinishTypes DEF Lookup
  <2> QED
    BY <1>3, <2>1, <2>2 DEF Lookup
<1>4. ASSUME NEW r \in Requests, Advance(r)
      PROVE  TypeOK'
  <2>1. CASE TakeRow(r) /\ pc' = [pc EXCEPT ![r] = "advanced"] /\ UNCHANGED <<keyLock, answer>>
    BY <1>4, <2>1 DEF Advance, TakeRow
  <2>2. CASE Finish(r, "stale")
    BY <1>4, <2>2, FinishTypes DEF Advance
  <2> QED
    BY <1>4, <2>1, <2>2 DEF Advance
<1>5. ASSUME NEW r \in Requests, Insert(r)
      PROVE  TypeOK'
  <2>1. CASE pc' = [pc EXCEPT ![r] = "inserted"] /\ UNCHANGED <<locks, answer>>
    BY <1>5, <2>1 DEF Insert
  <2>2. CASE Finish(r, "notFound")
    BY <1>5, <2>2, FinishTypes DEF Insert
  <2> QED
    BY <1>5, <2>1, <2>2 DEF Insert
<1>6. ASSUME NEW r \in Requests, Commit(r)
      PROVE  TypeOK'
  <2>1. command[r] \in Command /\ Key(r) \in Keys
    BY <1>6, BegunHasCommand DEF Commit
  <2>2. PICK a \in {"created", "lost", "failed"} : Finish(r, a)
    BY <1>6 DEF Commit
  <2>3. /\ results' \in [Keys -> Result \cup {Nothing}]
        /\ revision' \in Nat
        /\ nodes' \subseteq [by : Requests, key : Keys, revision : Nat]
    <3>1. CASE UNCHANGED committed
      BY <3>1
    <3>2. CASE /\ SaveResult(r)
               /\ revision' = expected[r] + 1
               /\ nodes' = nodes \cup {[by |-> r, key |-> Key(r), revision |-> expected[r] + 1]}
      BY <2>1, <3>2 DEF SaveResult, Result, Command
    <3> QED
      BY <1>6, <3>1, <3>2 DEF Commit
  <2> QED
    BY <1>6, <2>2, <2>3, FinishTypes DEF Commit
<1>7. ASSUME NEW r \in Requests, Abort(r)
      PROVE  TypeOK'
  BY <1>7, FinishTypes DEF Abort
<1>8. CASE OtherBegins
  BY <1>8 DEF OtherBegins
<1>9. CASE OtherEnds
  BY <1>9 DEF OtherEnds
<1>10. CASE UNCHANGED vars
  BY <1>10 DEF vars
<1> QED
  BY <1>1, <1>2, <1>3, <1>4, <1>5, <1>6, <1>7, <1>8, <1>9, <1>10 DEF Next, Quiet

-----------------------------------------------------------------------------
(* The invariants.                                                         *)

\* Every statement keeps command and answer in step with the transaction.
LEMMA PhasesStep ==
  ASSUME TypeOK, PhasesAgree, [Next]_vars
  PROVE  PhasesAgree'
<1> USE DEF TypeOK, PhasesAgree
<1>1. ASSUME NEW r \in Requests, NEW k \in Keys, NEW c \in Contents, Begin(r, k, c)
      PROVE  PhasesAgree'
  BY <1>1, CommandAssumption DEF Begin
<1>2. ASSUME NEW r \in Requests, LockKey(r) \/ Lookup(r) \/ Advance(r) \/ Insert(r)
      PROVE  PhasesAgree'
  BY <1>2 DEF LockKey, Lookup, Advance, Insert, Finish
<1>3. ASSUME NEW r \in Requests, Commit(r) \/ Abort(r)
      PROVE  PhasesAgree'
  BY <1>3 DEF Commit, Abort, Finish
<1>4. CASE OtherBegins \/ OtherEnds \/ UNCHANGED vars
  BY <1>4 DEF OtherBegins, OtherEnds, vars
<1> QED
  BY <1>1, <1>2, <1>3, <1>4 DEF Next, Quiet

\* What one request has to hold for its place in the transaction.
Holds(r) ==
  /\ pc[r] \in {"locked", "new", "advanced", "inserted"} => keyLock[Key(r)] = r
  /\ pc[r] \in {"new", "advanced", "inserted"} => results[Key(r)] = Nothing
  /\ pc[r] \in {"advanced", "inserted"} => rowLock = r /\ revision = expected[r]

\* A statement of one request takes nothing from another one: what the other
\* holds is not free, and the rows it relies on are those it holds.
LEMMA OthersKeepHolding ==
  ASSUME TypeOK, PhasesAgree, LocksHeld, [Next]_vars,
         NEW q \in Requests, pc'[q] = pc[q], pc[q] # "idle", pc[q] # "done"
  PROVE  Holds(q)'
<1> USE DEF TypeOK, Holds
<1>1. Holds(q) /\ Key(q) \in Keys
  BY BegunHasCommand DEF LocksHeld
<1>2. ASSUME NEW r \in Requests, NEW k \in Keys, NEW c \in Contents, Begin(r, k, c)
      PROVE  Holds(q)'
  BY <1>1, <1>2 DEF Begin, Key, locks, committed
<1>3. ASSUME NEW r \in Requests, NEW a, Finish(r, a), UNCHANGED <<command, expected>>, q # r
      PROVE  /\ keyLock[Key(q)] = q => keyLock'[Key(q)] = q
             /\ rowLock = q => rowLock' = q
             /\ Key(q)' = Key(q)
  BY <1>1, <1>3 DEF Finish, Key
<1>4. ASSUME NEW r \in Requests, LockKey(r)
      PROVE  Holds(q)'
  BY <1>1, <1>4, CommandAssumption DEF LockKey, TakeKey, Key, committed
<1>5. ASSUME NEW r \in Requests, Lookup(r) \/ Insert(r) \/ Abort(r)
      PROVE  Holds(q)'
  <2>1. q # r
    BY <1>5 DEF Lookup, Insert, Abort, Finish
  <2>2. UNCHANGED <<command, expected, committed>>
    BY <1>5 DEF Lookup, Insert, Abort
  <2>3. CASE UNCHANGED locks
    BY <1>1, <2>2, <2>3 DEF locks, committed, Key
  <2>4. ASSUME NEW a, Finish(r, a)
        PROVE  Holds(q)'
    BY <1>1, <1>3, <2>1, <2>2, <2>4 DEF committed
  <2> QED
    BY <1>5, <2>3, <2>4 DEF Lookup, Insert, Abort
<1>6. ASSUME NEW r \in Requests, Advance(r)
      PROVE  Holds(q)'
  <2>1. q # r
    BY <1>6 DEF Advance, Finish
  <2>2. CASE TakeRow(r) /\ UNCHANGED keyLock
    BY <1>1, <1>6, <2>2, CommandAssumption DEF Advance, TakeRow, committed, Key
  <2>3. CASE Finish(r, "stale")
    BY <1>1, <1>3, <1>6, <2>1, <2>3 DEF Advance, committed
  <2> QED
    BY <1>6, <2>2, <2>3 DEF Advance
<1>7. ASSUME NEW r \in Requests, Commit(r)
      PROVE  Holds(q)'
  <2>1. q # r
    BY <1>7 DEF Commit, Finish
  <2>2. PICK a : Finish(r, a)
    BY <1>7 DEF Commit
  <2>3. rowLock = r /\ keyLock[Key(r)] = r /\ Key(r) \in Keys
    BY <1>7, BegunHasCommand DEF Commit, LocksHeld
  <2>4. pc[q] \notin {"advanced", "inserted"}
    BY <1>1, <2>1, <2>3
  <2>5. CASE UNCHANGED committed
    BY <1>1, <1>3, <1>7, <2>1, <2>2, <2>4, <2>5 DEF Commit, committed
  <2>6. CASE SaveResult(r)
    <3>1. pc[q] \in {"locked", "new"} => Key(q) # Key(r)
      BY <1>1, <2>1, <2>3
    <3> QED
      BY <1>1, <1>3, <1>7, <2>1, <2>2, <2>4, <2>6, <3>1 DEF Commit, SaveResult
  <2> QED
    BY <1>7, <2>5, <2>6 DEF Commit
<1>8. CASE OtherBegins \/ OtherEnds
  BY <1>1, <1>8, CommandAssumption DEF OtherBegins, OtherEnds, committed, Key
<1>9. CASE UNCHANGED vars
  BY <1>1, <1>9 DEF vars, locks, committed, Key
<1> QED
  BY <1>2, <1>4, <1>5, <1>6, <1>7, <1>8, <1>9 DEF Next, Quiet

\* A statement is passed only with the lock it needs.
LEMMA LocksStep ==
  ASSUME TypeOK, PhasesAgree, LocksHeld, [Next]_vars
  PROVE  LocksHeld'
<1> SUFFICES ASSUME NEW q \in Requests
             PROVE  Holds(q)'
  BY DEF LocksHeld, Holds
<1> USE DEF TypeOK
<1>1. CASE pc'[q] \in {"idle", "begun", "done"}
  BY <1>1 DEF Holds
<1>2. CASE pc'[q] = pc[q]
  BY <1>1, <1>2, OthersKeepHolding
<1>3. CASE pc'[q] # pc[q] /\ pc'[q] \notin {"idle", "begun", "done"}
  <2>1. LockKey(q) \/ Lookup(q) \/ Advance(q) \/ Insert(q)
    BY <1>3 DEF Next, Quiet, vars, Begin, LockKey, Lookup, Advance, Insert, Commit, Abort,
                OtherBegins, OtherEnds, Finish
  <2>2. Holds(q) /\ Key(q) \in Keys
    BY <2>1, BegunHasCommand DEF LocksHeld, Holds, LockKey, Lookup, Advance, Insert
  <2>3. CASE LockKey(q)
    BY <2>2, <2>3 DEF Holds, LockKey, TakeKey, Key, committed
  <2>4. CASE Lookup(q) \/ Insert(q)
    BY <1>3, <2>2, <2>4 DEF Holds, Lookup, Insert, Finish, Key, locks, committed
  <2>5. CASE Advance(q)
    BY <1>3, <2>2, <2>5 DEF Holds, Advance, TakeRow, Finish, Key, committed
  <2> QED
    BY <2>1, <2>3, <2>4, <2>5
<1> QED
  BY <1>1, <1>2, <1>3 DEF TypeOK

\* Only a commit touches the committed rows and the revision of a creation.
LEMMA CommittedStep ==
  ASSUME TypeOK, [Next]_vars
  PROVE  \/ UNCHANGED <<results, nodes>> /\ revision' \in {revision, revision + 1}
         \/ \E r \in Requests :
              /\ Commit(r)
              /\ results[Key(r)] = Nothing
              /\ SaveResult(r)
              /\ revision' = expected[r] + 1
              /\ nodes' = nodes \cup {[by |-> r, key |-> Key(r), revision |-> expected[r] + 1]}
  BY DEF Next, Quiet, vars, committed, Begin, LockKey, Lookup, Advance, Insert, Commit, Abort,
         OtherBegins, OtherEnds

\* A commit finds its key unused and its revision current, and uses both up.
LEMMA EffectsStep ==
  ASSUME TypeOK, PhasesAgree, LocksHeld, OneNodePerKey, RevisionsDistinct, [Next]_vars
  PROVE  OneNodePerKey' /\ RevisionsDistinct'
<1> USE DEF TypeOK
<1>1. CASE UNCHANGED <<results, nodes>> /\ revision' \in {revision, revision + 1}
  BY <1>1 DEF OneNodePerKey, RevisionsDistinct
<1>2. ASSUME NEW r \in Requests, Commit(r), results[Key(r)] = Nothing, SaveResult(r),
             revision' = expected[r] + 1,
             nodes' = nodes \cup {[by |-> r, key |-> Key(r), revision |-> expected[r] + 1]}
      PROVE  OneNodePerKey' /\ RevisionsDistinct'
  <2> DEFINE new == [by |-> r, key |-> Key(r), revision |-> expected[r] + 1]
  <2>1. command[r] \in Command /\ Key(r) \in Keys /\ revision = expected[r]
    BY <1>2, BegunHasCommand DEF Commit, LocksHeld
  <2>2. \A n \in nodes : n.key # Key(r) /\ n.revision < expected[r] + 1 /\ n.revision \in Nat
    BY <1>2, <2>1 DEF OneNodePerKey, RevisionsDistinct
  <2>3. [content |-> command[r].content, node |-> r] \in Result
    BY <2>1 DEF Result, Command
  <2>4. \A k \in Keys : results'[k] = IF k = Key(r) THEN [content |-> command[r].content, node |-> r] ELSE results[k]
    BY <1>2, <2>1 DEF SaveResult
  <2>5. \A n \in nodes' : n = new \/ n \in nodes
    BY <1>2
  <2>6. OneNodePerKey'
    BY <2>1, <2>2, <2>3, <2>4, <2>5, CommandAssumption DEF OneNodePerKey, Result
  <2>7. RevisionsDistinct'
    BY <1>2, <2>1, <2>2, <2>5 DEF RevisionsDistinct
  <2> QED
    BY <2>6, <2>7
<1> QED
  BY <1>1, <1>2, CommittedStep

\* The invariant is inductive.
LEMMA CommandStep ==
  ASSUME CommandInv, [Next]_vars
  PROVE  CommandInv'
  BY TypeStep, PhasesStep, LocksStep, EffectsStep DEF CommandInv

\* The inductive invariant holds in every state: the types, the phases, the
\* locks of every transaction and what has been committed.
THEOREM CommandInvariant == Spec => []CommandInv
  BY CommandInit, CommandStep, PTL DEF Spec

\* A retried, repeated or concurrent command creates one node, the one its
\* stored result names (docs/api-access.md:30).
THEOREM CreatesOnce == Spec => []OneNodePerKey
<1>1. CommandInv => OneNodePerKey
  BY DEF CommandInv
<1> QED
  BY <1>1, CommandInvariant, PTL

\* Requests, locks, results and nodes keep to their types; results name requests.
THEOREM CommandsTyped == Spec => []TypeOK
<1>1. CommandInv => TypeOK
  BY DEF CommandInv
<1> QED
  BY <1>1, CommandInvariant, PTL

\* Creations that pass the revision precondition exclude each other.
THEOREM PreconditionExcludes == Spec => []RevisionsDistinct
<1>1. CommandInv => RevisionsDistinct
  BY DEF CommandInv
<1> QED
  BY <1>1, CommandInvariant, PTL

-----------------------------------------------------------------------------
(* The refinement.                                                         *)

\* The promise starts where the code starts.
LEMMA AtomicInit == Init => Atomic!Init
  BY DEF Init, Atomic!Init

\* Each statement is invisible to the account, or it is the one at which its
\* request takes effect.
LEMMA AtomicStep ==
  ASSUME CommandInv, [Next]_vars
  PROVE  [Atomic!Next]_(Atomic!vars)
<1> USE DEF Atomic!vars
<1>1. ASSUME NEW r \in Requests, NEW k \in Keys, NEW c \in Contents, Begin(r, k, c)
      PROVE  Atomic!Send(r, k, c)
  BY <1>1 DEF Begin, Atomic!Send, CommandInv, PhasesAgree, committed
<1>2. ASSUME NEW r \in Requests, pc[r] \notin {"idle", "done"}
      PROVE  Atomic!Open(r)
  BY <1>2 DEF Atomic!Open, CommandInv, PhasesAgree
<1>3. ASSUME NEW r \in Requests, Lookup(r)
      PROVE  Atomic!Repeat(r) \/ UNCHANGED Atomic!vars
  BY <1>2, <1>3 DEF Lookup, Finish, SameContent, Key, Atomic!Repeat, committed
<1>4. ASSUME NEW r \in Requests, Advance(r) \/ Insert(r)
      PROVE  Atomic!Refuse(r) \/ UNCHANGED Atomic!vars
  BY <1>2, <1>4 DEF Advance, Insert, Finish, Key, Atomic!Refuse, CommandInv, LocksHeld, committed
<1>5. ASSUME NEW r \in Requests, Commit(r)
      PROVE  Atomic!Create(r) \/ Atomic!Fail(r)
  BY <1>2, <1>5 DEF Commit, SaveResult, Finish, Key, Atomic!Create, Atomic!Fail, committed
<1>6. ASSUME NEW r \in Requests, Abort(r)
      PROVE  Atomic!Fail(r)
  BY <1>2, <1>6 DEF Abort, Finish, Atomic!Fail, committed
<1>7. ASSUME NEW r \in Requests, LockKey(r)
      PROVE  UNCHANGED Atomic!vars
  BY <1>7 DEF LockKey, committed
<1>8. CASE OtherBegins \/ OtherEnds \/ UNCHANGED vars
  BY <1>8 DEF OtherBegins, OtherEnds, vars, committed
<1> QED
  BY <1>1, <1>3, <1>4, <1>5, <1>6, <1>7, <1>8 DEF Next, Quiet, Atomic!Next

\* docs/api-access.md:30: whatever the interleaving of the statements, the
\* account sees commands that are executed one after the other, each key once.
THEOREM Refines == Spec => ImplementsIdempotentCreate
  BY AtomicInit, AtomicStep, CommandInvariant, PTL
  DEF Spec, ImplementsIdempotentCreate, Atomic!Spec
=============================================================================

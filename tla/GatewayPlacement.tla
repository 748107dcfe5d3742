---------------------------- MODULE GatewayPlacement ----------------------------
(***************************************************************************)
(* How the gateway brings one external item into the tree: the candidate   *)
(* row, the administrators who place or retry it, the retry workers of all *)
(* replicas, and the calls to the server, which may be answered late or    *)
(* never.  Every statement on the gateway's database is a step, because    *)
(* none of these operations holds a row from its first read to its last    *)
(* write.                                                                  *)
(*                                                                         *)
(* The server is what ServiceCommands shows it to be: a call takes effect  *)
(* in one step, once for its idempotency key, for one content.             *)
(***************************************************************************)
EXTENDS Naturals

CONSTANTS
  Callers,      \* goroutines of the gateways: requests and retry workers
  Versions,     \* versions of the item that differ in title or text
  Parents,      \* branches of the tree
  Nobody,       \* no lease
  Nothing,      \* NULL; no result stored
  MaxAttempts,  \* gateway_candidates.max_attempts
  MaxOps        \* bound on placements, retries, new versions and crashes

ASSUME PlacementAssumption ==
  /\ Nobody \notin Callers
  /\ Nothing \notin Parents \cup Versions \cup Nat \cup {"set"}
  /\ Nothing \notin [version : Versions, node : Nat]
  /\ Nothing \notin [version : Versions, parent : Parents, node : Nat]
  /\ MaxAttempts \in Nat \ {0}
  /\ MaxOps \in Nat

VARIABLES
  \* the row of gateway_candidates
  version,   \* external_version, with title and description
  status,    \* status; "unplaced" stands for suggested too
  parent,    \* placement_parent_id
  node,      \* work_graph_node_id
  attempts,  \* attempt_count
  next,      \* next_attempt_at: NULL, or a time that comes
  lease,     \* the worker whose lease next_attempt_at is
  mapping,   \* the row of gateway_mappings
  \* the callers
  pc,        \* where a caller is
  item,      \* the version and the parent it works with
  reply,     \* the node the server answered
  seen,      \* the attempt_count it has read
  \* the server
  transit,   \* calls on their way to the server
  stored,    \* the stored result of each idempotency key
  made,      \* the number of nodes created for the item
  ops        \* operations begun, new versions and crashes

row == <<version, status, parent, node, attempts, next, lease, mapping>>
caller == <<pc, item, reply, seen>>
server == <<stored, made>>
vars == <<row, caller, transit, server, ops>>

\* createNativeNode: the key of a call names the item and not its version.
Key == "create"

\* Seeded fault: the key of a call names the version as well.
KeyOfVersion(v) == v

KeyOf(v) == Key

Init ==
  /\ version \in Versions
  /\ status = "unplaced"
  /\ parent = Nothing /\ node = Nothing /\ mapping = Nothing
  /\ attempts = 0 /\ next = Nothing /\ lease = Nobody
  /\ pc = [c \in Callers |-> "idle"]
  /\ item = [c \in Callers |-> Nothing]
  /\ reply = [c \in Callers |-> Nothing]
  /\ seen = [c \in Callers |-> 0]
  /\ transit = {}
  /\ stored = [k \in {Key} \cup Versions |-> Nothing]
  /\ made = 0
  /\ ops = 0

Goes(c, place) == pc' = [pc EXCEPT ![c] = place]

Counted == ops < MaxOps /\ ops' = ops + 1

-----------------------------------------------------------------------------
(* upsertCandidate                                                         *)

\* Seeded fault: a new version makes a placed item a candidate again, to be
\* placed anew.
Anew == status' = "unplaced" /\ node' = Nothing

ReviewAgain ==
  /\ status' = IF status = "placed" THEN "placed" ELSE "unplaced"
  /\ UNCHANGED node

\* A version arrives.  The row was compared with it by an earlier statement, when it
\* may have had another one or not been there: what is written may be older than the
\* version of the row, or the same.  What is delivered stays so; anything else is for
\* review again.  next_attempt_at is cleared in either case.
Ingest(v) ==
  /\ Counted
  /\ version' = v
  /\ ReviewAgain
  /\ attempts' = IF status = "placed" THEN attempts ELSE 0
  /\ next' = Nothing /\ lease' = Nobody
  /\ UNCHANGED <<parent, mapping, caller, transit, server>>

-----------------------------------------------------------------------------
(* placeCandidate, up to the call                                          *)

\* The candidate is read; one that has its node is answered at once.
Place(c, p) ==
  /\ pc[c] = "idle" /\ node = Nothing
  /\ Counted
  /\ item' = [item EXCEPT ![c] = [version |-> version, parent |-> p]]
  /\ Goes(c, "chosen")
  /\ UNCHANGED <<row, reply, seen, transit, server>>

\* Seeded fault: the chosen parent is not written before the call.
NotRemembered(c) == UNCHANGED parent

SaveParent(c) == parent' = item[c].parent

Remember(c) ==
  /\ pc[c] = "chosen"
  /\ SaveParent(c)
  /\ Goes(c, "ready")
  /\ UNCHANGED <<version, status, node, attempts, next, lease, mapping,
                 item, reply, seen, transit, server, ops>>

-----------------------------------------------------------------------------
(* retryCandidate                                                          *)

Retry(c) ==
  /\ pc[c] = "idle" /\ node = Nothing /\ parent # Nothing
  /\ Counted
  /\ Goes(c, "retrying")
  /\ UNCHANGED <<row, item, reply, seen, transit, server>>

\* The update asks nothing of what was read.
Reschedule(c) ==
  /\ pc[c] = "retrying"
  /\ status' = "retrying" /\ attempts' = 0
  /\ next' = "set" /\ lease' = Nobody
  /\ Goes(c, "idle")
  /\ UNCHANGED <<version, parent, node, mapping, item, reply, seen, transit, server, ops>>

-----------------------------------------------------------------------------
(* processDueRetry, up to the call                                         *)

\* The two calls of a placement time out after 15 seconds each, the lease
\* after 45: it cannot end while its holder calls.
LeaseOver == \A c \in Callers : lease = c => pc[c] \notin {"ready", "sent"}

Claim(c) ==
  /\ pc[c] = "idle"
  /\ status = "retrying" /\ next # Nothing /\ LeaseOver
  /\ next' = "set" /\ lease' = c
  /\ item' = [item EXCEPT ![c] = [version |-> version, parent |-> parent]]
  /\ Goes(c, IF parent = Nothing THEN "failed" ELSE "ready")
  /\ UNCHANGED <<version, status, parent, node, attempts, mapping,
                 reply, seen, transit, server, ops>>

-----------------------------------------------------------------------------
(* commitPlacement                                                         *)

Call(c) == [by |-> c, version |-> item[c].version, parent |-> item[c].parent]

Send(c) ==
  /\ pc[c] = "ready"
  /\ transit' = transit \cup {Call(c)}
  /\ Goes(c, "sent")
  /\ UNCHANGED <<row, item, reply, seen, server, ops>>

\* The call could not be sent, or 15 seconds are over.  A call on its way
\* stays on its way, and its answer will find nobody.
GiveUp(c) ==
  /\ pc[c] \in {"ready", "sent"}
  /\ transit' = {IF m.by = c THEN [m EXCEPT !.by = Nobody] ELSE m : m \in transit}
  /\ Goes(c, "failed")
  /\ UNCHANGED <<row, item, reply, seen, server, ops>>

Answers(m, answer) ==
  IF m.by = Nobody
    THEN UNCHANGED <<pc, reply>>
    ELSE /\ Goes(m.by, IF answer = Nothing THEN "failed" ELSE "answered")
         /\ reply' = [reply EXCEPT ![m.by] = answer]

\* The server creates the node, or refuses to (the revision has moved on, the
\* parent is gone), or repeats what the key has stored if the content agrees.
Serve(m) ==
  LET result == stored[KeyOf(m.version)]
      created == [version |-> m.version, parent |-> m.parent, node |-> made + 1]
  IN
  /\ m \in transit
  /\ transit' = transit \ {m}
  /\ \/ /\ result = Nothing
        /\ stored' = [stored EXCEPT ![KeyOf(m.version)] = created]
        /\ made' = made + 1
        /\ Answers(m, created.node)
     \/ /\ result = Nothing
        /\ Answers(m, Nothing)
        /\ UNCHANGED server
     \/ /\ result # Nothing
        /\ Answers(m, IF result.version = m.version /\ result.parent = m.parent
                        THEN result.node ELSE Nothing)
        /\ UNCHANGED server
  /\ UNCHANGED <<row, item, seen, ops>>

\* Seeded fault: the mapping takes the version of the row and not the one that
\* was sent.
VersionOfRow(c) == version

VersionSent(c) == item[c].version

\* Mapping and candidate change in one transaction.  The row is read again
\* afterwards, and an error of either counts as a failed placement.
Store(c) ==
  /\ pc[c] = "answered"
  /\ \/ /\ mapping' = [version |-> VersionSent(c), node |-> reply[c]]
        /\ status' = "placed" /\ node' = reply[c]
        /\ next' = Nothing /\ lease' = Nobody
        /\ Goes(c, "idle") \/ Goes(c, "failed")
     \/ /\ Goes(c, "failed")
        /\ UNCHANGED <<mapping, status, node, next, lease>>
  /\ UNCHANGED <<version, parent, attempts, item, reply, seen, transit, server, ops>>

-----------------------------------------------------------------------------
(* recordPlacementFailure                                                  *)

ReadAttempts(c) ==
  /\ pc[c] = "failed"
  /\ seen' = [seen EXCEPT ![c] = attempts]
  /\ Goes(c, "counting")
  /\ UNCHANGED <<row, item, reply, transit, server, ops>>

\* Seeded fault: the failed attempt is not counted.
NotCounted(c) == seen[c]

Attempt(c) == seen[c] + 1

Exhausted(c) == Attempt(c) >= MaxAttempts

\* The update asks nothing of the row as it is by now.
WriteFailure(c) ==
  /\ pc[c] = "counting"
  /\ attempts' = Attempt(c)
  /\ status' = IF Exhausted(c) THEN "dead_letter" ELSE "retrying"
  /\ next' = IF Exhausted(c) THEN Nothing ELSE "set"
  /\ lease' = Nobody
  /\ Goes(c, "idle")
  /\ UNCHANGED <<version, parent, node, mapping, item, reply, seen, transit, server, ops>>

-----------------------------------------------------------------------------
\* The gateway stops, the client hangs up or the database refuses the next
\* statement: the operation ends where it is.
Crash(c) ==
  /\ pc[c] # "idle"
  /\ Counted
  /\ transit' = {IF m.by = c THEN [m EXCEPT !.by = Nobody] ELSE m : m \in transit}
  /\ Goes(c, "idle")
  /\ UNCHANGED <<row, item, reply, seen, server>>

\* The item has its node or waits for a person, and nobody works on it.
Resting ==
  /\ \A c \in Callers : pc[c] = "idle"
  /\ status # "retrying"
  /\ UNCHANGED vars

Step(c) ==
  \/ Remember(c) \/ Reschedule(c)
  \/ Send(c) \/ GiveUp(c) \/ Store(c)
  \/ ReadAttempts(c) \/ WriteFailure(c)

Next ==
  \/ \E v \in Versions : Ingest(v)
  \/ \E c \in Callers, p \in Parents : Place(c, p)
  \/ \E c \in Callers : Retry(c) \/ Claim(c) \/ Step(c) \/ Crash(c)
  \/ \E m \in transit : Serve(m)
  \/ Resting

Spec == Init /\ [][Next]_vars

\* A call ends after 15 seconds and a goroutine goes on after it; the ticker of
\* the workers looks for due candidates every two seconds.
Fairness ==
  /\ \A c \in Callers : WF_vars(Step(c))
  /\ WF_vars(\E c \in Callers : Claim(c))

FairSpec == Spec /\ Fairness

-----------------------------------------------------------------------------
(* Properties.                                                             *)

TypeOK ==
  /\ version \in Versions
  /\ status \in {"unplaced", "placed", "retrying", "dead_letter"}
  /\ parent \in Parents \cup {Nothing}
  /\ node \in Nat \cup {Nothing}
  /\ attempts \in Nat
  /\ next \in {"set", Nothing}
  /\ lease \in Callers \cup {Nobody}
  /\ mapping \in [version : Versions, node : Nat] \cup {Nothing}
  /\ pc \in [Callers -> {"idle", "chosen", "ready", "sent", "answered", "retrying",
                         "failed", "counting"}]
  /\ item \in [Callers -> [version : Versions, parent : Parents \cup {Nothing}] \cup {Nothing}]
  /\ reply \in [Callers -> Nat \cup {Nothing}]
  /\ seen \in [Callers -> Nat]
  /\ transit \subseteq [by : Callers \cup {Nobody}, version : Versions, parent : Parents]
  /\ stored \in [{Key} \cup Versions -> [version : Versions, parent : Parents, node : Nat] \cup {Nothing}]
  /\ made \in Nat
  /\ ops \in 0..MaxOps

\* createNativeNode, commitPlacement: with late answers, repeated calls and
\* several workers the item has one node, and the row and the mapping name it.
OneNode ==
  /\ made <= 1
  /\ node # Nothing <=> mapping # Nothing
  /\ node # Nothing => stored[Key] # Nothing /\ node = stored[Key].node /\ node = mapping.node

\* commitPlacement: the mapping tells the version whose text the node was
\* created with, although newer versions arrive during the call.
MappingTellsContent ==
  mapping # Nothing => stored[Key] # Nothing /\ mapping.version = stored[Key].version

\* upsertCandidate, recordPlacementFailure: what was placed is never forgotten.
NodeKept == [][node # Nothing => node' = node]_vars

\* processDueRetry: a candidate waits for its retry only with a parent to
\* place it under, so errMissingPlacementParent is never met, and only with a
\* time at which the worker finds it.
RetryIsPossible ==
  status = "retrying" => parent # Nothing /\ next # Nothing

\* Types, and what the retry worker relies on.
PlacementInv == TypeOK /\ RetryIsPossible

\* docs/integration-gateway.md:58: retrying ends, with the node or with a dead
\* letter, whatever is lost and whoever crashes.
RetriesEnd == status = "retrying" ~> status # "retrying"
=============================================================================

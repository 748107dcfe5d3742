---------------------------- MODULE ServiceCommands ----------------------------
(***************************************************************************)
(* createNode for service accounts: the transaction of one request, one    *)
(* statement per action, with the locks it takes on its idempotency key    *)
(* and on the workspace row, against other requests of the same account    *)
(* and against other changes of the workspace.                             *)
(*                                                                         *)
(* A retry is another request with the same key; its content is the same,  *)
(* or not.  The precondition is a revision the account has read before.    *)
(***************************************************************************)
EXTENDS Naturals, FiniteSets

CONSTANTS
  Requests,     \* the requests of one service account
  Keys,         \* idempotency keys
  Contents,     \* request contents, as far as the fingerprint tells them apart
  Nothing,      \* no row, no command, no node
  Nobody,       \* a lock that is free
  Others,       \* the other writers of the workspace
  MaxRevision   \* bound on the workspace revision

ASSUME CommandAssumption ==
  /\ Nobody \notin Requests \cup {Others}
  /\ Others \notin Requests
  /\ Nothing \notin Requests
  /\ Nothing \notin [key : Keys, content : Contents]
  /\ Nothing \notin [content : Contents, node : Requests]
  /\ MaxRevision \in Nat \ {0}

VARIABLES
  command,    \* the key and content of a request
  expected,   \* the revision of its If-Match header
  pc,         \* the statement its transaction has reached
  keyLock,    \* holder of the advisory lock of a key
  rowLock,    \* holder of the row lock of the workspace
  revision,   \* workspaces.revision, as committed
  results,    \* the rows of service_command_results, as committed
  nodes,      \* the nodes that were created, with their revision
  answer      \* the response the account received

locks == <<keyLock, rowLock>>
committed == <<revision, results, nodes>>
vars == <<command, expected, pc, locks, committed, answer>>

Init ==
  /\ command = [r \in Requests |-> Nothing]
  /\ expected = [r \in Requests |-> 0]
  /\ pc = [r \in Requests |-> "idle"]
  /\ keyLock = [k \in Keys |-> Nobody]
  /\ rowLock = Nobody
  /\ revision = 1
  /\ results = [k \in Keys |-> Nothing]
  /\ nodes = {}
  /\ answer = [r \in Requests |-> "none"]

-----------------------------------------------------------------------------
Begin(r, k, c) ==
  /\ pc[r] = "idle"
  /\ command' = [command EXCEPT ![r] = [key |-> k, content |-> c]]
  /\ \E read \in 1..revision : expected' = [expected EXCEPT ![r] = read]
  /\ pc' = [pc EXCEPT ![r] = "begun"]
  /\ UNCHANGED <<locks, committed, answer>>

\* The end of the transaction, committed or not, frees its locks.
Finish(r, response) ==
  /\ pc' = [pc EXCEPT ![r] = "done"]
  /\ answer' = [answer EXCEPT ![r] = response]
  /\ keyLock' = [k \in Keys |-> IF keyLock[k] = r THEN Nobody ELSE keyLock[k]]
  /\ rowLock' = IF rowLock = r THEN Nobody ELSE rowLock

Key(r) == command[r].key

\* pg_advisory_xact_lock waits for the holder.
TakeKey(r) ==
  /\ keyLock[Key(r)] = Nobody
  /\ keyLock' = [keyLock EXCEPT ![Key(r)] = r]

LockKey(r) ==
  /\ pc[r] = "begun"
  /\ TakeKey(r)
  /\ pc' = [pc EXCEPT ![r] = "locked"]
  /\ UNCHANGED <<command, expected, rowLock, committed, answer>>

\* Seeded fault: the fingerprints are not compared.
AnyContent(r) == TRUE

SameContent(r) == results[Key(r)].content = command[r].content

\* findServiceCommandResult: the stored result is sent again, or refused to
\* another content; otherwise the request goes on.
Lookup(r) ==
  /\ pc[r] = "locked"
  /\ \/ /\ results[Key(r)] = Nothing
        /\ pc' = [pc EXCEPT ![r] = "new"]
        /\ UNCHANGED <<locks, answer>>
     \/ /\ results[Key(r)] # Nothing
        /\ Finish(r, IF SameContent(r) THEN "replayed" ELSE "reused")
  /\ UNCHANGED <<command, expected, committed>>

\* Seeded fault: the revision is compared, the row is not locked.
CompareOnly(r) == UNCHANGED rowLock

TakeRow(r) == rowLock' = r

\* nextRevisionExpected: UPDATE ... WHERE revision = expected waits for the
\* row and then compares with what was committed meanwhile.  The revision it
\* returns, expected + 1, is seen by others from the commit on.
Advance(r) ==
  /\ pc[r] = "new"
  /\ rowLock = Nobody
  /\ \/ /\ revision = expected[r]
        /\ TakeRow(r)
        /\ pc' = [pc EXCEPT ![r] = "advanced"]
        /\ UNCHANGED <<keyLock, answer>>
     \/ /\ revision # expected[r]
        /\ Finish(r, "stale")
  /\ UNCHANGED <<command, expected, committed>>

\* The node, its requester and its events are inserted; the parent may be
\* gone.  The rows are seen by nobody before the commit.
Insert(r) ==
  /\ pc[r] = "advanced"
  /\ \/ pc' = [pc EXCEPT ![r] = "inserted"] /\ UNCHANGED <<locks, answer>>
     \/ Finish(r, "notFound")
  /\ UNCHANGED <<command, expected, committed>>

\* Seeded fault: the result is not saved.
NotSaved(r) == UNCHANGED results

\* Seeded fault: the request is saved instead of its result.
RequestSaved(r) == results' = [results EXCEPT ![Key(r)] = command[r]]

SaveResult(r) ==
  results' = [results EXCEPT ![Key(r)] = [content |-> command[r].content, node |-> r]]

\* saveServiceCommandResult and the commit.  The primary key refuses a second
\* row for a key.  The response may be lost.
Commit(r) ==
  /\ pc[r] = "inserted"
  /\ \/ /\ results[Key(r)] = Nothing
        /\ SaveResult(r)
        /\ revision' = expected[r] + 1
        /\ nodes' = nodes \cup {[by |-> r, key |-> Key(r), revision |-> expected[r] + 1]}
        /\ \E response \in {"created", "lost"} : Finish(r, response)
     \/ /\ results[Key(r)] # Nothing
        /\ Finish(r, "failed")
        /\ UNCHANGED committed
  /\ UNCHANGED <<command, expected>>

\* The connection breaks or the server stops: the transaction is rolled back.
Abort(r) ==
  /\ pc[r] \notin {"idle", "done"}
  /\ Finish(r, "failed")
  /\ UNCHANGED <<command, expected, committed>>

\* Another change of the workspace holds the row from its nextRevision to its
\* end, and commits or not.
OtherBegins ==
  /\ rowLock = Nobody
  /\ revision < MaxRevision
  /\ rowLock' = Others
  /\ UNCHANGED <<command, expected, pc, keyLock, committed, answer>>

OtherEnds ==
  /\ rowLock = Others
  /\ rowLock' = Nobody
  /\ revision' \in {revision, revision + 1}
  /\ UNCHANGED <<command, expected, pc, keyLock, results, nodes, answer>>

\* The account has no more to ask.
Quiet ==
  /\ \A r \in Requests : pc[r] = "done"
  /\ UNCHANGED vars

Next ==
  \/ \E r \in Requests, k \in Keys, c \in Contents : Begin(r, k, c)
  \/ \E r \in Requests : LockKey(r) \/ Lookup(r) \/ Advance(r)
  \/ \E r \in Requests : Insert(r) \/ Commit(r) \/ Abort(r)
  \/ OtherBegins \/ OtherEnds
  \/ Quiet

Spec == Init /\ [][Next]_vars

-----------------------------------------------------------------------------
(* Properties.                                                             *)

Command == [key : Keys, content : Contents]
Result == [content : Contents, node : Requests]

TypeOK ==
  /\ command \in [Requests -> Command \cup {Nothing}]
  /\ expected \in [Requests -> Nat]
  /\ pc \in [Requests -> {"idle", "begun", "locked", "new", "advanced", "inserted", "done"}]
  /\ keyLock \in [Keys -> Requests \cup {Nobody}]
  /\ rowLock \in Requests \cup {Others, Nobody}
  /\ revision \in Nat
  /\ results \in [Keys -> Result \cup {Nothing}]
  /\ nodes \subseteq [by : Requests, key : Keys, revision : Nat]
  /\ answer \in [Requests -> {"none", "created", "lost", "replayed", "reused",
                              "stale", "notFound", "failed"}]

\* docs/api-access.md:30: however often a command is sent, with lost answers
\* and with two attempts at once, it creates one node, and that node is the
\* one the stored result speaks of.
OneNodePerKey ==
  \A n, m \in nodes :
    /\ n.key = m.key => n = m
    /\ results[n.key] # Nothing /\ results[n.key].node = n.by

\* docs/adr/0005-integration-gateway-boundary.md:85: every node has a revision
\* of its own, and none lies ahead of the workspace, because requests that
\* have read the same revision cannot both pass the precondition.
RevisionsDistinct ==
  /\ \A n, m \in nodes : n.revision = m.revision => n = m
  /\ \A n \in nodes : n.revision <= revision

\* findServiceCommandResult and nextRevisionExpected: a request in the middle
\* of its transaction holds its key, and from the precondition on the row of
\* the workspace, so that what it has read of both is still true at its commit.
LocksHeld ==
  \A r \in Requests :
    /\ pc[r] \in {"locked", "new", "advanced", "inserted"} => keyLock[Key(r)] = r
    /\ pc[r] \in {"new", "advanced", "inserted"} => results[Key(r)] = Nothing
    /\ pc[r] \in {"advanced", "inserted"} => rowLock = r /\ revision = expected[r]

\* The statements of all transactions together behave as if every request
\* were one step on a table with one effect for each key.
Atomic == INSTANCE IdempotentCreate WITH effect <- results

ImplementsIdempotentCreate == Atomic!Spec
=============================================================================

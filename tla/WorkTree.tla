------------------------------ MODULE WorkTree ------------------------------
(***************************************************************************)
(* The containment tree of one workspace and its history                   *)
(* (internal/httpapi: createNode and updateNode of server.go, the three    *)
(* branch edits of tree_edit.go, the lifecycle of performWorkAction).      *)
(*                                                                         *)
(* Whatever changes the tree takes the row of the workspace                *)
(* (nextRevision), so that the changes themselves come one after another.  *)
(* What a branch edit knows of the tree is older: it reads the branch with *)
(* one statement, waits for the locks of its rows, checks what it has      *)
(* locked, and takes the row of the workspace only then.  The update       *)
(* reads the branch once more; the checks and the removal events are those *)
(* of the first reading.                                                   *)
(***************************************************************************)
EXTENDS Integers, FiniteSets

CONSTANTS MaxNode,        \* nodes are 1 .. MaxNode, in the order of created_at
          MaxRevision,    \* bound on the revision of the workspace
          Txn,            \* branch edits and acceptances that may run at once
          InitialTrees,   \* trees to start from, with the revision they have
          PayloadRules    \* may outbox_events.payload be NULL?  FALSE is the
                          \* schema of migration 1, TRUE what removals need

ASSUME BoundsAssumption ==
  /\ MaxNode \in Nat \ {0}
  /\ MaxRevision \in Nat
  /\ PayloadRules \subseteq BOOLEAN

Node == 1 .. MaxNode
NoParent == 0
NotRemoved == 0
Anybody == 0              \* a member, who states no revision in If-Match
Nothing == [parent |-> -1, root |-> -1, status |-> "absent"]

Lifecycle == {"planned", "started", "closed"}

\* What creations leave: a parent is older, and hands its root_id down.
ASSUME ForestAssumption ==
  \A f \in InitialTrees :
    LET there == DOMAIN f.parent
    IN  /\ there \subseteq Node /\ f.revision \in 1 .. MaxRevision
        /\ f.root \in [there -> Node] /\ f.status \in [there -> Lifecycle]
        /\ \A n \in there :
             /\ f.parent[n] # NoParent => f.parent[n] \in there \cap 1 .. n - 1
             /\ f.root[n] = IF f.parent[n] = NoParent THEN n ELSE f.root[f.parent[n]]

VARIABLES parent,      \* work_nodes.parent_id
          root,        \* work_nodes.root_id
          status,      \* lifecycle_status; "started" is active, review or blocked
          removed,     \* removed_revision
          revision,    \* workspaces.revision
          replay,      \* what nodesAtRevision makes of all events
          txn          \* the branch edits and acceptances in progress

vars == <<parent, root, status, removed, revision, replay, txn>>
rows == <<parent, root, status, removed>>

Idle == [op |-> "none", node |-> 0, relative |-> 0, pc |-> "idle",
         branch |-> {}, held |-> {}, expected |-> Anybody]
-----------------------------------------------------------------------------
(* Reading the tree. *)

Exists(n) == status[n] # "absent"
Live(n) == Exists(n) /\ removed[n] = NotRemoved
LiveNodes == {n \in Node : Live(n)}
Row(n) == [parent |-> parent[n], root |-> root[n], status |-> status[n]]

\* The recursive query of every branch statement: n, and the rows of S that
\* hang below it by rows of S.
Closed(C, S) == \A c \in S : parent[c] \in C => c \in C
Branch(n, S) ==
  LET closed == {D \cup {n} : D \in {D \in SUBSET S : Closed(D \cup {n}, S)}}
  IN  {m \in S \cup {n} : \A C \in closed : m \in C}

LiveBranch(n) == Branch(n, LiveNodes)
RemovedBranch(n) == Branch(n, {m \in Node : Exists(m) /\ removed[m] = removed[n]})
Descendants(n) == LiveBranch(n) \ {n}
Oldest(S) == CHOOSE n \in S : \A m \in S : n <= m
-----------------------------------------------------------------------------
(* Locks.  A row that a transaction has not locked is free for it when     *)
(* nobody else holds it.  The workspace is held from one step to another   *)
(* by an acceptance, which takes its row before it reads what is below the *)
(* task, and by a transaction whose query does not end.                    *)

FreeFor(t, n) == \A u \in Txn \ {t} : n \notin txn[u].held
FreeRow(n) == \A u \in Txn : n \notin txn[u].held

\* Seeded fault: an acceptance takes the row of the workspace when it commits.
HeldOnlyForEver == \A t \in Txn : txn[t].pc # "endless"

WorkspaceFree == \A t \in Txn : txn[t].pc \notin {"endless", "accept"}

\* nextRevision, and the events recorded with it.
Counted == revision < MaxRevision /\ revision' = revision + 1
Advance == WorkspaceFree /\ Counted

\* Seeded fault: the event carries the row as it was.
RecordBefore(N) == replay' = [n \in Node |-> IF n \in N THEN Row(n) ELSE replay[n]]

Record(N) == replay' = [n \in Node |-> IF n \in N THEN Row(n)' ELSE replay[n]]
Forget(N) == replay' = [n \in Node |-> IF n \in N THEN Nothing ELSE replay[n]]

End(t) == txn' = [txn EXCEPT ![t] = Idle]
-----------------------------------------------------------------------------
(* Operations that take the row of the workspace first. *)

\* createNode: a root goal, or a task under a parent that is not removed.
\* The foreign key is checked at the commit and waits for the parent's row.
Create(n, p) ==
  /\ ~Exists(n) /\ \A m \in Node : m < n => Exists(m)
  /\ p # NoParent => Live(p) /\ FreeRow(p)
  /\ Advance
  /\ parent' = [parent EXCEPT ![n] = p]
  /\ root' = [root EXCEPT ![n] = IF p = NoParent THEN n ELSE root[p]]
  /\ status' = [status EXCEPT ![n] = "planned"]
  /\ UNCHANGED <<removed, txn>>
  /\ Record({n})

\* updateNode: title and outcome, which the tree does not depend on; the event
\* carries the whole row.
Update(n) ==
  /\ Live(n) /\ FreeRow(n)
  /\ Advance
  /\ UNCHANGED <<rows, txn>>
  /\ Record({n})

\* performWorkAction and the runner endpoints, as far as the tree sees them.
LifecycleSteps ==
  {<<"planned", "started">>, <<"started", "planned">>, <<"closed", "planned">>}

Work(n, next) ==
  /\ Live(n) /\ FreeRow(n)
  /\ <<status[n], next>> \in LifecycleSteps
  /\ Advance
  /\ status' = [status EXCEPT ![n] = next]
  /\ UNCHANGED <<parent, root, removed, txn>>
  /\ Record({n})
-----------------------------------------------------------------------------
(* Branch edits: moveNode, removeNode, restoreNode. *)

\* The revision in If-Match: the current one, for a service account that has
\* just read it; nothing for a member.
Preconditions == {Anybody, revision}

\* An edit begins while it can still commit within the bound.
CanBegin(t) == txn[t].pc = "idle" /\ revision < MaxRevision

\* lockSubtree reads the branch with one snapshot.
BeginMove(t, n, p) ==
  /\ CanBegin(t) /\ p # n /\ Exists(p) /\ Live(n)
  /\ \E e \in Preconditions :
       txn' = [txn EXCEPT ![t] = [Idle EXCEPT
                !.op = "move", !.node = n, !.relative = p, !.pc = "branch",
                !.branch = LiveBranch(n), !.expected = e]]
  /\ UNCHANGED <<rows, revision, replay>>

BeginRemove(t, n) ==
  /\ CanBegin(t) /\ Live(n)
  /\ \E e \in Preconditions :
       txn' = [txn EXCEPT ![t] = [Idle EXCEPT
                !.op = "remove", !.node = n, !.pc = "branch",
                !.branch = LiveBranch(n), !.expected = e]]
  /\ UNCHANGED <<rows, revision, replay>>

\* restoreNode locks the root of a removed branch first.  A root goal has no
\* parent to be scanned, and the request ends with an error.
BeginRestore(t, n) ==
  /\ CanBegin(t) /\ Exists(n) /\ ~Live(n) /\ FreeRow(n)
  /\ parent[n] # NoParent /\ removed[parent[n]] # removed[n]
  /\ \E e \in Preconditions :
       txn' = [txn EXCEPT ![t] = [Idle EXCEPT
                !.op = "restore", !.node = n, !.relative = parent[n],
                !.pc = "relative", !.held = {n}, !.expected = e]]
  /\ UNCHANGED <<rows, revision, replay>>

\* What moveNode and removeNode ask of the rows they have locked.  The row they
\* take for the root of the branch is the oldest one.
MayEdit(t) ==
  LET x == txn[t]
  IN  /\ parent[Oldest(x.branch)] # NoParent
      /\ \A m \in x.branch : status[m] = "planned"
      /\ x.relative \notin x.branch

AfterBranch(op) == IF op = "move" THEN "relative" ELSE "update"

\* The rows of the branch are locked in the order of created_at.  A row that is
\* locked before the others only makes others wait, as does a transaction that is
\* slow to ask for it: the rows are taken together when the last one is free.
LockBranch(t) ==
  LET x == txn[t]
  IN  /\ x.pc = "branch"
      /\ \A m \in x.branch : FreeFor(t, m)
      /\ \/ /\ x.op = "restore" \/ MayEdit(t)
            /\ txn' = [txn EXCEPT ![t].held = x.held \cup x.branch,
                                  ![t].pc = AfterBranch(x.op)]
         \/ /\ x.op # "restore" /\ ~MayEdit(t)
            /\ End(t)
      /\ UNCHANGED <<rows, revision, replay>>

\* The destination of a move, the parent of a restoration.
Receives(n) == Live(n) /\ status[n] = "planned"
LockRelative(t) ==
  LET x == txn[t]
  IN  /\ x.pc = "relative"
      /\ FreeFor(t, x.relative)
      /\ \/ /\ ~Receives(x.relative)
            /\ End(t)
         \/ /\ Receives(x.relative) /\ x.op = "move"
            /\ txn' = [txn EXCEPT ![t].held = x.held \cup {x.relative},
                                  ![t].pc = "update"]
         \/ /\ Receives(x.relative) /\ x.op = "restore"
            /\ txn' = [txn EXCEPT
                 ![t].held = x.held \cup {x.relative},
                 ![t].branch = RemovedBranch(x.node),
                 ![t].pc = "branch"]
      /\ UNCHANGED <<rows, revision, replay>>

\* Seeded fault: the precondition is not looked at.
NeverStale(t) == FALSE

\* nextRevisionExpected finds another revision: 412, nothing is changed.
Stale(t) == txn[t].expected \notin {Anybody, revision}
Precondition(t) ==
  /\ txn[t].pc = "update" /\ WorkspaceFree /\ Stale(t)
  /\ End(t)
  /\ UNCHANGED <<rows, revision, replay>>

\* Seeded fault: the update takes the nodes of the first reading.
TouchedAsRead(t) == txn[t].branch

\* The rows an update statement touches are read again.
Touched(t) ==
  IF txn[t].op = "restore" THEN RemovedBranch(txn[t].node)
                           ELSE LiveBranch(txn[t].node)
Ready(t) ==
  /\ txn[t].pc = "update" /\ ~Stale(t)
  /\ Advance
  /\ \A m \in Touched(t) : FreeFor(t, m)

\* Seeded fault: UNION in place of UNION ALL, and the query ends.
ReadsToTheEnd(n, p) == FALSE

\* readSubtree after the update goes round for ever once the branch hangs below
\* itself: the transaction keeps the row of the workspace.
ReadsForEver(n, p) == p \in LiveBranch(n)

Move(t) ==
  LET n == txn[t].node
      p == txn[t].relative
  IN  /\ txn[t].op = "move" /\ Ready(t)
      /\ ~ReadsForEver(n, p)
      /\ parent' = [parent EXCEPT ![n] = p]
      /\ root' = [m \in Node |-> IF m \in Touched(t) THEN root[p] ELSE root[m]]
      /\ End(t)
      /\ UNCHANGED <<status, removed>>
      /\ Record(IF Live(n) THEN Touched(t) ELSE {})

MoveInsideItself(t) ==
  /\ txn[t].op = "move" /\ txn[t].pc = "update" /\ ~Stale(t) /\ WorkspaceFree
  /\ \A m \in Touched(t) : FreeFor(t, m)
  /\ ReadsForEver(txn[t].node, txn[t].relative)
  /\ txn' = [txn EXCEPT ![t].pc = "endless"]
  /\ UNCHANGED <<rows, revision, replay>>

\* A removal event has no state: the payload of its outbox row is NULL.  The
\* nodes it is recorded for are those of the first reading.
Remove(t) ==
  /\ txn[t].op = "remove" /\ Ready(t) /\ TRUE \in PayloadRules
  /\ removed' = [m \in Node |-> IF m \in Touched(t) THEN revision + 1 ELSE removed[m]]
  /\ Forget(txn[t].branch)
  /\ End(t)
  /\ UNCHANGED <<parent, root, status>>

\* The column does not take NULL: the error leaves everything as it was.
RemoveRefused(t) ==
  /\ txn[t].op = "remove" /\ txn[t].pc = "update" /\ ~Stale(t)
  /\ WorkspaceFree /\ FALSE \in PayloadRules
  /\ \A m \in Touched(t) : FreeFor(t, m)
  /\ End(t)
  /\ UNCHANGED <<rows, revision, replay>>

Restore(t) ==
  LET p == txn[t].relative
      back == Touched(t)
  IN  /\ txn[t].op = "restore" /\ Ready(t)
      /\ removed' = [m \in Node |-> IF m \in back THEN NotRemoved ELSE removed[m]]
      /\ root' = [m \in Node |-> IF m \in back THEN root[p] ELSE root[m]]
      /\ End(t)
      /\ UNCHANGED <<parent, status>>
      /\ Record(back)

\* The client hangs up, the database ends a deadlock, or an error is answered.
Abort(t) ==
  /\ txn[t].pc # "idle"
  /\ End(t)
  /\ UNCHANGED <<rows, revision, replay>>
-----------------------------------------------------------------------------
(* The case "close" of performWorkAction: final acceptance.                *)

\* The rows of the workspace and of the task are taken, and the descendants are
\* read with a statement of their own.  A refusal leaves all as it was.
OpenBelow(n) == \E d \in Descendants(n) : status[d] # "closed"
BeginAccept(t, n) ==
  /\ CanBegin(t) /\ WorkspaceFree
  /\ Live(n) /\ FreeRow(n)
  /\ status[n] = "started" /\ ~OpenBelow(n)
  /\ txn' = [txn EXCEPT ![t] = [Idle EXCEPT
               !.op = "close", !.node = n, !.pc = "accept", !.held = {n}]]
  /\ UNCHANGED <<rows, revision, replay>>

\* The update, its event and the commit.
Accept(t) ==
  /\ txn[t].pc = "accept"
  /\ Counted
  /\ status' = [status EXCEPT ![txn[t].node] = "closed"]
  /\ End(t)
  /\ UNCHANGED <<parent, root, removed>>
  /\ Record({txn[t].node})
-----------------------------------------------------------------------------
\* A workspace after creations and some work.
Init ==
  /\ \E f \in InitialTrees :
       LET there == DOMAIN f.parent
       IN  /\ parent = [n \in Node |-> IF n \in there THEN f.parent[n] ELSE NoParent]
           /\ root = [n \in Node |-> IF n \in there THEN f.root[n] ELSE 0]
           /\ status = [n \in Node |-> IF n \in there THEN f.status[n] ELSE "absent"]
           /\ revision = f.revision
           /\ replay = [n \in Node |-> IF n \in there THEN Row(n) ELSE Nothing]
  /\ removed = [n \in Node |-> NotRemoved]
  /\ txn = [t \in Txn |-> Idle]

Edit(t) ==
  \/ \E n, p \in Node : BeginMove(t, n, p)
  \/ \E n \in Node : BeginRemove(t, n) \/ BeginRestore(t, n)
  \/ LockBranch(t) \/ LockRelative(t) \/ Precondition(t)
  \/ Move(t) \/ MoveInsideItself(t) \/ Remove(t) \/ RemoveRefused(t) \/ Restore(t)
  \/ (\E n \in Node : BeginAccept(t, n)) \/ Accept(t)
  \/ Abort(t)

Next ==
  \/ \E n \in Node, p \in Node \cup {NoParent} : Create(n, p)
  \/ \E n \in Node : Update(n) \/ \E s \in Lifecycle : Work(n, s)
  \/ \E t \in Txn : Edit(t)

Spec == Init /\ [][Next]_vars
-----------------------------------------------------------------------------
TypeOK ==
  /\ parent \in [Node -> 0 .. MaxNode]
  /\ root \in [Node -> 0 .. MaxNode]
  /\ status \in [Node -> Lifecycle \cup {"absent"}]
  /\ removed \in [Node -> 0 .. MaxRevision]
  /\ revision \in 0 .. MaxRevision
  /\ txn \in [Txn -> [op : {"none", "move", "remove", "restore", "close"},
                      node : 0 .. MaxNode, relative : 0 .. MaxNode,
                      pc : {"idle", "branch", "relative", "update", "endless",
                            "accept"},
                      branch : SUBSET Node, held : SUBSET Node,
                      expected : 0 .. MaxRevision]]

\* Every node hangs below a root goal: no edit leaves a ring of nodes that no
\* root reaches.  Nobody checks the destination against the branch as it is
\* when it moves (tree_edit.go:146); a ring is caught only because the query
\* that reads it back does not end.
RootedForest ==
  \A C \in SUBSET {n \in Node : Exists(n)} :
    C # {} => \E n \in C : parent[n] \notin C

\* What is not removed hangs below what is not removed, whatever is created,
\* moved, removed and restored at once.
LiveParent ==
  \A n \in LiveNodes : parent[n] # NoParent => Live(parent[n])

\* root_id, which is copied to every row of a branch, is the root goal that the
\* parents lead to.
RootsAgree ==
  \A n \in LiveNodes : root[n] = IF parent[n] = NoParent THEN n ELSE root[parent[n]]

\* Types, and the columns that repeat what the parents say: removal and root.
TreeInv == TypeOK /\ LiveParent /\ RootsAgree

\* When the history has a node that is in the tree, it has it as it is: parent,
\* root and lifecycle of every descendant included.
HistoryIsCurrent ==
  \A n \in LiveNodes : replay[n] # Nothing => replay[n] = Row(n)

\* The history tells the node as the table does.
Told(n) == replay[n] = IF Live(n) THEN Row(n) ELSE Nothing

Commits(t) == revision' # revision /\ txn[t].op # "none" /\ txn'[t].op = "none"
Guarded(t) == txn[t].expected # Anybody

\* An edit that states the revision it is based on changes the tree it has read:
\* every node told before is told after it, and no work that has begun is moved
\* or removed (tree_edit.go:146, tree_edit.go:243).
GuardedEdits ==
  [][\A t \in Txn : Commits(t) /\ Guarded(t) =>
       /\ \A n \in Node : Told(n) => Told(n)'
       /\ \A n \in LiveNodes : Row(n)' # Row(n) \/ ~Live(n)' => status[n] = "planned"]_vars

\* When an acceptance commits, all there is below the task by then is closed, at
\* any depth: nothing is created, moved, restored or reopened there between the
\* statement that looks (circle.go:797) and the update (circle.go:949).
AcceptedOverClosedWork ==
  [][\A n \in Node : status[n] # "closed" /\ status'[n] = "closed" =>
       \A d \in Node : Live(d) /\ d \in Descendants(n) => status[d] = "closed"]_vars

=============================================================================

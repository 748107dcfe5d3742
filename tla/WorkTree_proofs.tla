--------------------------- MODULE WorkTree_proofs ---------------------------
(***************************************************************************)
(* Proofs about WorkTree for any number of nodes, branch edits at once and *)
(* trees to start from: the tree stays a tree, its columns and its history *)
(* agree, and edits that state their revision change what they have read.  *)
(***************************************************************************)
EXTENDS WorkTree, FiniteSetTheorems, WellFoundedInduction, TLAPS

\* A parent is there, if it is removed or not.
Attached == \A n \in Node : Exists(n) /\ parent[n] # NoParent => Exists(parent[n])

\* TypeOK of the tables, and of the branch edits.
TablesTyped ==
  /\ parent \in [Node -> 0 .. MaxNode]
  /\ root \in [Node -> 0 .. MaxNode]
  /\ status \in [Node -> Lifecycle \cup {"absent"}]
  /\ removed \in [Node -> 0 .. MaxRevision]
  /\ revision \in 0 .. MaxRevision

Edits == [op : {"none", "move", "remove", "restore", "close"},
          node : 0 .. MaxNode, relative : 0 .. MaxNode,
          pc : {"idle", "branch", "relative", "update", "endless", "accept"},
          branch : SUBSET Node, held : SUBSET Node, expected : 0 .. MaxRevision]

TablesInv ==
  /\ TablesTyped
  /\ Attached
  /\ LiveParent
  /\ RootsAgree
  /\ RootedForest
  /\ HistoryIsCurrent

\* A row has one holder.
HeldApart == \A t, u \in Txn : t # u => txn[t].held \cap txn[u].held = {}

\* A move has seen its destination in the tree and keeps it there.
MoveHolds(x) ==
  x.op = "move" =>
    /\ x.node \in Node /\ x.relative \in Node
    /\ x.pc \in {"update", "endless"} => x.relative \in x.held /\ Live(x.relative)

RemoveHolds(x) == x.op = "remove" => x.node \in Node

\* A restoration keeps the removed node, and then its parent in the tree.
RestoreHolds(x) ==
  x.op = "restore" =>
    /\ x.node \in Node /\ x.node \in x.held
    /\ Exists(x.node) /\ removed[x.node] # NotRemoved
    /\ x.relative \in Node /\ parent[x.node] = x.relative
    /\ x.pc \in {"branch", "update"} => x.relative \in x.held /\ Live(x.relative)

\* While the revision is the one an edit states, the branch is the one it has read.
ReadHolds(x) ==
  x.op \in {"move", "remove"} /\ x.expected = revision /\ x.expected # Anybody =>
    /\ Live(x.node) /\ x.branch = LiveBranch(x.node)
    /\ x.pc \in {"relative", "update"} => \A m \in x.branch : status[m] = "planned"

\* An acceptance has seen what is below the task, and nothing has changed since.
AcceptHolds(x) ==
  /\ x.op = "close" => x.pc = "accept"
  /\ x.pc = "accept" =>
       /\ x.op = "close" /\ x.node \in Node /\ x.expected = Anybody
       /\ Live(x.node) /\ ~OpenBelow(x.node)

EditHolds(x) ==
  /\ MoveHolds(x)
  /\ RemoveHolds(x)
  /\ RestoreHolds(x)
  /\ AcceptHolds(x)
  /\ x.expected <= revision
  /\ ReadHolds(x)

\* One transaction has the row of the workspace, and keeps the others from it.
Holding == {"endless", "accept"}
OneHolds == \A t, u \in Txn : t # u /\ txn[t].pc \in Holding => txn[u].pc \notin Holding

EditsInv ==
  /\ txn \in [Txn -> Edits]
  /\ HeldApart
  /\ OneHolds
  /\ \A t \in Txn : EditHolds(txn[t])

BranchesInv == TablesInv /\ EditsInv

-----------------------------------------------------------------------------
(* Nodes and branches.                                                     *)

\* Nodes are positive numbers, and no parent is none of them.
LEMMA Numbers ==
  /\ Node \subseteq Nat \ {0} /\ Node \subseteq 0 .. MaxNode /\ NoParent \notin Node
  /\ MaxNode \in Nat /\ MaxRevision \in Nat /\ 0 .. MaxNode = Node \cup {NoParent}
BY BoundsAssumption DEF Node, NoParent

\* A branch is in every set that has its root and what hangs below.
LEMMA BranchLeast ==
  ASSUME NEW n, NEW S, NEW D \in SUBSET (S \cup {n}), n \in D,
         \A c \in S : parent[c] \in D => c \in D
  PROVE  Branch(n, S) \subseteq D
<1> DEFINE closed == {E \cup {n} : E \in {E \in SUBSET S : Closed(E \cup {n}, S)}}
<1>1. PICK E : E = D \cap S
  OBVIOUS
<1>2. E \in SUBSET S /\ E \cup {n} = D
  BY <1>1
<1>3. Closed(E \cup {n}, S)
  BY <1>2 DEF Closed
<1>4. D \in closed
  BY <1>2, <1>3
<1> QED
  BY <1>4 DEF Branch

\* A branch has its root and what hangs below, and no more.
LEMMA BranchFacts ==
  ASSUME NEW n, NEW S, NEW B, B = Branch(n, S)
  PROVE  /\ n \in B /\ B \subseteq S \cup {n}
         /\ \A c \in S : parent[c] \in B => c \in B
         /\ \A m \in B : m # n => m \in S /\ parent[m] \in B
<1> DEFINE closed == {E \cup {n} : E \in {E \in SUBSET S : Closed(E \cup {n}, S)}}
<1>1. B = {m \in S \cup {n} : \A C \in closed : m \in C}
  BY DEF Branch
<1>2. n \in B /\ B \subseteq S \cup {n}
  BY <1>1
<1>3. ASSUME NEW c \in S, parent[c] \in B
      PROVE  c \in B
  <2>1. ASSUME NEW C \in closed
        PROVE  c \in C
    <3>1. Closed(C, S)
      OBVIOUS
    <3>2. parent[c] \in C
      BY <1>1, <1>3
    <3> QED
      BY <3>1, <3>2 DEF Closed
  <2> QED
    BY <1>1, <2>1
<1> HIDE DEF closed
<1>4. PICK D : D = {m \in B : m = n \/ parent[m] \in B}
  OBVIOUS
<1>5. D \in SUBSET (S \cup {n}) /\ n \in D
  BY <1>2, <1>4
<1>6. \A c \in S : parent[c] \in D => c \in D
  BY <1>3, <1>4
<1>7. B \subseteq D
  BY <1>5, <1>6, BranchLeast
<1> QED
  BY <1>2, <1>3, <1>4, <1>7

\* Nothing in the tree hangs below what is removed.
LEMMA NothingBelowRemoved ==
  ASSUME LiveParent, NEW n \in Node, ~Live(n)
  PROVE  LiveBranch(n) = {n}
<1>1. \A c \in LiveNodes : parent[c] # n
  BY Numbers DEF LiveParent, LiveNodes
<1>2. LiveBranch(n) \subseteq {n}
  BY <1>1, BranchLeast DEF LiveBranch
<1>3. n \in LiveBranch(n)
  BY BranchFacts DEF LiveBranch
<1> QED
  BY <1>2, <1>3

-----------------------------------------------------------------------------
(* What changes of the tables leave of the tree.                           *)

\* Without a change of rows and history all stays.
LEMMA TablesStay ==
  ASSUME TablesInv, UNCHANGED <<rows, revision, replay>>
  PROVE  TablesInv'
<1>1. UNCHANGED <<parent, root, status, removed, revision, replay>>
  BY DEF rows
<1> QED
  BY <1>1 DEF TablesInv, TablesTyped, Attached, LiveParent, RootsAgree, RootedForest,
              HistoryIsCurrent, LiveNodes, Live, Exists, Row

\* A node is created below one that is in the tree, or as a root goal.
LEMMA CreateKeeps ==
  ASSUME TablesInv, NEW n \in Node, NEW p \in Node \cup {NoParent}, Create(n, p)
  PROVE  TablesInv'
<1>0. TablesTyped /\ Attached /\ LiveParent /\ RootsAgree /\ RootedForest /\ HistoryIsCurrent
  BY DEF TablesInv
<1>1. /\ ~Exists(n) /\ (p # NoParent => p \in Node /\ Live(p) /\ p # n)
      /\ revision' = revision + 1 /\ revision < MaxRevision
      /\ removed' = removed
  BY DEF Create, Advance, Counted, Live
<1>2. /\ parent' \in [Node -> 0 .. MaxNode] /\ parent'[n] = p
      /\ \A m \in Node : m # n => parent'[m] = parent[m]
  BY <1>0, Numbers DEF Create, TablesTyped
<1>3. /\ root' \in [Node -> 0 .. MaxNode] /\ root'[n] = IF p = NoParent THEN n ELSE root[p]
      /\ \A m \in Node : m # n => root'[m] = root[m]
  BY <1>0, <1>1, Numbers DEF Create, TablesTyped
<1>4. /\ status' \in [Node -> Lifecycle \cup {"absent"}] /\ status'[n] = "planned"
      /\ \A m \in Node : m # n => status'[m] = status[m]
  BY <1>0 DEF Create, TablesTyped, Lifecycle
<1>5. /\ replay'[n] = [parent |-> parent'[n], root |-> root'[n], status |-> status'[n]]
      /\ \A m \in Node : m # n => replay'[m] = replay[m]
  BY DEF Create, Record, Row
<1>6. \A m \in Node : m # n /\ Exists(m) => parent[m] # n
  BY <1>0, <1>1, Numbers DEF Attached
<1>7. TablesTyped'
  BY <1>0, <1>1, <1>2, <1>3, <1>4, Numbers DEF TablesTyped
<1>8. Attached'
  BY <1>0, <1>1, <1>2, <1>4, <1>6 DEF Attached, Live, Exists, TablesTyped, Node, NoParent
<1>9. LiveParent'
  BY <1>0, <1>1, <1>2, <1>4, <1>6 DEF LiveParent, LiveNodes, Live, Exists, TablesTyped, Node, NoParent
<1>10. RootsAgree'
  BY <1>0, <1>1, <1>2, <1>3, <1>4, <1>6 DEF RootsAgree, LiveParent, LiveNodes, Live, Exists,
     TablesTyped, Node, NoParent
<1>11. RootedForest'
  <2>1. ASSUME NEW C \in SUBSET Node, C # {}, \A m \in C : status'[m] # "absent",
               \A m \in C : parent'[m] \in C
        PROVE  FALSE
    <3>1. PICK D : D = C \ {n}
      OBVIOUS
    <3>2. D \in SUBSET {m \in Node : Exists(m)}
      BY <1>4, <2>1, <3>1 DEF Exists
    <3>3. \A m \in D : parent[m] \in D
      BY <1>2, <1>6, <2>1, <3>1, <3>2
    <3>4. D # {}
      <4>1. CASE n \in C
        <5>1. p \in C /\ p # NoParent
          BY <1>2, <2>1, <4>1, Numbers
        <5> QED
          BY <1>1, <3>1, <5>1
      <4>2. CASE n \notin C
        BY <2>1, <3>1, <4>2
      <4> QED
        BY <4>1, <4>2
    <3> QED
      BY <1>0, <3>2, <3>3, <3>4 DEF RootedForest
  <2> QED
    BY <2>1 DEF RootedForest, Exists
<1>12. HistoryIsCurrent'
  BY <1>0, <1>1, <1>2, <1>3, <1>4, <1>5 DEF HistoryIsCurrent, LiveNodes, Live, Exists, Row
<1> QED
  BY <1>7, <1>8, <1>9, <1>10, <1>11, <1>12 DEF TablesInv

\* An update, work or an acceptance: the event has the row as it is then.
LEMMA StatusKeeps ==
  ASSUME TablesInv, NEW n \in Node, NEW s \in Lifecycle, Live(n),
         status' = [status EXCEPT ![n] = s], UNCHANGED <<parent, root, removed>>,
         Counted, Record({n})
  PROVE  TablesInv'
<1>0. TablesTyped /\ Attached /\ LiveParent /\ RootsAgree /\ RootedForest /\ HistoryIsCurrent
  BY DEF TablesInv
<1>1. /\ parent' = parent /\ root' = root /\ removed' = removed
      /\ revision' = revision + 1 /\ revision < MaxRevision
  BY DEF Counted
<1>2. /\ status' \in [Node -> Lifecycle \cup {"absent"}] /\ status'[n] = s /\ s # "absent"
      /\ \A m \in Node : m # n => status'[m] = status[m]
  BY <1>0 DEF TablesTyped, Lifecycle
<1>3. /\ replay'[n] = [parent |-> parent'[n], root |-> root'[n], status |-> status'[n]]
      /\ \A m \in Node : m # n => replay'[m] = replay[m]
  BY DEF Record, Row
<1>4. \A m \in Node : status'[m] = "absent" <=> status[m] = "absent"
  BY <1>2 DEF Live, Exists
<1>5. TablesTyped'
  BY <1>0, <1>1, <1>2, Numbers DEF TablesTyped
<1>6. Attached'
  BY <1>0, <1>1, <1>4, Numbers DEF Attached, Exists, TablesTyped, NoParent
<1>7. LiveParent'
  BY <1>0, <1>1, <1>4, Numbers DEF LiveParent, LiveNodes, Live, Exists, TablesTyped, NoParent
<1>8. RootsAgree'
  BY <1>0, <1>1, <1>4 DEF RootsAgree, LiveNodes, Live, Exists
<1>9. RootedForest'
  BY <1>0, <1>1, <1>4 DEF RootedForest, Exists
<1>10. HistoryIsCurrent'
  BY <1>0, <1>1, <1>2, <1>3, <1>4 DEF HistoryIsCurrent, LiveNodes, Live, Exists, Row
<1> QED
  BY <1>5, <1>6, <1>7, <1>8, <1>9, <1>10 DEF TablesInv

\* A branch moves below a node of the tree that is not its own, with its root_id.
\* A ring that the move closed would go through the destination, and what is in it
\* and not in the branch would have been a ring before.
LEMMA MoveKeeps ==
  ASSUME TablesInv, NEW n \in Node, NEW p \in Node, Live(p),
         NEW B, B = LiveBranch(n), p \notin B,
         parent' = [parent EXCEPT ![n] = p],
         root' = [m \in Node |-> IF m \in B THEN root[p] ELSE root[m]],
         UNCHANGED <<status, removed>>, Advance, Record(IF Live(n) THEN B ELSE {})
  PROVE  TablesInv'
<1>0. TablesTyped /\ Attached /\ LiveParent /\ RootsAgree /\ RootedForest /\ HistoryIsCurrent
  BY DEF TablesInv
<1>1. /\ status' = status /\ removed' = removed
      /\ revision' = revision + 1 /\ revision < MaxRevision
  BY DEF Advance, Counted
<1>2. /\ parent' \in [Node -> 0 .. MaxNode] /\ parent'[n] = p
      /\ \A m \in Node : m # n => parent'[m] = parent[m]
  BY <1>0, Numbers DEF TablesTyped
<1>3. /\ root' \in [Node -> 0 .. MaxNode]
      /\ \A m \in Node : root'[m] = IF m \in B THEN root[p] ELSE root[m]
  BY <1>0 DEF TablesTyped
<1>4. /\ n \in B /\ B \subseteq Node
      /\ \A m \in Node : Live(m) /\ parent[m] \in B => m \in B
      /\ \A m \in B : m # n => Live(m) /\ parent[m] \in B
  BY BranchFacts DEF LiveBranch, LiveNodes
<1>5. p # NoParent /\ p # n
  BY <1>4, Numbers
<1>6. TablesTyped'
  BY <1>0, <1>1, <1>2, <1>3, Numbers DEF TablesTyped
<1>7. Attached'
  BY <1>0, <1>1, <1>2 DEF Attached, Live, Exists
<1>8. LiveParent'
  BY <1>0, <1>1, <1>2 DEF LiveParent, LiveNodes, Live, Exists
<1>9. RootsAgree'
  <2>1. ASSUME NEW m \in Node, Live(m)
        PROVE  root'[m] = IF parent'[m] = NoParent THEN m ELSE root'[parent'[m]]
    <3>1. CASE m = n
      BY <1>2, <1>3, <1>4, <1>5, <3>1
    <3>2. CASE m # n /\ m \in B
      <4>1. parent'[m] \in B /\ parent'[m] # NoParent
        BY <1>2, <1>4, <3>2, Numbers
      <4> QED
        BY <1>3, <1>4, <3>2, <4>1
    <3>3. CASE m \notin B /\ parent[m] = NoParent
      BY <1>0, <1>2, <1>3, <1>4, <2>1, <3>3 DEF RootsAgree, LiveNodes
    <3>4. CASE m \notin B /\ parent[m] # NoParent
      <4>1. parent[m] \in Node /\ parent[m] \notin B /\ parent'[m] = parent[m]
        BY <1>0, <1>2, <1>4, <2>1, <3>4, Numbers DEF TablesTyped
      <4>2. root[m] = root[parent[m]]
        BY <1>0, <2>1, <3>4 DEF RootsAgree, LiveNodes
      <4> QED
        BY <1>3, <3>4, <4>1, <4>2
    <3> QED
      BY <3>1, <3>2, <3>3, <3>4
  <2> QED
    BY <1>1, <2>1 DEF RootsAgree, LiveNodes, Live, Exists
<1>10. RootedForest'
  <2>1. ASSUME NEW C \in SUBSET Node, C # {}, \A m \in C : Exists(m),
               \A m \in C : parent'[m] \in C
        PROVE  FALSE
    <3>1. CASE n \notin C
      <4>1. \A m \in C : parent[m] \in C
        BY <1>2, <2>1, <3>1
      <4> QED
        BY <1>0, <2>1, <4>1 DEF RootedForest
    <3>2. CASE n \in C
      <4>1. PICK D : D = {m \in C : Live(m) /\ m \notin B}
        OBVIOUS
      <4>2. p \in D
        BY <1>2, <2>1, <3>2, <4>1
      <4>3. ASSUME NEW m \in D
            PROVE  parent[m] \in D
        <5>1. m \in Node /\ m \in C /\ Live(m) /\ m \notin B /\ m # n
          BY <1>4, <2>1, <4>1
        <5>2. parent[m] \in C /\ parent[m] # NoParent
          BY <1>2, <2>1, <5>1, Numbers
        <5>3. Live(parent[m])
          BY <1>0, <5>1, <5>2 DEF LiveParent, LiveNodes
        <5> QED
          BY <1>4, <4>1, <5>1, <5>2, <5>3
      <4>4. D \in SUBSET {m \in Node : Exists(m)}
        BY <2>1, <4>1
      <4> QED
        BY <1>0, <4>2, <4>3, <4>4 DEF RootedForest
    <3> QED
      BY <3>1, <3>2
  <2> QED
    BY <1>1, <2>1 DEF RootedForest, Exists
<1>11. HistoryIsCurrent'
  <2>1. ASSUME NEW m \in Node, Live(m), replay'[m] # Nothing
        PROVE  replay'[m] = [parent |-> parent'[m], root |-> root'[m], status |-> status'[m]]
    <3>1. CASE m \in B
      <4>1. Live(n)
        BY <1>0, <2>1, <3>1, NothingBelowRemoved
      <4> QED
        BY <3>1, <4>1 DEF Record, Row
    <3>2. CASE m \notin B
      <4>1. replay'[m] = replay[m] /\ parent'[m] = parent[m] /\ root'[m] = root[m]
        BY <1>2, <1>3, <1>4, <3>2 DEF Record
      <4> QED
        BY <1>0, <1>1, <2>1, <4>1 DEF HistoryIsCurrent, LiveNodes, Row
    <3> QED
      BY <3>1, <3>2
  <2> QED
    BY <1>1, <2>1 DEF HistoryIsCurrent, LiveNodes, Live, Exists, Row
<1> QED
  BY <1>6, <1>7, <1>8, <1>9, <1>10, <1>11 DEF TablesInv

\* The whole branch leaves the tree, whatever the events are recorded for.
LEMMA RemoveKeeps ==
  ASSUME TablesInv, NEW n \in Node, NEW B, B = LiveBranch(n), NEW F,
         removed' = [m \in Node |-> IF m \in B THEN revision + 1 ELSE removed[m]],
         UNCHANGED <<parent, root, status>>, Advance, Forget(F)
  PROVE  TablesInv'
<1>0. TablesTyped /\ Attached /\ LiveParent /\ RootsAgree /\ RootedForest /\ HistoryIsCurrent
  BY DEF TablesInv
<1>1. /\ status' = status /\ parent' = parent /\ root' = root
      /\ revision' = revision + 1 /\ revision < MaxRevision
  BY DEF Advance, Counted
<1>2. /\ removed' \in [Node -> 0 .. MaxRevision]
      /\ \A m \in Node : removed'[m] = IF m \in B THEN revision + 1 ELSE removed[m]
      /\ revision + 1 # NotRemoved
  BY <1>0, <1>1, Numbers DEF TablesTyped, NotRemoved
<1>3. \A m \in Node : Live(m) /\ parent[m] \in B => m \in B
  BY BranchFacts DEF LiveBranch, LiveNodes
<1>4. \A m \in Node : (status'[m] # "absent" /\ removed'[m] = NotRemoved) <=> Live(m) /\ m \notin B
  <2>1. \A m \in Node : m \in B => removed'[m] # NotRemoved
    BY <1>2
  <2>2. \A m \in Node : m \notin B => removed'[m] = removed[m]
    BY <1>2
  <2> QED
    BY <1>1, <2>1, <2>2 DEF Live, Exists
<1>5. TablesTyped'
  BY <1>0, <1>1, <1>2, Numbers DEF TablesTyped
<1>6. Attached'
  BY <1>0, <1>1 DEF Attached, Exists
<1>7. LiveParent'
  <2>1. ASSUME NEW m \in Node, Live(m), m \notin B, parent[m] # NoParent
        PROVE  parent[m] \in Node /\ Live(parent[m]) /\ parent[m] \notin B
    BY <1>0, <1>3, <2>1, Numbers DEF LiveParent, LiveNodes, TablesTyped
  <2>2. ASSUME NEW m \in Node, status'[m] # "absent" /\ removed'[m] = NotRemoved,
               parent'[m] # NoParent
        PROVE  status'[parent'[m]] # "absent" /\ removed'[parent'[m]] = NotRemoved
    BY <1>1, <1>4, <2>1, <2>2
  <2> QED
    BY <2>2 DEF LiveParent, LiveNodes, Live, Exists
<1>8. RootsAgree'
  <2>1. ASSUME NEW m \in Node, status'[m] # "absent" /\ removed'[m] = NotRemoved
        PROVE  root'[m] = IF parent'[m] = NoParent THEN m ELSE root'[parent'[m]]
    BY <1>0, <1>1, <1>4, <2>1 DEF RootsAgree, LiveNodes
  <2> QED
    BY <2>1 DEF RootsAgree, LiveNodes, Live, Exists
<1>9. RootedForest'
  BY <1>0, <1>1 DEF RootedForest, Exists
<1>10. HistoryIsCurrent'
  <2>1. ASSUME NEW m \in Node, status'[m] # "absent" /\ removed'[m] = NotRemoved,
               replay'[m] # Nothing
        PROVE  replay'[m] = [parent |-> parent'[m], root |-> root'[m], status |-> status'[m]]
    <3>1. replay'[m] = replay[m]
      BY <2>1 DEF Forget
    <3> QED
      BY <1>0, <1>1, <1>4, <2>1, <3>1 DEF HistoryIsCurrent, LiveNodes, Row
  <2> QED
    BY <2>1 DEF HistoryIsCurrent, LiveNodes, Live, Exists, Row
<1> QED
  BY <1>5, <1>6, <1>7, <1>8, <1>9, <1>10 DEF TablesInv

\* What was removed with a node comes back below a parent that is in the tree, and
\* takes its root_id.
LEMMA RestoreKeeps ==
  ASSUME TablesInv, NEW n \in Node, Exists(n), removed[n] # NotRemoved,
         NEW p \in Node, parent[n] = p, Live(p), NEW back, back = RemovedBranch(n),
         removed' = [m \in Node |-> IF m \in back THEN NotRemoved ELSE removed[m]],
         root' = [m \in Node |-> IF m \in back THEN root[p] ELSE root[m]],
         UNCHANGED <<parent, status>>, Advance, Record(back)
  PROVE  TablesInv'
<1>0. TablesTyped /\ Attached /\ LiveParent /\ RootsAgree /\ RootedForest /\ HistoryIsCurrent
  BY DEF TablesInv
<1>1. /\ status' = status /\ parent' = parent
      /\ revision' = revision + 1 /\ revision < MaxRevision
  BY DEF Advance, Counted
<1>2. /\ removed' \in [Node -> 0 .. MaxRevision]
      /\ \A m \in Node : removed'[m] = IF m \in back THEN NotRemoved ELSE removed[m]
  BY <1>0, Numbers DEF TablesTyped, NotRemoved
<1>3. /\ root' \in [Node -> 0 .. MaxNode]
      /\ \A m \in Node : root'[m] = IF m \in back THEN root[p] ELSE root[m]
  BY <1>0 DEF TablesTyped
<1>4. /\ n \in back /\ back \subseteq Node
      /\ \A m \in back : m # n => parent[m] \in back
      /\ \A m \in back : Exists(m) /\ ~Live(m)
  <2>1. PICK S : S = {m \in Node : Exists(m) /\ removed[m] = removed[n]}
    OBVIOUS
  <2>2. back = Branch(n, S)
    BY <2>1 DEF RemovedBranch
  <2>3. n \in back /\ back \subseteq S \cup {n} /\ \A m \in back : m # n => parent[m] \in back
    BY <2>2, BranchFacts
  <2> QED
    BY <2>1, <2>3 DEF Live
<1>5. \A m \in Node : (status'[m] # "absent" /\ removed'[m] = NotRemoved) <=> Live(m) \/ m \in back
  BY <1>1, <1>2, <1>4 DEF Live, Exists
<1>6. TablesTyped'
  BY <1>0, <1>1, <1>2, <1>3, Numbers DEF TablesTyped
<1>7. Attached'
  BY <1>0, <1>1 DEF Attached, Exists
<1>8. ASSUME NEW m \in Node, Live(m), parent[m] # NoParent
      PROVE  parent[m] \in Node /\ Live(parent[m])
  BY <1>0, <1>8, Numbers DEF LiveParent, LiveNodes, TablesTyped
<1>9. LiveParent'
  <2>1. ASSUME NEW m \in Node, status'[m] # "absent" /\ removed'[m] = NotRemoved,
               parent'[m] # NoParent
        PROVE  status'[parent'[m]] # "absent" /\ removed'[parent'[m]] = NotRemoved
    <3>1. CASE m \in back /\ m # n
      BY <1>1, <1>4, <1>5, <3>1
    <3>2. CASE m = n
      BY <1>1, <1>5, <3>2
    <3>3. CASE Live(m)
      BY <1>1, <1>5, <1>8, <2>1, <3>3
    <3> QED
      BY <1>5, <2>1, <3>1, <3>2, <3>3
  <2> QED
    BY <2>1 DEF LiveParent, LiveNodes, Live, Exists
<1>10. RootsAgree'
  <2>1. ASSUME NEW m \in Node, status'[m] # "absent" /\ removed'[m] = NotRemoved
        PROVE  root'[m] = IF parent'[m] = NoParent THEN m ELSE root'[parent'[m]]
    <3>1. CASE m \in back /\ m # n
      BY <1>1, <1>3, <1>4, <3>1, Numbers
    <3>2. CASE m = n
      BY <1>1, <1>3, <1>4, <3>2, Numbers
    <3>3. CASE Live(m) /\ m \notin back
      <4>1. root'[m] = root[m]
        BY <1>3, <3>3
      <4>2. root[m] = IF parent[m] = NoParent THEN m ELSE root[parent[m]]
        BY <1>0, <3>3 DEF RootsAgree, LiveNodes
      <4>3. parent[m] # NoParent => root'[parent[m]] = root[parent[m]]
        BY <1>3, <1>4, <1>8, <3>3
      <4> QED
        BY <1>1, <4>1, <4>2, <4>3
    <3> QED
      BY <1>5, <2>1, <3>1, <3>2, <3>3
  <2> QED
    BY <2>1 DEF RootsAgree, LiveNodes, Live, Exists
<1>11. RootedForest'
  BY <1>0, <1>1 DEF RootedForest, Exists
<1>12. HistoryIsCurrent'
  <2>1. ASSUME NEW m \in Node, status'[m] # "absent" /\ removed'[m] = NotRemoved,
               replay'[m] # Nothing
        PROVE  replay'[m] = [parent |-> parent'[m], root |-> root'[m], status |-> status'[m]]
    <3>1. CASE m \in back
      BY <3>1 DEF Record, Row
    <3>2. CASE m \notin back
      <4>1. replay'[m] = replay[m] /\ root'[m] = root[m] /\ Live(m)
        BY <1>3, <1>5, <2>1, <3>2 DEF Record
      <4> QED
        BY <1>0, <1>1, <2>1, <4>1 DEF HistoryIsCurrent, LiveNodes, Row
    <3> QED
      BY <3>1, <3>2
  <2> QED
    BY <2>1 DEF HistoryIsCurrent, LiveNodes, Live, Exists, Row
<1> QED
  BY <1>6, <1>7, <1>9, <1>10, <1>11, <1>12 DEF TablesInv

-----------------------------------------------------------------------------
(* The initial trees.                                                      *)

\* Every set of nodes has an oldest one.
LEMMA OldestIsThere ==
  ASSUME NEW S \in SUBSET Node, S # {}
  PROVE  \E n \in S : \A m \in S : n <= m
<1> DEFINE upTo(n) == {m \in S : m <= n}
           T == {upTo(n) : n \in S}
<1>0. S \subseteq 1 .. MaxNode /\ MaxNode \in Int
  BY BoundsAssumption DEF Node
<1>1. IsFiniteSet(S)
  <2>1. IsFiniteSet(1 .. MaxNode)
    BY <1>0, FS_Interval
  <2> QED
    BY <1>0, <2>1, FS_Subset
<1>2. T \subseteq FiniteSubsetsOf(S) /\ T # {}
  <2>1. ASSUME NEW n \in S
        PROVE  upTo(n) \in FiniteSubsetsOf(S)
    <3>1. upTo(n) \in SUBSET S
      OBVIOUS
    <3>2. IsFiniteSet(upTo(n))
      BY <1>1, <3>1, FS_Subset
    <3> QED
      BY <3>1, <3>2 DEF FiniteSubsetsOf
  <2> QED
    BY <2>1
<1>3. PICK x \in T : \A y \in T : <<y, x>> \notin StrictSubsetOrdering(S)
  <2> HIDE DEF T
  <2> QED
    BY <1>2, FS_StrictSubsetOrderingWellFounded, WFMin
<1>4. PICK n \in S : x = upTo(n)
  OBVIOUS
<1>5. ASSUME NEW m \in S, ~(n <= m)
      PROVE  FALSE
  <2>1. upTo(m) \in T
    OBVIOUS
  <2>2. m < n /\ S \subseteq Int
    BY <1>0, <1>5
  <2>3. upTo(m) \subseteq upTo(n) /\ n \in upTo(n) /\ n \notin upTo(m)
    <3>1. \A k \in S : k <= m => k <= n
      BY <2>2
    <3>2. n <= n /\ ~(n <= m)
      BY <2>2
    <3> QED
      BY <3>1, <3>2
  <2>4. <<upTo(m), upTo(n)>> \in StrictSubsetOrdering(S)
    BY <2>3 DEF StrictSubsetOrdering
  <2> QED
    BY <1>3, <1>4, <2>1, <2>4
<1> QED
  BY <1>5

\* What creations leave is a forest: a ring would have an oldest node, and its
\* parent is older.
LEMMA InitTables ==
  ASSUME Init
  PROVE  TablesInv
<1>1. PICK f \in InitialTrees :
        LET there == DOMAIN f.parent
        IN  /\ parent = [n \in Node |-> IF n \in there THEN f.parent[n] ELSE NoParent]
            /\ root = [n \in Node |-> IF n \in there THEN f.root[n] ELSE 0]
            /\ status = [n \in Node |-> IF n \in there THEN f.status[n] ELSE "absent"]
            /\ revision = f.revision
            /\ replay = [n \in Node |-> IF n \in there THEN Row(n) ELSE Nothing]
  BY DEF Init
<1>2. PICK there : there = DOMAIN f.parent
  OBVIOUS
<1>3. /\ there \subseteq Node /\ f.revision \in 1 .. MaxRevision
      /\ f.root \in [there -> Node] /\ f.status \in [there -> Lifecycle]
      /\ \A n \in there :
           /\ f.parent[n] # NoParent => f.parent[n] \in there \cap 1 .. n - 1
           /\ f.root[n] = IF f.parent[n] = NoParent THEN n ELSE f.root[f.parent[n]]
  BY <1>2, ForestAssumption
<1>4. removed = [n \in Node |-> NotRemoved]
  BY DEF Init
<1>5. /\ parent = [n \in Node |-> IF n \in there THEN f.parent[n] ELSE NoParent]
      /\ root = [n \in Node |-> IF n \in there THEN f.root[n] ELSE 0]
      /\ status = [n \in Node |-> IF n \in there THEN f.status[n] ELSE "absent"]
      /\ revision = f.revision
      /\ replay = [n \in Node |-> IF n \in there THEN Row(n) ELSE Nothing]
  BY <1>1, <1>2
<1>6. \A n \in Node : Exists(n) <=> n \in there
  BY <1>3, <1>5 DEF Exists, Lifecycle
<1>7. TablesTyped
  BY <1>3, <1>4, <1>5, Numbers DEF TablesTyped, NotRemoved, NoParent
<1>8. \A n \in Node : Live(n) <=> n \in there
  BY <1>4, <1>6 DEF Live
<1>9. \A n \in there : parent[n] # NoParent => parent[n] \in there /\ parent[n] \in 1 .. n - 1
  BY <1>3, <1>5
<1>10. Attached
  BY <1>3, <1>6, <1>9 DEF Attached
<1>11. LiveParent
  BY <1>3, <1>8, <1>9 DEF LiveParent, LiveNodes
<1>12. RootsAgree
  BY <1>3, <1>5, <1>8, <1>9 DEF RootsAgree, LiveNodes
<1>13. RootedForest
  <2>1. ASSUME NEW C \in SUBSET Node, C # {}, \A m \in C : Exists(m),
               \A m \in C : parent[m] \in C
        PROVE  FALSE
    <3>1. PICK n \in C : \A m \in C : n <= m
      BY <2>1, OldestIsThere
    <3>2. n \in there /\ parent[n] \in C /\ parent[n] # NoParent
      BY <1>6, <2>1, Numbers
    <3>3. parent[n] \in 1 .. n - 1 /\ n <= parent[n] /\ n \in Nat
      BY <1>9, <2>1, <3>1, <3>2, Numbers
    <3> QED
      BY <3>3
  <2> QED
    BY <2>1 DEF RootedForest
<1>14. HistoryIsCurrent
  BY <1>5, <1>8 DEF HistoryIsCurrent, LiveNodes
<1> QED
  BY <1>7, <1>10, <1>11, <1>12, <1>13, <1>14 DEF TablesInv

-----------------------------------------------------------------------------
(* The branch edits in progress.                                           *)

\* The fields of an edit change together.
LEMMA FieldsChange ==
  ASSUME NEW f \in [Txn -> Edits], NEW t \in Txn, NEW h, NEW c, NEW b
  PROVE  /\ [f EXCEPT ![t].pc = c] = [f EXCEPT ![t] = [f[t] EXCEPT !.pc = c]]
         /\ [f EXCEPT ![t].held = h, ![t].pc = c]
              = [f EXCEPT ![t] = [f[t] EXCEPT !.held = h, !.pc = c]]
         /\ [f EXCEPT ![t].held = h, ![t].branch = b, ![t].pc = c]
              = [f EXCEPT ![t] = [f[t] EXCEPT !.held = h, !.branch = b, !.pc = c]]
<1>1. [f EXCEPT ![t].pc = c] = [f EXCEPT ![t] = [f[t] EXCEPT !.pc = c]]
  OBVIOUS
<1>2. PICK x : x = [f[t] EXCEPT !.held = h]
  OBVIOUS
<1>3. PICK g : g = [f EXCEPT ![t] = x]
  OBVIOUS
<1>4. DOMAIN g = Txn /\ g[t] = x /\ \A u \in Txn \ {t} : g[u] = f[u]
  BY <1>3
<1>5. PICK y : y = [x EXCEPT !.branch = b]
  OBVIOUS
<1>6. PICK k : k = [g EXCEPT ![t] = y]
  OBVIOUS
<1>7. DOMAIN k = Txn /\ k[t] = y /\ \A u \in Txn \ {t} : k[u] = f[u]
  BY <1>4, <1>6
<1>8. [g EXCEPT ![t].pc = c] = [f EXCEPT ![t] = [x EXCEPT !.pc = c]]
  BY <1>3, <1>4
<1>9. [k EXCEPT ![t].pc = c] = [f EXCEPT ![t] = [y EXCEPT !.pc = c]]
  BY <1>6, <1>7
<1>10. g = [f EXCEPT ![t].held = h] /\ k = [g EXCEPT ![t].branch = b]
  BY <1>2, <1>3, <1>4, <1>5, <1>6
<1> QED
  BY <1>1, <1>2, <1>5, <1>8, <1>9, <1>10

\* A transaction that is over relies on nothing.
LEMMA IdleHolds ==
  ASSUME TablesTyped
  PROVE  Idle \in Edits /\ EditHolds(Idle) /\ Idle.held = {} /\ Idle.op = "none"
BY Numbers DEF Idle, Edits, EditHolds, MoveHolds, RemoveHolds, RestoreHolds, AcceptHolds, ReadHolds,
   Anybody, TablesTyped

\* What an edit relies on depends on the tables only.
LEMMA SameTables ==
  ASSUME UNCHANGED <<rows, revision, replay>>, NEW x, EditHolds(x)
  PROVE  EditHolds(x)'
<1>1. UNCHANGED <<parent, root, status, removed, revision, replay>>
  BY DEF rows
<1>2. LiveNodes' = LiveNodes
  BY <1>1 DEF LiveNodes, Live, Exists
<1>3. LiveBranch(x.node)' = LiveBranch(x.node)
  <2>1. PICK S : S = LiveNodes
    OBVIOUS
  <2>2. Branch(x.node, S)' = Branch(x.node, S)
    BY <1>1, Zenon DEF Branch, Closed
  <2> QED
    BY <1>2, <2>1, <2>2 DEF LiveBranch
<1>4. Live(x.node)' = Live(x.node)
  BY <1>1 DEF Live, Exists
<1>5. ReadHolds(x)'
  BY <1>1, <1>3, <1>4 DEF EditHolds, ReadHolds
<1>6. MoveHolds(x)' /\ RemoveHolds(x)' /\ RestoreHolds(x)'
  BY <1>1 DEF EditHolds, MoveHolds, RemoveHolds, RestoreHolds, Live, Exists
<1>7. AcceptHolds(x)'
  BY <1>1, <1>3, <1>4 DEF EditHolds, AcceptHolds, OpenBelow, Descendants
<1> QED
  BY <1>1, <1>5, <1>6, <1>7 DEF EditHolds

\* The rows an edit holds are as they were, and the revision it states is an old one.
\* It is not an acceptance, which keeps the revision.
LEMMA HeldRowsStay ==
  ASSUME TablesTyped, NEW x \in Edits, EditHolds(x), revision' = revision + 1,
         x.pc # "accept",
         \A m \in x.held : Exists(m) =>
           status'[m] # "absent" /\ removed'[m] = removed[m] /\ parent'[m] = parent[m]
  PROVE  EditHolds(x)'
<1>1. MoveHolds(x)'
  BY DEF EditHolds, MoveHolds, Live, Exists
<1>2. RemoveHolds(x)'
  BY DEF EditHolds, RemoveHolds
<1>3. RestoreHolds(x)'
  BY DEF EditHolds, RestoreHolds, Live, Exists
<1>4. x.expected \in Nat /\ x.expected <= revision /\ revision \in Nat
  BY Numbers DEF EditHolds, Edits, TablesTyped
<1>5. x.expected <= revision' /\ x.expected # revision'
  BY <1>4
<1>6. AcceptHolds(x)'
  BY DEF EditHolds, AcceptHolds
<1> QED
  BY <1>1, <1>2, <1>3, <1>5, <1>6 DEF EditHolds, ReadHolds

\* One edit goes on with rows that nobody else has, and the tables stay.
LEMMA EditKeeps ==
  ASSUME EditsInv, UNCHANGED <<rows, revision, replay>>,
         NEW t \in Txn, NEW y \in Edits, EditHolds(y), txn' = [txn EXCEPT ![t] = y],
         \A u \in Txn \ {t} : y.held \cap txn[u].held = {},
         y.pc \in Holding => \A u \in Txn \ {t} : txn[u].pc \notin Holding
  PROVE  EditsInv'
<1>1. /\ txn \in [Txn -> Edits] /\ HeldApart /\ OneHolds /\ \A u \in Txn : EditHolds(txn[u])
  BY DEF EditsInv
<1>2. txn' \in [Txn -> Edits] /\ \A u \in Txn : txn'[u] = IF u = t THEN y ELSE txn[u]
  BY <1>1
<1>3. HeldApart' /\ OneHolds'
  BY <1>1, <1>2 DEF HeldApart, OneHolds
<1>4. ASSUME NEW u \in Txn
      PROVE  EditHolds(txn[u])'
  <2>1. PICK x : x = txn'[u]
    OBVIOUS
  <2>2. EditHolds(x)
    BY <1>1, <1>2, <2>1
  <2>3. EditHolds(x)'
    BY <2>2, SameTables
  <2> QED
    BY <2>1, <2>3 DEF EditHolds, MoveHolds, RemoveHolds, RestoreHolds, AcceptHolds, ReadHolds
<1> QED
  BY <1>2, <1>3, <1>4 DEF EditsInv

\* An edit that ends without a change gives its rows back.
LEMMA EndKeeps ==
  ASSUME TablesTyped, EditsInv, UNCHANGED <<rows, revision, replay>>, NEW t \in Txn, End(t)
  PROVE  EditsInv'
BY IdleHolds, EditKeeps DEF End, Idle, Holding

\* A change of rows that the other edits do not hold.
LEMMA ChangeKeeps ==
  ASSUME TablesTyped, TablesTyped', EditsInv, revision' = revision + 1,
         NEW F, \A m \in Node \ F : Exists(m) =>
           status'[m] # "absent" /\ removed'[m] = removed[m] /\ parent'[m] = parent[m],
         NEW T \in SUBSET Txn, \A u \in Txn \ T : txn[u].held \cap F = {},
         \A u \in Txn \ T : txn[u].pc # "accept",
         txn' = [u \in Txn |-> IF u \in T THEN Idle ELSE txn[u]]
  PROVE  EditsInv'
<1>1. /\ txn \in [Txn -> Edits] /\ HeldApart /\ OneHolds /\ \A u \in Txn : EditHolds(txn[u])
  BY DEF EditsInv
<1>2. txn' \in [Txn -> Edits] /\ \A u \in Txn : txn'[u] = IF u \in T THEN Idle ELSE txn[u]
  BY <1>1, IdleHolds
<1>3. HeldApart' /\ OneHolds'
  BY <1>1, <1>2, IdleHolds DEF HeldApart, OneHolds, Holding, Idle
<1>4. ASSUME NEW u \in Txn
      PROVE  EditHolds(txn[u])'
  <2>1. CASE u \in T
    <3>1. EditHolds(Idle)'
      <4>1. TablesTyped' => EditHolds(Idle)'
        BY Numbers DEF Idle, Edits, EditHolds, MoveHolds, RemoveHolds, RestoreHolds, AcceptHolds,
           ReadHolds, Anybody, TablesTyped
      <4> QED
        BY <4>1
    <3> QED
      BY <1>2, <2>1, <3>1 DEF EditHolds, MoveHolds, RemoveHolds, RestoreHolds, AcceptHolds, ReadHolds
  <2>2. CASE u \notin T
    <3>1. PICK x \in Edits : x = txn[u]
      BY <1>1
    <3>2. x.held \subseteq Node \ F
      BY <2>2, <3>1 DEF Edits
    <3>3. EditHolds(x)'
      BY <1>1, <2>2, <3>1, <3>2, HeldRowsStay
    <3>4. txn'[u] = x
      BY <1>2, <2>2, <3>1
    <3> QED
      BY <3>3, <3>4 DEF EditHolds, MoveHolds, RemoveHolds, RestoreHolds, AcceptHolds, ReadHolds
  <2> QED
    BY <2>1, <2>2
<1> QED
  BY <1>2, <1>3, <1>4 DEF EditsInv

-----------------------------------------------------------------------------
(* The steps of a branch edit.                                             *)

\* An edit begins with a node of the tree, or with the lock of a removed one.
LEMMA BeginKeeps ==
  ASSUME TablesTyped, EditsInv, NEW t \in Txn,
         (\E n, p \in Node : BeginMove(t, n, p))
           \/ (\E n \in Node : BeginRemove(t, n) \/ BeginRestore(t, n))
  PROVE  EditsInv'
<1>1. ASSUME NEW n \in Node
      PROVE  LiveBranch(n) \in SUBSET Node
  BY BranchFacts DEF LiveBranch, LiveNodes
<1>2. \A e \in Preconditions : e \in 0 .. MaxRevision /\ e <= revision
  BY Numbers DEF Preconditions, Anybody, TablesTyped
<1>3. ASSUME NEW n \in Node, NEW p \in Node, BeginMove(t, n, p)
      PROVE  EditsInv'
  <2>1. PICK e \in Preconditions :
          txn' = [txn EXCEPT ![t] = [Idle EXCEPT
                   !.op = "move", !.node = n, !.relative = p, !.pc = "branch",
                   !.branch = LiveBranch(n), !.expected = e]]
    BY <1>3 DEF BeginMove
  <2>2. PICK y : y = [Idle EXCEPT
               !.op = "move", !.node = n, !.relative = p, !.pc = "branch",
               !.branch = LiveBranch(n), !.expected = e]
    OBVIOUS
  <2>3. /\ y.op = "move" /\ y.node = n /\ y.relative = p /\ y.pc = "branch"
        /\ y.branch = LiveBranch(n) /\ y.held = {} /\ y.expected = e
    BY <2>2 DEF Idle
  <2>4. y \in Edits
    BY <1>1, <1>2, <2>2, Numbers DEF Edits, Idle, Anybody, NoParent
  <2>5. Live(n) /\ UNCHANGED <<rows, revision, replay>>
    BY <1>3 DEF BeginMove
  <2>6. EditHolds(y)
    BY <1>2, <2>3, <2>5 DEF EditHolds, MoveHolds, RemoveHolds, RestoreHolds, AcceptHolds, ReadHolds
  <2>7. txn' = [txn EXCEPT ![t] = y]
    BY <2>1, <2>2
  <2>8. y.pc \notin Holding /\ \A u \in Txn \ {t} : y.held \cap txn[u].held = {}
    BY <2>3 DEF Holding
  <2> QED
    BY <2>4, <2>5, <2>6, <2>7, <2>8, EditKeeps
<1>4. ASSUME NEW n \in Node, BeginRemove(t, n)
      PROVE  EditsInv'
  <2>1. PICK e \in Preconditions :
          txn' = [txn EXCEPT ![t] = [Idle EXCEPT
                   !.op = "remove", !.node = n, !.pc = "branch",
                   !.branch = LiveBranch(n), !.expected = e]]
    BY <1>4 DEF BeginRemove
  <2>2. PICK y : y = [Idle EXCEPT
               !.op = "remove", !.node = n, !.pc = "branch",
               !.branch = LiveBranch(n), !.expected = e]
    OBVIOUS
  <2>3. /\ y.op = "remove" /\ y.node = n /\ y.relative = 0 /\ y.pc = "branch"
        /\ y.branch = LiveBranch(n) /\ y.held = {} /\ y.expected = e
    BY <2>2 DEF Idle
  <2>4. y \in Edits
    BY <1>1, <1>2, <2>2, Numbers DEF Edits, Idle, Anybody, NoParent
  <2>5. Live(n) /\ UNCHANGED <<rows, revision, replay>>
    BY <1>4 DEF BeginRemove
  <2>6. EditHolds(y)
    BY <1>2, <2>3, <2>5 DEF EditHolds, MoveHolds, RemoveHolds, RestoreHolds, AcceptHolds, ReadHolds
  <2>7. txn' = [txn EXCEPT ![t] = y]
    BY <2>1, <2>2
  <2>8. y.pc \notin Holding /\ \A u \in Txn \ {t} : y.held \cap txn[u].held = {}
    BY <2>3 DEF Holding
  <2> QED
    BY <2>4, <2>5, <2>6, <2>7, <2>8, EditKeeps
<1>5. ASSUME NEW n \in Node, BeginRestore(t, n)
      PROVE  EditsInv'
  <2>1. PICK e \in Preconditions :
          txn' = [txn EXCEPT ![t] = [Idle EXCEPT
                   !.op = "restore", !.node = n, !.relative = parent[n],
                   !.pc = "relative", !.held = {n}, !.expected = e]]
    BY <1>5 DEF BeginRestore
  <2>2. PICK y : y = [Idle EXCEPT
               !.op = "restore", !.node = n, !.relative = parent[n],
               !.pc = "relative", !.held = {n}, !.expected = e]
    OBVIOUS
  <2>3. /\ y.op = "restore" /\ y.node = n /\ y.relative = parent[n] /\ y.pc = "relative"
        /\ y.branch = {} /\ y.held = {n} /\ y.expected = e
    BY <2>2 DEF Idle
  <2>4. /\ Exists(n) /\ removed[n] # NotRemoved /\ parent[n] \in Node
        /\ \A u \in Txn : n \notin txn[u].held
        /\ UNCHANGED <<rows, revision, replay>>
    BY <1>5, Numbers DEF BeginRestore, Live, FreeRow, TablesTyped
  <2>5. y \in Edits
    BY <1>2, <2>2, <2>4, Numbers DEF Edits, Idle, Anybody
  <2>6. EditHolds(y)
    BY <1>2, <2>3, <2>4 DEF EditHolds, MoveHolds, RemoveHolds, RestoreHolds, AcceptHolds, ReadHolds
  <2>7. txn' = [txn EXCEPT ![t] = y]
    BY <2>1, <2>2
  <2>8. y.pc \notin Holding /\ \A u \in Txn \ {t} : y.held \cap txn[u].held = {}
    BY <2>3, <2>4 DEF Holding
  <2> QED
    BY <2>4, <2>5, <2>6, <2>7, <2>8, EditKeeps
<1> QED
  BY <1>3, <1>4, <1>5

\* The locks of the branch: a move and a removal have then seen planned work only.
LEMMA LockBranchKeeps ==
  ASSUME TablesTyped, EditsInv, NEW t \in Txn, LockBranch(t)
  PROVE  EditsInv'
<1>1. PICK x \in Edits : x = txn[t]
  BY DEF EditsInv
<1>2. EditHolds(x) /\ txn \in [Txn -> Edits] /\ HeldApart
  BY <1>1 DEF EditsInv
<1>3. /\ x.pc = "branch" /\ x.op # "close" /\ UNCHANGED <<rows, revision, replay>>
      /\ \A u \in Txn \ {t} : x.branch \cap txn[u].held = {}
  BY <1>1, <1>2 DEF LockBranch, FreeFor, EditHolds, AcceptHolds
<1>4. CASE /\ x.op = "restore" \/ MayEdit(t)
           /\ txn' = [txn EXCEPT ![t].held = x.held \cup x.branch, ![t].pc = AfterBranch(x.op)]
  <2>1. PICK y : y = [x EXCEPT !.held = x.held \cup x.branch, !.pc = AfterBranch(x.op)]
    OBVIOUS
  <2>2. /\ y.op = x.op /\ y.node = x.node /\ y.relative = x.relative /\ y.branch = x.branch
        /\ y.expected = x.expected /\ y.held = x.held \cup x.branch /\ y.pc = AfterBranch(x.op)
    BY <2>1 DEF Edits
  <2>3. y \in Edits
    BY <1>1, <2>1 DEF Edits, AfterBranch
  <2>4. x.op # "restore" => \A m \in x.branch : status[m] = "planned"
    BY <1>1, <1>4 DEF MayEdit
  <2>5. MoveHolds(y) /\ RemoveHolds(y)
    BY <1>2, <2>2 DEF EditHolds, MoveHolds, RemoveHolds, AfterBranch
  <2>6. RestoreHolds(y)
    BY <1>2, <1>3, <2>2 DEF EditHolds, RestoreHolds
  <2>7. ReadHolds(y) /\ y.expected <= revision /\ AcceptHolds(y) /\ y.pc \notin Holding
    BY <1>2, <1>3, <2>2, <2>4 DEF EditHolds, ReadHolds, AcceptHolds, AfterBranch, Holding
  <2>8. txn' = [txn EXCEPT ![t] = y]
    <3>1. txn' = [txn EXCEPT ![t] = [txn[t] EXCEPT !.held = x.held \cup x.branch, !.pc = AfterBranch(x.op)]]
      <4>1. PICK h, c : h = x.held \cup x.branch /\ c = AfterBranch(x.op)
        OBVIOUS
      <4>2. [txn EXCEPT ![t].held = h, ![t].pc = c]
              = [txn EXCEPT ![t] = [txn[t] EXCEPT !.held = h, !.pc = c]]
        BY <1>2, FieldsChange
      <4> QED
        BY <1>4, <4>1, <4>2
    <3> QED
      BY <1>1, <2>1, <3>1
  <2>9. \A u \in Txn \ {t} : y.held \cap txn[u].held = {}
    BY <1>1, <1>2, <1>3, <2>2 DEF HeldApart
  <2>10. EditHolds(y)
    BY <2>5, <2>6, <2>7 DEF EditHolds
  <2> QED
    BY <1>3, <2>3, <2>7, <2>8, <2>9, <2>10, EditKeeps
<1>5. CASE End(t)
  BY <1>3, <1>5, EndKeeps
<1> QED
  BY <1>1, <1>4, <1>5 DEF LockBranch

\* The lock of the destination or of the parent, which is in the tree.
LEMMA LockRelativeKeeps ==
  ASSUME TablesTyped, EditsInv, NEW t \in Txn, LockRelative(t)
  PROVE  EditsInv'
<1>1. PICK x \in Edits : x = txn[t]
  BY DEF EditsInv
<1>2. EditHolds(x) /\ txn \in [Txn -> Edits] /\ HeldApart
  BY <1>1 DEF EditsInv
<1>3. /\ x.pc = "relative" /\ UNCHANGED <<rows, revision, replay>>
      /\ \A u \in Txn \ {t} : x.relative \notin txn[u].held
  BY <1>1 DEF LockRelative, FreeFor
<1>4. CASE /\ Receives(x.relative) /\ x.op = "move"
           /\ txn' = [txn EXCEPT ![t].held = x.held \cup {x.relative}, ![t].pc = "update"]
  <2>1. PICK y : y = [x EXCEPT !.held = x.held \cup {x.relative}, !.pc = "update"]
    OBVIOUS
  <2>2. /\ y.op = "move" /\ y.node = x.node /\ y.relative = x.relative /\ y.branch = x.branch
        /\ y.expected = x.expected /\ y.held = x.held \cup {x.relative} /\ y.pc = "update"
    BY <1>4, <2>1 DEF Edits
  <2>3. Live(x.relative) /\ x.node \in Node /\ x.relative \in Node
    BY <1>2, <1>4 DEF Receives, EditHolds, MoveHolds
  <2>4. y \in Edits
    BY <1>1, <2>1, <2>3 DEF Edits
  <2>5. MoveHolds(y) /\ RemoveHolds(y) /\ RestoreHolds(y)
    BY <2>2, <2>3 DEF MoveHolds, RemoveHolds, RestoreHolds
  <2>6. ReadHolds(y) /\ y.expected <= revision /\ AcceptHolds(y) /\ y.pc \notin Holding
    BY <1>2, <1>3, <1>4, <2>2 DEF EditHolds, ReadHolds, AcceptHolds, Holding
  <2>7. txn' = [txn EXCEPT ![t] = y]
    <3>1. txn' = [txn EXCEPT ![t] = [txn[t] EXCEPT !.held = x.held \cup {x.relative}, !.pc = "update"]]
      BY <1>2, <1>4, FieldsChange
    <3> QED
      BY <1>1, <2>1, <3>1
  <2>8. \A u \in Txn \ {t} : y.held \cap txn[u].held = {}
    BY <1>1, <1>2, <1>3, <2>2 DEF HeldApart
  <2>9. EditHolds(y)
    BY <2>5, <2>6 DEF EditHolds
  <2> QED
    BY <1>3, <2>4, <2>6, <2>7, <2>8, <2>9, EditKeeps
<1>5. CASE /\ Receives(x.relative) /\ x.op = "restore"
           /\ txn' = [txn EXCEPT ![t].held = x.held \cup {x.relative},
                                 ![t].branch = RemovedBranch(x.node), ![t].pc = "branch"]
  <2>1. PICK y : y = [x EXCEPT !.held = x.held \cup {x.relative},
                             !.branch = RemovedBranch(x.node), !.pc = "branch"]
    OBVIOUS
  <2>2. /\ y.op = "restore" /\ y.node = x.node /\ y.relative = x.relative
        /\ y.expected = x.expected /\ y.held = x.held \cup {x.relative} /\ y.pc = "branch"
    BY <1>5, <2>1 DEF Edits
  <2>3. /\ Live(x.relative) /\ x.relative \in Node /\ x.node \in Node /\ x.node \in x.held
        /\ Exists(x.node) /\ removed[x.node] # NotRemoved /\ parent[x.node] = x.relative
    BY <1>2, <1>5 DEF Receives, EditHolds, RestoreHolds
  <2>4. RemovedBranch(x.node) \subseteq Node
    <3>1. PICK S : S = {m \in Node : Exists(m) /\ removed[m] = removed[x.node]}
      OBVIOUS
    <3>2. PICK B : B = Branch(x.node, S)
      OBVIOUS
    <3>3. B \subseteq S \cup {x.node}
      BY <3>2, BranchFacts
    <3> QED
      BY <2>3, <3>1, <3>2, <3>3 DEF RemovedBranch
  <2>5. y \in Edits
    BY <1>1, <2>1, <2>3, <2>4 DEF Edits
  <2>6. MoveHolds(y) /\ RemoveHolds(y) /\ RestoreHolds(y)
    BY <2>2, <2>3 DEF MoveHolds, RemoveHolds, RestoreHolds
  <2>7. ReadHolds(y) /\ y.expected <= revision /\ AcceptHolds(y) /\ y.pc \notin Holding
    BY <1>2, <2>2 DEF EditHolds, ReadHolds, AcceptHolds, Holding
  <2>8. txn' = [txn EXCEPT ![t] = y]
    <3>1. txn' = [txn EXCEPT ![t] = [txn[t] EXCEPT !.held = x.held \cup {x.relative},
                                             !.branch = RemovedBranch(x.node), !.pc = "branch"]]
      <4>1. PICK h, b : h = x.held \cup {x.relative} /\ b = RemovedBranch(x.node)
        OBVIOUS
      <4>2. [txn EXCEPT ![t].held = h, ![t].branch = b, ![t].pc = "branch"]
              = [txn EXCEPT ![t] = [txn[t] EXCEPT !.held = h, !.branch = b, !.pc = "branch"]]
        BY <1>2, FieldsChange
      <4> QED
        BY <1>5, <4>1, <4>2
    <3> QED
      BY <1>1, <2>1, <3>1
  <2>9. \A u \in Txn \ {t} : y.held \cap txn[u].held = {}
    BY <1>1, <1>2, <1>3, <2>2 DEF HeldApart
  <2>10. EditHolds(y)
    BY <2>6, <2>7 DEF EditHolds
  <2> QED
    BY <1>3, <2>5, <2>7, <2>8, <2>9, <2>10, EditKeeps
<1>6. CASE End(t)
  BY <1>3, <1>6, EndKeeps
<1> QED
  BY <1>1, <1>4, <1>5, <1>6 DEF LockRelative

\* A move inside itself goes on reading with the rows it has.
LEMMA InsideKeeps ==
  ASSUME TablesTyped, EditsInv, NEW t \in Txn, MoveInsideItself(t)
  PROVE  EditsInv'
<1>1. PICK x \in Edits : x = txn[t]
  BY DEF EditsInv
<1>2. EditHolds(x) /\ txn \in [Txn -> Edits] /\ HeldApart
  BY <1>1 DEF EditsInv
<1>3. /\ x.op = "move" /\ x.pc = "update" /\ UNCHANGED <<rows, revision, replay>>
      /\ txn' = [txn EXCEPT ![t].pc = "endless"]
      /\ \A u \in Txn : txn[u].pc \notin Holding
  BY <1>1 DEF MoveInsideItself, WorkspaceFree, Holding
<1>4. PICK y : y = [x EXCEPT !.pc = "endless"]
  OBVIOUS
<1>5. /\ y.op = "move" /\ y.node = x.node /\ y.relative = x.relative /\ y.branch = x.branch
       /\ y.expected = x.expected /\ y.held = x.held /\ y.pc = "endless"
  BY <1>3, <1>4 DEF Edits
<1>6. y \in Edits
  BY <1>1, <1>4 DEF Edits
<1>7. MoveHolds(y) /\ RemoveHolds(y) /\ RestoreHolds(y)
  BY <1>2, <1>3, <1>5 DEF EditHolds, MoveHolds, RemoveHolds, RestoreHolds
<1>8. ReadHolds(y) /\ y.expected <= revision /\ AcceptHolds(y)
  BY <1>2, <1>3, <1>5 DEF EditHolds, ReadHolds, AcceptHolds
<1>9. txn' = [txn EXCEPT ![t] = y]
  BY <1>1, <1>2, <1>3, <1>4, FieldsChange
<1>10. \A u \in Txn \ {t} : y.held \cap txn[u].held = {}
  BY <1>1, <1>2, <1>5 DEF HeldApart
<1>11. EditHolds(y)
  BY <1>7, <1>8 DEF EditHolds
<1> QED
  BY <1>3, <1>6, <1>9, <1>10, <1>11, EditKeeps

-----------------------------------------------------------------------------
(* The steps that change the tables.                                       *)

\* An acceptance begins with the rows of the workspace and of the task.
LEMMA BeginAcceptKeeps ==
  ASSUME TablesTyped, EditsInv, NEW t \in Txn, NEW n \in Node, BeginAccept(t, n)
  PROVE  EditsInv'
<1>1. PICK y : y = [Idle EXCEPT !.op = "close", !.node = n, !.pc = "accept", !.held = {n}]
  OBVIOUS
<1>2. /\ y.op = "close" /\ y.node = n /\ y.relative = 0 /\ y.pc = "accept"
      /\ y.branch = {} /\ y.held = {n} /\ y.expected = Anybody
  BY <1>1 DEF Idle
<1>3. y \in Edits
  <2>1. 0 \in 0 .. MaxNode /\ 0 \in 0 .. MaxRevision /\ n \in 0 .. MaxNode /\ {n} \subseteq Node
    BY Numbers
  <2>2. y = [op |-> "close", node |-> n, relative |-> 0, pc |-> "accept",
             branch |-> {}, held |-> {n}, expected |-> 0]
    BY <1>1 DEF Idle, Anybody
  <2> QED
    BY <2>1, <2>2 DEF Edits
<1>4. /\ Live(n) /\ ~OpenBelow(n) /\ txn' = [txn EXCEPT ![t] = y]
      /\ UNCHANGED <<rows, revision, replay>>
  BY <1>1 DEF BeginAccept
<1>5. EditHolds(y)
  BY <1>2, <1>4, Numbers DEF EditHolds, MoveHolds, RemoveHolds, RestoreHolds, AcceptHolds, ReadHolds,
     Anybody, TablesTyped
<1>6. \A u \in Txn : y.held \cap txn[u].held = {} /\ txn[u].pc \notin Holding
  BY <1>2 DEF BeginAccept, FreeRow, WorkspaceFree, Holding
<1> QED
  BY <1>3, <1>4, <1>5, <1>6, EditKeeps

\* The tables' own operations touch no row that an edit holds: a creation adds one.
LEMMA OperationKeeps ==
  ASSUME TablesInv, EditsInv,
         \/ \E n \in Node, p \in Node \cup {NoParent} : Create(n, p)
         \/ \E n \in Node : Update(n) \/ \E s \in Lifecycle : Work(n, s)
  PROVE  BranchesInv'
<1>0. TablesTyped
  BY DEF TablesInv
<1>1. ASSUME TablesInv', UNCHANGED txn, revision' = revision + 1, WorkspaceFree,
             \A m \in Node : Exists(m) =>
               status'[m] # "absent" /\ removed'[m] = removed[m] /\ parent'[m] = parent[m]
      PROVE  BranchesInv'
  <2>1. PICK F, T : F = {} /\ T = {}
    OBVIOUS
  <2>2. txn' = [u \in Txn |-> IF u \in T THEN Idle ELSE txn[u]]
    BY <1>1, <2>1 DEF EditsInv
  <2>3. TablesTyped'
    BY <1>1 DEF TablesInv
  <2>4. EditsInv'
    <3>1. \A m \in Node \ F : Exists(m) =>
            status'[m] # "absent" /\ removed'[m] = removed[m] /\ parent'[m] = parent[m]
      BY <1>1
    <3>2. /\ T \in SUBSET Txn /\ \A u \in Txn \ T : txn[u].held \cap F = {}
          /\ \A u \in Txn \ T : txn[u].pc # "accept"
      BY <1>1, <2>1 DEF WorkspaceFree
    <3> QED
      BY <1>0, <1>1, <2>2, <2>3, <3>1, <3>2, ChangeKeeps
  <2> QED
    BY <1>1, <2>4 DEF BranchesInv
<1>2. ASSUME NEW n \in Node, NEW p \in Node \cup {NoParent}, Create(n, p)
      PROVE  BranchesInv'
  <2>1. TablesInv'
    BY <1>2, CreateKeeps
  <2>2. UNCHANGED txn /\ revision' = revision + 1 /\ WorkspaceFree
    BY <1>2 DEF Create, Advance, Counted
  <2>3. \A m \in Node : Exists(m) =>
          status'[m] # "absent" /\ removed'[m] = removed[m] /\ parent'[m] = parent[m]
    BY <1>0, <1>2 DEF Create, Exists, TablesTyped
  <2> QED
    BY <1>1, <2>1, <2>2, <2>3
<1>3. ASSUME NEW n \in Node, NEW s \in Lifecycle, Live(n), UNCHANGED <<parent, root, removed, txn>>,
             status' = [status EXCEPT ![n] = s], Advance, Record({n})
      PROVE  BranchesInv'
  <2>1. TablesInv'
    BY <1>3, StatusKeeps DEF Advance
  <2>2. revision' = revision + 1 /\ WorkspaceFree
    BY <1>3 DEF Advance, Counted
  <2>3. \A m \in Node : Exists(m) =>
          status'[m] # "absent" /\ removed'[m] = removed[m] /\ parent'[m] = parent[m]
    BY <1>0, <1>3 DEF Exists, TablesTyped, Lifecycle
  <2> QED
    BY <1>1, <1>3, <2>1, <2>2, <2>3
<1>4. ASSUME NEW n \in Node, Update(n)
      PROVE  BranchesInv'
  <2>1. PICK s : s = status[n]
    OBVIOUS
  <2>2. s \in Lifecycle /\ status = [status EXCEPT ![n] = s]
    BY <1>0, <1>4, <2>1 DEF Update, Live, Exists, TablesTyped
  <2>3. /\ Live(n) /\ Advance /\ Record({n}) /\ UNCHANGED <<parent, root, removed, txn>>
        /\ status' = status
    BY <1>4 DEF Update, rows
  <2> QED
    BY <1>3, <2>2, <2>3
<1>5. ASSUME NEW n \in Node, NEW s \in Lifecycle, Work(n, s)
      PROVE  BranchesInv'
  BY <1>3, <1>5 DEF Work
<1> QED
  BY <1>2, <1>4, <1>5

\* An acceptance commits: nobody else relies on what is below the task.
LEMMA AcceptKeeps ==
  ASSUME TablesInv, EditsInv, NEW t \in Txn, Accept(t)
  PROVE  BranchesInv'
<1>0. TablesTyped
  BY DEF TablesInv
<1>1. PICK x \in Edits : x = txn[t]
  BY DEF EditsInv
<1>2. EditHolds(x) /\ txn \in [Txn -> Edits] /\ OneHolds
  BY <1>1 DEF EditsInv
<1>3. PICK n : n = x.node
  OBVIOUS
<1>4. /\ x.pc = "accept" /\ Counted /\ Record({n}) /\ UNCHANGED <<parent, root, removed>>
      /\ status' = [status EXCEPT ![n] = "closed"] /\ End(t)
  BY <1>1, <1>3 DEF Accept
<1>5. n \in Node /\ Live(n)
  BY <1>2, <1>3, <1>4 DEF EditHolds, AcceptHolds
<1>6. TablesInv'
  BY <1>4, <1>5, StatusKeeps DEF Lifecycle
<1>7. PICK F, T : F = {} /\ T = {t}
  OBVIOUS
<1>8. \A m \in Node \ F : Exists(m) =>
        status'[m] # "absent" /\ removed'[m] = removed[m] /\ parent'[m] = parent[m]
  BY <1>0, <1>4, <1>5 DEF Exists, TablesTyped, Lifecycle
<1>9. /\ T \in SUBSET Txn /\ \A u \in Txn \ T : txn[u].held \cap F = {}
      /\ \A u \in Txn \ T : txn[u].pc # "accept"
  BY <1>1, <1>2, <1>4, <1>7 DEF OneHolds, Holding
<1>10. txn' = [u \in Txn |-> IF u \in T THEN Idle ELSE txn[u]]
  BY <1>2, <1>4, <1>7 DEF End
<1>11. revision' = revision + 1 /\ TablesTyped'
  BY <1>4, <1>6 DEF Counted, TablesInv
<1>12. EditsInv'
  BY <1>0, <1>8, <1>9, <1>10, <1>11, ChangeKeeps
<1> QED
  BY <1>6, <1>12 DEF BranchesInv

\* A branch edit commits: the rows it changes are free for it, and it gives back
\* what it holds.
LEMMA CommitKeeps ==
  ASSUME TablesInv, EditsInv, NEW t \in Txn, Move(t) \/ Remove(t) \/ Restore(t)
  PROVE  BranchesInv'
<1>0. TablesTyped
  BY DEF TablesInv
<1>1. PICK x \in Edits : x = txn[t]
  BY DEF EditsInv
<1>2. EditHolds(x) /\ txn \in [Txn -> Edits]
  BY <1>1 DEF EditsInv
<1>3. /\ x.pc = "update" /\ ~Stale(t) /\ Advance /\ End(t)
      /\ revision' = revision + 1 /\ \A u \in Txn : txn[u].pc # "accept"
      /\ \A m \in Touched(t) : \A u \in Txn \ {t} : m \notin txn[u].held
  BY <1>1 DEF Move, Remove, Restore, Ready, FreeFor, Advance, Counted, WorkspaceFree
<1>4. txn' = [u \in Txn |-> IF u \in {t} THEN Idle ELSE txn[u]]
  BY <1>2, <1>3 DEF End
<1>5. ASSUME TablesInv',
             \A m \in Node \ Touched(t) : Exists(m) =>
               status'[m] # "absent" /\ removed'[m] = removed[m] /\ parent'[m] = parent[m]
      PROVE  BranchesInv'
  <2>1. PICK F, T : F = Touched(t) /\ T = {t}
    OBVIOUS
  <2>2. /\ TablesTyped'
        /\ T \in SUBSET Txn /\ \A u \in Txn \ T : txn[u].held \cap F = {}
        /\ \A u \in Txn \ T : txn[u].pc # "accept"
        /\ txn' = [u \in Txn |-> IF u \in T THEN Idle ELSE txn[u]]
    BY <1>3, <1>4, <1>5, <2>1 DEF TablesInv
  <2>3. \A m \in Node \ F : Exists(m) =>
          status'[m] # "absent" /\ removed'[m] = removed[m] /\ parent'[m] = parent[m]
    BY <1>5, <2>1
  <2>4. EditsInv'
    BY <1>0, <1>3, <2>2, <2>3, ChangeKeeps
  <2> QED
    BY <1>5, <2>4 DEF BranchesInv
<1>6. CASE Move(t)
  <2>1. PICK n, p, B : n = x.node /\ p = x.relative /\ B = Touched(t)
    OBVIOUS
  <2>2. x.op = "move" /\ p \notin LiveBranch(n) /\ B = LiveBranch(n)
    BY <1>1, <1>6, <2>1 DEF Move, ReadsForEver, Touched
  <2>3. n \in Node /\ p \in Node /\ Live(p)
    BY <1>2, <1>3, <2>1, <2>2 DEF EditHolds, MoveHolds
  <2>4. /\ parent' = [parent EXCEPT ![n] = p]
        /\ root' = [m \in Node |-> IF m \in B THEN root[p] ELSE root[m]]
        /\ UNCHANGED <<status, removed>>
        /\ Record(IF Live(n) THEN B ELSE {})
    BY <1>1, <1>6, <2>1 DEF Move
  <2>5. TablesInv'
    BY <1>3, <2>2, <2>3, <2>4, MoveKeeps
  <2>6. n \in B
    BY <2>2, BranchFacts DEF LiveBranch
  <2>7. \A m \in Node \ Touched(t) : Exists(m) =>
          status'[m] # "absent" /\ removed'[m] = removed[m] /\ parent'[m] = parent[m]
    BY <1>0, <2>1, <2>4, <2>6 DEF Exists, TablesTyped
  <2> QED
    BY <1>5, <2>5, <2>7
<1>7. CASE Remove(t)
  <2>1. PICK n, B, F : n = x.node /\ B = Touched(t) /\ F = x.branch
    OBVIOUS
  <2>2. x.op = "remove" /\ B = LiveBranch(n)
    BY <1>1, <1>7, <2>1 DEF Remove, Touched
  <2>3. n \in Node
    BY <1>2, <2>1, <2>2 DEF EditHolds, RemoveHolds
  <2>4. /\ removed' = [m \in Node |-> IF m \in B THEN revision + 1 ELSE removed[m]]
        /\ UNCHANGED <<parent, root, status>> /\ Forget(F)
    BY <1>1, <1>7, <2>1 DEF Remove
  <2>5. TablesInv'
    BY <1>3, <2>2, <2>3, <2>4, RemoveKeeps
  <2>6. \A m \in Node \ Touched(t) : Exists(m) =>
          status'[m] # "absent" /\ removed'[m] = removed[m] /\ parent'[m] = parent[m]
    BY <2>1, <2>4 DEF Exists
  <2> QED
    BY <1>5, <2>5, <2>6
<1>8. CASE Restore(t)
  <2>1. PICK n, p, back : n = x.node /\ p = x.relative /\ back = Touched(t)
    OBVIOUS
  <2>2. x.op = "restore" /\ back = RemovedBranch(n)
    BY <1>1, <1>8, <2>1 DEF Restore, Touched
  <2>3. /\ n \in Node /\ Exists(n) /\ removed[n] # NotRemoved
        /\ p \in Node /\ parent[n] = p /\ Live(p)
    BY <1>2, <1>3, <2>1, <2>2 DEF EditHolds, RestoreHolds
  <2>4. /\ removed' = [m \in Node |-> IF m \in back THEN NotRemoved ELSE removed[m]]
        /\ root' = [m \in Node |-> IF m \in back THEN root[p] ELSE root[m]]
        /\ UNCHANGED <<parent, status>> /\ Record(back)
    BY <1>1, <1>8, <2>1 DEF Restore
  <2>5. TablesInv'
    BY <1>3, <2>2, <2>3, <2>4, RestoreKeeps
  <2>6. \A m \in Node \ Touched(t) : Exists(m) =>
          status'[m] # "absent" /\ removed'[m] = removed[m] /\ parent'[m] = parent[m]
    BY <2>1, <2>4 DEF Exists
  <2> QED
    BY <1>5, <2>5, <2>6
<1> QED
  BY <1>6, <1>7, <1>8

\* What the code does at once keeps the tree and the edits in progress.
LEMMA StepKeepsBranches ==
  ASSUME BranchesInv, [Next]_vars
  PROVE  BranchesInv'
<1>0. TablesInv /\ TablesTyped /\ EditsInv
  BY DEF BranchesInv, TablesInv
<1>1. ASSUME UNCHANGED <<rows, revision, replay>>, EditsInv'
      PROVE  BranchesInv'
  BY <1>0, <1>1, TablesStay DEF BranchesInv
<1>2. CASE UNCHANGED vars
  <2>1. UNCHANGED <<rows, revision, replay>> /\ UNCHANGED txn
    BY <1>2 DEF vars, rows
  <2>2. EditsInv'
    <3>1. ASSUME NEW u \in Txn
          PROVE  EditHolds(txn[u])'
      <4>1. PICK x : x = txn[u]
        OBVIOUS
      <4>2. EditHolds(x)'
        BY <1>0, <2>1, <4>1, SameTables DEF EditsInv
      <4> QED
        BY <2>1, <4>1, <4>2 DEF EditHolds, MoveHolds, RemoveHolds, RestoreHolds, AcceptHolds, ReadHolds
    <3> QED
      BY <1>0, <2>1, <3>1 DEF EditsInv, HeldApart, OneHolds
  <2> QED
    BY <1>1, <2>1, <2>2
<1>3. CASE \/ \E n \in Node, p \in Node \cup {NoParent} : Create(n, p)
           \/ \E n \in Node : Update(n) \/ \E s \in Lifecycle : Work(n, s)
  BY <1>0, <1>3, OperationKeeps
<1>4. ASSUME NEW t \in Txn, Edit(t)
      PROVE  BranchesInv'
  <2>1. CASE (\E n, p \in Node : BeginMove(t, n, p))
               \/ (\E n \in Node : BeginRemove(t, n) \/ BeginRestore(t, n))
    <3>1. UNCHANGED <<rows, revision, replay>>
      BY <2>1 DEF BeginMove, BeginRemove, BeginRestore
    <3> QED
      BY <1>0, <1>1, <2>1, <3>1, BeginKeeps
  <2>2. CASE LockBranch(t)
    BY <1>0, <1>1, <2>2, LockBranchKeeps DEF LockBranch
  <2>3. CASE LockRelative(t)
    BY <1>0, <1>1, <2>3, LockRelativeKeeps DEF LockRelative
  <2>4. CASE Precondition(t) \/ RemoveRefused(t) \/ Abort(t)
    <3>1. UNCHANGED <<rows, revision, replay>> /\ End(t)
      BY <2>4 DEF Precondition, RemoveRefused, Abort
    <3> QED
      BY <1>0, <1>1, <3>1, EndKeeps
  <2>5. CASE MoveInsideItself(t)
    BY <1>0, <1>1, <2>5, InsideKeeps DEF MoveInsideItself
  <2>6. CASE Move(t) \/ Remove(t) \/ Restore(t)
    BY <1>0, <2>6, CommitKeeps
  <2>7. ASSUME NEW n \in Node, BeginAccept(t, n)
        PROVE  BranchesInv'
    BY <1>0, <1>1, <2>7, BeginAcceptKeeps DEF BeginAccept
  <2>8. CASE Accept(t)
    BY <1>0, <2>8, AcceptKeeps
  <2> QED
    BY <1>4, <2>1, <2>2, <2>3, <2>4, <2>5, <2>6, <2>7, <2>8 DEF Edit
<1> QED
  BY <1>2, <1>3, <1>4 DEF Next

\* Nothing is in progress at the start.
LEMMA InitBranches ==
  ASSUME Init
  PROVE  BranchesInv
<1>1. TablesInv /\ TablesTyped
  BY InitTables DEF TablesInv
<1>2. txn = [t \in Txn |-> Idle]
  BY DEF Init
<1>3. /\ txn \in [Txn -> Edits] /\ HeldApart
      /\ \A t \in Txn : txn[t] = Idle
  BY <1>1, <1>2, IdleHolds DEF HeldApart
<1>5. OneHolds
  BY <1>3 DEF OneHolds, Holding, Idle
<1>4. \A t \in Txn : EditHolds(txn[t])
  BY <1>1, <1>3, IdleHolds
<1> QED
  BY <1>1, <1>3, <1>4, <1>5 DEF BranchesInv, EditsInv

-----------------------------------------------------------------------------
(* What holds of every workspace.                                          *)

\* The tree is a forest whose columns and history agree, and every branch edit
\* relies only on rows it holds, or on a revision that is still the current one.
THEOREM BranchesInvariant == Spec => []BranchesInv
<1>1. Init => BranchesInv
  BY InitBranches
<1>2. BranchesInv /\ [Next]_vars => BranchesInv'
  BY StepKeepsBranches
<1> QED
  BY <1>1, <1>2, PTL DEF Spec

\* What is in the tree hangs below what is in the tree, and root_id is the root
\* goal that the parents lead to, whatever is created, moved, removed and restored
\* at once (tree_edit.go).
THEOREM TreeInvariant == Spec => []TreeInv
<1>1. BranchesInv => TreeInv
  BY DEF BranchesInv, TablesInv, TablesTyped, EditsInv, Edits, TreeInv, TypeOK
<1> QED
  BY <1>1, BranchesInvariant, PTL

\* No edit leaves a ring of nodes below itself, although nobody checks the
\* destination of a move against the branch as it is then (tree_edit.go:146).
THEOREM ForestInvariant == Spec => []RootedForest
<1>1. BranchesInv => RootedForest
  BY DEF BranchesInv, TablesInv
<1> QED
  BY <1>1, BranchesInvariant, PTL

\* A node that the history has is there with the parent, the root_id and the
\* lifecycle that its row has: every change is recorded with what it changes.
THEOREM HistoryInvariant == Spec => []HistoryIsCurrent
<1>1. BranchesInv => HistoryIsCurrent
  BY DEF BranchesInv, TablesInv
<1> QED
  BY <1>1, BranchesInvariant, PTL

\* A commit of a move that states the current revision changes the branch it has
\* read, in which no work has begun, and records it.
LEMMA GuardedMove ==
  ASSUME TablesInv, EditsInv, NEW t \in Txn, Move(t), Guarded(t), NEW n \in Node
  PROVE  /\ Told(n) => Told(n)'
         /\ Live(n) /\ (Row(n)' # Row(n) \/ ~Live(n)') => status[n] = "planned"
<1>1. PICK x \in Edits : x = txn[t]
  BY DEF EditsInv
<1>2. /\ EditHolds(x) /\ x.op = "move" /\ x.pc = "update" /\ x.expected = revision
      /\ x.expected # Anybody /\ UNCHANGED <<status, removed>>
  BY <1>1 DEF EditsInv, Move, Ready, Stale, Guarded
<1>3. PICK B : B = x.branch
  OBVIOUS
<1>4. /\ Live(x.node) /\ B = LiveBranch(x.node)
      /\ \A m \in B : status[m] = "planned"
  BY <1>2, <1>3 DEF EditHolds, ReadHolds
<1>5. x.node \in B /\ \A m \in B : Live(m)
  BY <1>4, BranchFacts DEF LiveBranch, LiveNodes
<1>6. /\ parent' = [parent EXCEPT ![x.node] = x.relative]
      /\ root' = [m \in Node |-> IF m \in B THEN root[x.relative] ELSE root[m]]
      /\ Record(B)
  BY <1>1, <1>2, <1>4 DEF Move, Touched
<1>7. CASE n \in B
  <2>1. replay'[n] = [parent |-> parent'[n], root |-> root'[n], status |-> status'[n]]
    BY <1>6, <1>7 DEF Record, Row
  <2>2. status'[n] # "absent" /\ removed'[n] = NotRemoved /\ status[n] = "planned"
    BY <1>2, <1>4, <1>5, <1>7 DEF Live, Exists
  <2> QED
    BY <2>1, <2>2 DEF Told, Row, Live, Exists
<1>8. CASE n \notin B
  <2>1. parent'[n] = parent[n] /\ root'[n] = root[n] /\ replay'[n] = replay[n]
    BY <1>5, <1>6, <1>8 DEF TablesInv, TablesTyped, Record
  <2> QED
    BY <1>2, <2>1 DEF Told, Row, Live, Exists
<1> QED
  BY <1>7, <1>8

\* A removal likewise: the events, which are those of the first reading, and the
\* rows the update takes are of the same nodes.
LEMMA GuardedRemove ==
  ASSUME TablesInv, EditsInv, NEW t \in Txn, Remove(t), Guarded(t), NEW n \in Node
  PROVE  /\ Told(n) => Told(n)'
         /\ Live(n) /\ (Row(n)' # Row(n) \/ ~Live(n)') => status[n] = "planned"
<1>1. PICK x \in Edits : x = txn[t]
  BY DEF EditsInv
<1>2. /\ EditHolds(x) /\ x.op = "remove" /\ x.pc = "update" /\ x.expected = revision
      /\ x.expected # Anybody /\ parent' = parent /\ root' = root /\ status' = status
  BY <1>1 DEF EditsInv, Remove, Ready, Stale, Guarded
<1>3. PICK B : B = x.branch
  OBVIOUS
<1>4. B = LiveBranch(x.node) /\ \A m \in B : status[m] = "planned"
  BY <1>2, <1>3 DEF EditHolds, ReadHolds
<1>5. /\ removed' = [m \in Node |-> IF m \in B THEN revision + 1 ELSE removed[m]]
      /\ Forget(B)
  BY <1>1, <1>2, <1>3, <1>4 DEF Remove, Touched
<1>6. revision + 1 # NotRemoved
  BY Numbers DEF TablesInv, TablesTyped, NotRemoved
<1>7. CASE n \in B
  <2>1. replay'[n] = Nothing /\ removed'[n] # NotRemoved /\ status[n] = "planned"
    BY <1>4, <1>5, <1>6, <1>7 DEF Forget
  <2> QED
    BY <2>1 DEF Told, Live, Exists
<1>8. CASE n \notin B
  <2>1. removed'[n] = removed[n] /\ replay'[n] = replay[n]
    BY <1>5, <1>8 DEF Forget
  <2> QED
    BY <1>2, <2>1 DEF Told, Row, Live, Exists
<1> QED
  BY <1>7, <1>8

\* A restoration changes no node of the tree, and records all it brings back.
LEMMA RestoreTold ==
  ASSUME TablesInv, EditsInv, NEW t \in Txn, Restore(t), NEW n \in Node
  PROVE  /\ Told(n) => Told(n)'
         /\ Live(n) /\ (Row(n)' # Row(n) \/ ~Live(n)') => status[n] = "planned"
<1>1. PICK x \in Edits : x = txn[t]
  BY DEF EditsInv
<1>2. EditHolds(x) /\ x.op = "restore" /\ parent' = parent /\ status' = status
  BY <1>1 DEF EditsInv, Restore
<1>3. /\ x.node \in Node /\ Exists(x.node) /\ removed[x.node] # NotRemoved
  BY <1>2 DEF EditHolds, RestoreHolds
<1>4. PICK back : back = RemovedBranch(x.node)
  OBVIOUS
<1>5. /\ removed' = [m \in Node |-> IF m \in back THEN NotRemoved ELSE removed[m]]
      /\ root' = [m \in Node |-> IF m \in back THEN root[x.relative] ELSE root[m]]
      /\ Record(back)
  BY <1>1, <1>2, <1>4 DEF Restore, Touched
<1>6. \A m \in back : Exists(m) /\ removed[m] # NotRemoved
  <2>1. PICK S : S = {m \in Node : Exists(m) /\ removed[m] = removed[x.node]}
    OBVIOUS
  <2>2. back = Branch(x.node, S)
    BY <1>4, <2>1 DEF RemovedBranch
  <2>3. back \subseteq S \cup {x.node}
    BY <2>2, BranchFacts
  <2> QED
    BY <1>3, <2>1, <2>3
<1>7. CASE n \in back
  <2>1. replay'[n] = [parent |-> parent'[n], root |-> root'[n], status |-> status'[n]]
    BY <1>5, <1>7 DEF Record, Row
  <2>2. status'[n] # "absent" /\ removed'[n] = NotRemoved /\ ~Live(n)
    BY <1>2, <1>5, <1>6, <1>7 DEF Live, Exists
  <2> QED
    BY <2>1, <2>2 DEF Told, Row, Live, Exists
<1>8. CASE n \notin back
  <2>1. removed'[n] = removed[n] /\ root'[n] = root[n] /\ replay'[n] = replay[n]
    BY <1>5, <1>8 DEF Record
  <2> QED
    BY <1>2, <2>1 DEF Told, Row, Live, Exists
<1> QED
  BY <1>7, <1>8

\* An edit whose If-Match holds leaves a history that tells the tree where it told
\* it before, and moves or removes planned work only (tree_edit.go:146, 243).
THEOREM GuardedEditsHold == Spec => GuardedEdits
<1>1. BranchesInv /\ [Next]_vars =>
        [\A t \in Txn : Commits(t) /\ Guarded(t) =>
             /\ \A n \in Node : Told(n) => Told(n)'
             /\ \A n \in LiveNodes : Row(n)' # Row(n) \/ ~Live(n)' => status[n] = "planned"]_vars
  <2> SUFFICES ASSUME BranchesInv, [Next]_vars
               PROVE  [\A t \in Txn : Commits(t) /\ Guarded(t) =>
                       /\ \A n \in Node : Told(n) => Told(n)'
                       /\ \A n \in LiveNodes : Row(n)' # Row(n) \/ ~Live(n)' => status[n] = "planned"]_vars
    OBVIOUS
  <2>0. TablesInv /\ EditsInv
    BY DEF BranchesInv
  <2>1. ASSUME Next, NEW t \in Txn, Commits(t), Guarded(t)
        PROVE  Move(t) \/ Remove(t) \/ Restore(t)
    <3>1. revision' # revision /\ txn'[t] # txn[t]
      BY <2>1 DEF Commits
    <3>2. PICK u \in Txn : Edit(u)
      BY <2>1, <3>1 DEF Next, Create, Update, Work
    <3>3. Move(u) \/ Remove(u) \/ Restore(u) \/ Accept(u)
      BY <3>1, <3>2 DEF Edit, BeginMove, BeginRemove, BeginRestore, LockBranch, LockRelative,
         Precondition, MoveInsideItself, RemoveRefused, BeginAccept, Abort
    <3>4. End(u)
      BY <3>3 DEF Move, Remove, Restore, Accept
    <3>5. u = t
      BY <2>0, <3>1, <3>4 DEF End, EditsInv
    <3>6. CASE Accept(t)
      <4>1. txn[t].pc = "accept" /\ txn[t].expected = Anybody
        BY <2>0, <3>6 DEF Accept, EditsInv, EditHolds, AcceptHolds
      <4> QED
        BY <2>1, <4>1 DEF Guarded
    <3> QED
      BY <3>3, <3>5, <3>6
  <2>2. ASSUME Next, NEW t \in Txn, Commits(t), Guarded(t), NEW n \in Node
        PROVE  /\ Told(n) => Told(n)'
               /\ Live(n) /\ (Row(n)' # Row(n) \/ ~Live(n)') => status[n] = "planned"
    <3>1. Move(t) \/ Remove(t) \/ Restore(t)
      BY <2>1, <2>2
    <3> QED
      BY <2>0, <2>2, <3>1, GuardedMove, GuardedRemove, RestoreTold
  <2>3. CASE Next
    BY <2>2, <2>3 DEF LiveNodes
  <2>4. CASE UNCHANGED vars
    BY <2>4
  <2> QED
    BY <2>3, <2>4
<1> QED
  BY <1>1, BranchesInvariant, PTL DEF Spec, GuardedEdits

\* When an acceptance commits, everything below the task is closed, at any depth,
\* although what is below is read before (circle.go:797, 949): the row of the
\* workspace keeps creations, moves, restorations and work from it.
THEOREM AcceptanceIsLast == Spec => AcceptedOverClosedWork
<1>1. BranchesInv /\ [Next]_vars =>
        [\A n \in Node : status[n] # "closed" /\ status'[n] = "closed" =>
             \A d \in Node : Live(d) /\ d \in Descendants(n) => status[d] = "closed"]_vars
  <2> SUFFICES ASSUME BranchesInv, [Next]_vars
               PROVE  [\A n \in Node : status[n] # "closed" /\ status'[n] = "closed" =>
                       \A d \in Node : Live(d) /\ d \in Descendants(n) => status[d] = "closed"]_vars
    OBVIOUS
  <2>0. TablesTyped /\ status \in [Node -> Lifecycle \cup {"absent"}] /\ EditsInv
    BY DEF BranchesInv, TablesInv, TablesTyped
  <2>1. ASSUME NEW n \in Node, Next, status[n] # "closed", status'[n] = "closed"
        PROVE  \E t \in Txn : Accept(t) /\ txn[t].node = n
    <3>1. ASSUME NEW m \in Node, NEW p, Create(m, p)
          PROVE  FALSE
      BY <2>0, <2>1, <3>1 DEF Create
    <3>2. ASSUME NEW m \in Node, NEW s \in Lifecycle, Work(m, s)
          PROVE  FALSE
      BY <2>0, <2>1, <3>2 DEF Work, LifecycleSteps
    <3>3. ASSUME NEW m \in Node, Update(m)
          PROVE  FALSE
      BY <2>1, <3>3 DEF Update, rows
    <3>4. PICK t \in Txn : Edit(t)
      BY <2>1, <3>1, <3>2, <3>3 DEF Next
    <3>5. Accept(t)
      BY <2>1, <3>4 DEF Edit, BeginMove, BeginRemove, BeginRestore, LockBranch, LockRelative,
         Precondition, Move, MoveInsideItself, Remove, RemoveRefused, Restore, BeginAccept,
         Abort, rows
    <3>6. txn[t].node = n
      BY <2>0, <2>1, <3>5 DEF Accept
    <3> QED
      BY <3>5, <3>6
  <2>2. ASSUME NEW n \in Node, Next, status[n] # "closed", status'[n] = "closed",
               NEW d \in Node, Live(d), d \in Descendants(n)
        PROVE  status[d] = "closed"
    <3>1. PICK t \in Txn : Accept(t) /\ txn[t].node = n
      BY <2>1, <2>2
    <3>2. AcceptHolds(txn[t]) /\ txn[t].pc = "accept"
      BY <2>0, <3>1 DEF EditsInv, EditHolds, Accept
    <3>3. ~OpenBelow(n)
      BY <3>1, <3>2 DEF AcceptHolds
    <3> QED
      BY <2>2, <3>3 DEF OpenBelow
  <2>3. CASE Next
    BY <2>2, <2>3
  <2>4. CASE UNCHANGED vars
    BY <2>4
  <2> QED
    BY <2>3, <2>4
<1> QED
  BY <1>1, BranchesInvariant, PTL DEF Spec, AcceptedOverClosedWork

=============================================================================

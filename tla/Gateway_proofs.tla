--------------------------- MODULE Gateway_proofs ---------------------------
(***************************************************************************)
(* Proofs about the gateway, its synchronization with Jira apart.          *)
(*                                                                         *)
(* About EventFeed, for any writers, nodes and gateways and any page       *)
(* limit: what the journal says, that nothing is gone over twice, and      *)
(* that nothing is skipped if the settle delay is longer than the longest  *)
(* transaction and the longest answer together.                            *)
(*                                                                         *)
(* About GatewayPlacement, in the second half, for any numbers of callers, *)
(* versions and parents: the invariants of the run, and that a placed item *)
(* keeps its node.                                                         *)
(***************************************************************************)
EXTENDS EventFeed, GatewayPlacement, FiniteSetTheorems, TLAPS

\* Events are told apart by transaction and by revision, and the next revision
\* is above all of them.
EventsDistinct ==
  /\ IsFiniteSet(outbox)
  /\ \A e \in outbox : e.revision <= Cardinality(outbox)
  /\ \A e, f \in outbox : e.id = f.id \/ e.revision = f.revision => e = f
  /\ \A w \in Writers : started[w] # Absent => ~Committed(w)

\* c is the first of the events of its node in S.
First(c, S) ==
  /\ c \in S
  /\ \A f \in S : f.node = c.node => c.revision <= f.revision

\* A node with events has a first one, and the mapping starts there.
CreatedOnce ==
  \A n \in Nodes :
    /\ (\E e \in outbox : e.node = n) => \E c : c.node = n /\ First(c, outbox)
    /\ mapped[n] # Absent =>
         \E c : c.node = n /\ First(c, outbox) /\ mapped[n] = c.revision

\* Only the holder of the lock has a page.  What is on it or gone over lies
\* ahead of the saved cursor, what was passed does not.
PageAhead ==
  /\ holder = NoGateway => asked = Absent /\ page = {} /\ gone = {}
  /\ asked # Absent => gone = {}
  /\ page \cup gone \subseteq outbox
  /\ \A e \in page \cup gone : Before(cursor, e)
  /\ passed \subseteq outbox
  /\ \A e \in passed : ~Before(cursor, e)

\* How an event is to be shown in the journal.
Verdict(e, S) == IF First(e, S) THEN "suppressed" ELSE "pending"

\* Rows are written for events gone over, and reach the journal with them.
RowsOfEvents ==
  \A w \in Writers :
    /\ rows[w] # Absent =>
         /\ journal[w] = Absent
         /\ \E e \in gone : e.id = w /\ mapped[e.node] # Absent /\ rows[w] = Verdict(e, outbox)
    /\ journal[w] # Absent =>
         \E e \in passed : e.id = w /\ mapped[e.node] # Absent /\ journal[w] = Verdict(e, outbox)

BookInv ==
  /\ FeedTypeOK
  /\ EventsDistinct
  /\ CreatedOnce
  /\ PageAhead
  /\ RowsOfEvents

-----------------------------------------------------------------------------
(* The order of the feed.                                                  *)

Stamp == [at : Nat, id : Nat]

\* Positions are totally ordered by stamp, then by id.
LEMMA BeforeOrders ==
  ASSUME NEW e, NEW f, NEW g, e.at \in Nat, e.id \in Nat, f.at \in Nat, f.id \in Nat,
         g.at \in Nat, g.id \in Nat
  PROVE  /\ ~Before(e, e)
         /\ Before(e, f) /\ Before(f, g) => Before(e, g)
         /\ Before(e, f) \/ Before(f, e) \/ (e.at = f.at /\ e.id = f.id)
         /\ ~(Before(e, f) /\ Before(f, e))
  BY DEF Before

\* Events and cursors are positions.
LEMMA Positions ==
  ASSUME FeedTypeOK
  PROVE  /\ cursor.at \in Nat /\ cursor.id \in Nat
         /\ \A e \in outbox : /\ e.at \in Nat /\ e.id \in Nat
                              /\ e.id \in Writers /\ e.node \in Nodes /\ e.revision \in Nat
  BY FeedAssumption DEF FeedTypeOK, Event

\* A page leaves out nothing that comes before one of its events.
LEMMA PagesFromTheFront ==
  ASSUME NEW S, IsFiniteSet(S), \A e \in S : e.at \in Nat /\ e.id \in Nat,
         NEW e \in FirstOf(S), NEW f \in S, Before(f, e)
  PROVE  f \in FirstOf(S)
<1> DEFINE ahead(x) == {g \in S : Before(g, x)}
<1>1. ahead(f) \subseteq ahead(e) /\ ahead(e) \subseteq S
  BY BeforeOrders DEF FirstOf
<1>2. IsFiniteSet(ahead(e))
  BY <1>1, FS_Subset
<1>3. /\ Cardinality(ahead(f)) <= Cardinality(ahead(e))
      /\ Cardinality(ahead(f)) \in Nat /\ Cardinality(ahead(e)) \in Nat
  BY <1>1, <1>2, FS_Subset, FS_CardinalityType
<1>4. Cardinality(ahead(e)) < PageLimit
  BY DEF FirstOf
<1> QED
  BY <1>3, <1>4, FeedAssumption DEF FirstOf

\* The creation of a node is its first event.
LEMMA CreationIsFirst ==
  ASSUME FeedTypeOK, EventsDistinct, NEW c, First(c, outbox)
  PROVE  Creation(c.node) = c
<1>1. /\ Creation(c.node) \in outbox
       /\ Creation(c.node).node = c.node
       /\ First(Creation(c.node), outbox)
  BY DEF First, Creation
<1> QED
  BY <1>1, Positions DEF First, EventsDistinct

-----------------------------------------------------------------------------
(* The books.                                                              *)

\* Nothing has been written or read.
LEMMA BookInit == FeedInit => BookInv
  BY FeedAssumption, FS_EmptySet
  DEF FeedInit, BookInv, FeedTypeOK, EventsDistinct, CreatedOnce, PageAhead, RowsOfEvents,
      NoRows, Committed

\* A commit adds one event, with its transaction's stamp and the next revision.
LEMMA CommitAdds ==
  ASSUME FeedTypeOK, EventsDistinct, NEW w \in Writers, Commit(w)
  PROVE  \E e \in Event :
           /\ outbox' = outbox \cup {e}
           /\ e.at = started[w] /\ e.id = w /\ e.committed = clock
           /\ \A f \in outbox : f.id # w /\ f.revision < e.revision
           /\ IsFiniteSet(outbox') /\ Cardinality(outbox') = e.revision
<1>1. PICK n \in Nodes :
        outbox' = outbox \cup
          {[at |-> started[w], id |-> w, node |-> n, committed |-> clock,
            revision |-> Cardinality(outbox) + 1]}
  BY DEF Commit
<1> DEFINE e == [at |-> started[w], id |-> w, node |-> n, committed |-> clock,
                 revision |-> Cardinality(outbox) + 1]
<1>2. Cardinality(outbox) \in Nat
  BY FS_CardinalityType DEF EventsDistinct
<1>3. e \in Event
  BY <1>2 DEF Event, Commit, FeedTypeOK
<1>4. \A f \in outbox : f.id # w /\ f.revision < e.revision
  BY <1>2, Positions DEF EventsDistinct, Committed, Commit
<1>5. e \notin outbox
  BY <1>4
<1>6. IsFiniteSet(outbox') /\ Cardinality(outbox') = Cardinality(outbox) + 1
  BY <1>1, <1>5, FS_AddElement DEF EventsDistinct
<1> QED
  BY <1>1, <1>3, <1>4, <1>6

\* What was the first event of a node is so after every commit, and nothing
\* else becomes it.
LEMMA FirstStays ==
  ASSUME FeedTypeOK, EventsDistinct, CreatedOnce, NEW w \in Writers, Commit(w),
         NEW c \in outbox
  PROVE  First(c, outbox') <=> First(c, outbox)
<1>1. PICK e \in Event : /\ outbox' = outbox \cup {e}
                         /\ \A f \in outbox : f.revision < e.revision
  BY CommitAdds
<1> QED
  BY <1>1, Positions DEF First, Event

\* No step writes a value outside its range.
LEMMA TypeStep ==
  ASSUME FeedTypeOK, EventsDistinct, CreatedOnce, PageAhead, [FeedNext]_feedVars
  PROVE  FeedTypeOK'
<1> USE DEF FeedTypeOK, writing, reading, saved
<1>1. CASE Tick
  BY <1>1, FeedAssumption DEF Tick
<1>2. ASSUME NEW w \in Writers, Begin(w)
      PROVE  FeedTypeOK'
  BY <1>2, FeedAssumption DEF Begin
<1>3. ASSUME NEW w \in Writers, Commit(w)
      PROVE  FeedTypeOK'
  <2>1. outbox' \subseteq Event
    BY <1>3, CommitAdds
  <2> QED
    BY <1>3, <2>1 DEF Commit
<1>4. ASSUME NEW n \in Nodes, Map(n)
      PROVE  FeedTypeOK'
  <2>1. Creation(n) \in outbox
    <3>1. PICK c : c.node = n /\ First(c, outbox)
      BY <1>4 DEF Map, CreatedOnce
    <3> QED
      BY <3>1, CreationIsFirst DEF First
  <2> QED
    BY <1>4, <2>1, Positions DEF Map
<1>5. ASSUME NEW g \in Gateways, Fetch(g)
      PROVE  FeedTypeOK'
  BY <1>5, FeedAssumption DEF Fetch, FirstOf, NoRows
<1>6. ASSUME NEW g \in Gateways, Cut(g) \/ Fail(g)
      PROVE  FeedTypeOK'
  BY <1>6, FeedAssumption DEF Cut, Fail, Release, NoRows
<1>7. ASSUME NEW g \in Gateways, Project(g)
      PROVE  FeedTypeOK'
  <2>1. PICK e \in page :
          /\ rows' = IF mapped[e.node] # Absent /\ IsNew(e)
                       THEN [rows EXCEPT ![e.id] = RowOf(e)] ELSE rows
          /\ page' = page \ {e} /\ gone' = gone \cup {e}
    BY <1>7 DEF Project
  <2>2. rows' \in [Writers -> {"pending", "suppressed", Absent}]
    BY <2>1 DEF RowOf
  <2> QED
    BY <1>7, <2>1, <2>2 DEF Project
<1>8. ASSUME NEW g \in Gateways, Save(g)
      PROVE  FeedTypeOK'
  <2>1. cursor' \in [at : Nat, id : Nat]
    BY <1>8, Positions DEF Save, SaveCursor, PageAhead
  <2>2. journal' \in [Writers -> {"pending", "suppressed", Absent}]
    BY <1>8 DEF Save
  <2> QED
    BY <1>8, <2>1, <2>2 DEF Save, Release, NoRows
<1>9. CASE UNCHANGED feedVars
  BY <1>9 DEF feedVars
<1> QED
  BY <1>1, <1>2, <1>3, <1>4, <1>5, <1>6, <1>7, <1>8, <1>9 DEF FeedNext, Consume, Quiet

\* Commits are the only steps that add to the events.
LEMMA OutboxGrows ==
  ASSUME [FeedNext]_feedVars
  PROVE  UNCHANGED outbox \/ \E w \in Writers : Commit(w)
  BY DEF FeedNext, Tick, Begin, Map, Consume, Fetch, Cut, Project, Save, Fail,
         Quiet, feedVars, writing

\* Revisions go up by one; a transaction commits once.
LEMMA EventsStep ==
  ASSUME FeedTypeOK, EventsDistinct, [FeedNext]_feedVars
  PROVE  EventsDistinct'
<1>1. ASSUME NEW w \in Writers, Commit(w)
      PROVE  EventsDistinct'
  <2>1. PICK e \in Event : /\ outbox' = outbox \cup {e}
                           /\ e.id = w
                           /\ \A f \in outbox : f.id # w /\ f.revision < e.revision
                           /\ IsFiniteSet(outbox') /\ Cardinality(outbox') = e.revision
    BY <1>1, CommitAdds
  <2>2. e.revision \in Nat
    BY DEF Event
  <2>3. \A f \in outbox' : f.revision <= e.revision
    BY <2>1, <2>2, Positions
  <2>4. \A f, h \in outbox' : f.id = h.id \/ f.revision = h.revision => f = h
    BY <2>1, <2>2, Positions DEF EventsDistinct
  <2>5. \A v \in Writers : started'[v] # Absent => ~Committed(v)'
    BY <1>1, <2>1 DEF Commit, Committed, EventsDistinct, FeedTypeOK
  <2> QED
    BY <2>1, <2>3, <2>4, <2>5 DEF EventsDistinct
<1>2. CASE UNCHANGED outbox
  <2>1. \A v \in Writers : started'[v] # Absent => ~Committed(v)
    BY <1>2 DEF FeedNext, Tick, Begin, Commit, Map, Consume, Fetch, Cut, Project, Save,
           Fail, Quiet, feedVars, writing, EventsDistinct, FeedTypeOK
  <2> QED
    BY <1>2, <2>1 DEF EventsDistinct, Committed
<1> QED
  BY <1>1, <1>2, OutboxGrows

\* The first event of a node stays its first, and its mapping names it.
LEMMA CreatedStep ==
  ASSUME FeedTypeOK, EventsDistinct, CreatedOnce, [FeedNext]_feedVars
  PROVE  CreatedOnce'
<1> USE DEF CreatedOnce
<1>1. ASSUME NEW w \in Writers, Commit(w)
      PROVE  CreatedOnce'
  <2>1. PICK e \in Event : /\ outbox' = outbox \cup {e}
                           /\ \A f \in outbox : f.revision < e.revision
    BY <1>1, CommitAdds
  <2>2. outbox \subseteq outbox' /\ \A c \in outbox : First(c, outbox) => First(c, outbox')
    BY <1>1, <2>1, FirstStays
  <2>3. e.revision \in Nat /\ ((\A f \in outbox : f.node # e.node) => First(e, outbox'))
    BY <2>1 DEF First, Event
  <2>4. \A c : First(c, outbox) => First(c, outbox')
    BY <2>2 DEF First
  <2>5. ASSUME NEW n \in Nodes, \E f \in outbox' : f.node = n
        PROVE  \E c : c.node = n /\ First(c, outbox')
    <3>1. CASE \E f \in outbox : f.node = n
      BY <2>4, <3>1
    <3>2. CASE ~\E f \in outbox : f.node = n
      BY <2>1, <2>3, <2>5, <3>2
    <3> QED
      BY <3>1, <3>2
  <2>6. UNCHANGED mapped
    BY <1>1 DEF Commit
  <2> QED
    BY <2>4, <2>5, <2>6
<1>2. ASSUME NEW n \in Nodes, Map(n)
      PROVE  CreatedOnce'
  <2>1. PICK c : c.node = n /\ First(c, outbox)
    BY <1>2 DEF Map
  <2>2. Creation(n) = c
    BY <2>1, CreationIsFirst
  <2> QED
    BY <1>2, <2>1, <2>2 DEF Map, FeedTypeOK, writing
<1>3. CASE UNCHANGED <<outbox, mapped>>
  BY <1>3
<1> QED
  BY <1>1, <1>2, <1>3 DEF FeedNext, Tick, Begin, Consume, Fetch, Cut, Project, Save,
     Fail, Quiet, feedVars, writing

\* A page is asked for ahead of the cursor, and gone over before the cursor
\* moves up to its end.
LEMMA PageStep ==
  ASSUME FeedTypeOK, EventsDistinct, PageAhead, [FeedNext]_feedVars
  PROVE  PageAhead'
<1> USE DEF PageAhead, writing, reading, saved
<1>1. ASSUME NEW w \in Writers, Commit(w)
      PROVE  PageAhead'
  BY <1>1, CommitAdds DEF Commit
<1>2. ASSUME NEW g \in Gateways, Fetch(g)
      PROVE  PageAhead'
  <2>1. page' \subseteq outbox /\ \A e \in page' : Before(cursor, e)
    BY <1>2 DEF Fetch, FirstOf, Behind
  <2> QED
    BY <1>2, <2>1, FeedAssumption DEF Fetch
<1>3. ASSUME NEW g \in Gateways, Cut(g)
      PROVE  PageAhead'
  BY <1>3, FeedAssumption DEF Cut, Release
<1>4. ASSUME NEW g \in Gateways, Project(g)
      PROVE  PageAhead'
  BY <1>4, FeedAssumption DEF Project
<1>5. ASSUME NEW g \in Gateways, Save(g)
      PROVE  PageAhead'
  <2>1. PICK last \in gone : /\ \A e \in gone : ~Before(last, e)
                             /\ cursor' = [at |-> last.at, id |-> last.id]
    BY <1>5 DEF Save, SaveCursor
  <2>2. /\ last.at \in Nat /\ last.id \in Nat /\ Before(cursor, last)
        /\ cursor.at \in Nat /\ cursor.id \in Nat
        /\ \A e \in outbox : e.at \in Nat /\ e.id \in Nat
    BY Positions
  <2>3. \A e : Before(cursor', e) <=> Before(last, e)
    BY <2>1 DEF Before
  <2>4. \A e \in passed : ~Before(last, e)
    BY <2>2, BeforeOrders
  <2>5. passed' = passed \cup gone /\ UNCHANGED outbox
    BY <1>5 DEF Save
  <2> QED
    BY <1>5, <2>1, <2>3, <2>4, <2>5 DEF Save, Release
<1>6. ASSUME NEW g \in Gateways, Fail(g)
      PROVE  PageAhead'
  BY <1>6 DEF Fail, Release
<1>7. CASE UNCHANGED <<outbox, reading, saved>>
  BY <1>7
<1> QED
  BY <1>1, <1>2, <1>3, <1>4, <1>5, <1>6, <1>7
  DEF FeedNext, Tick, Begin, Map, Consume, Quiet, feedVars

\* Rows are written once for an event, from a mapping that does not change.
LEMMA RowsStep ==
  ASSUME FeedTypeOK, EventsDistinct, CreatedOnce, PageAhead, RowsOfEvents, [FeedNext]_feedVars
  PROVE  RowsOfEvents'
<1> USE DEF RowsOfEvents, writing, reading, saved, Verdict
<1>1. ASSUME NEW w \in Writers, Commit(w)
      PROVE  RowsOfEvents'
  <2>1. \A e \in passed \cup gone : First(e, outbox') <=> First(e, outbox)
    BY <1>1, FirstStays DEF PageAhead
  <2> QED
    BY <1>1, <2>1 DEF Commit
<1>2. ASSUME NEW n \in Nodes, Map(n)
      PROVE  RowsOfEvents'
  <2>1. \A k \in Nodes : mapped[k] # Absent => mapped'[k] # Absent
    BY <1>2 DEF Map, FeedTypeOK
  <2>2. \A e \in passed \cup gone : e.node \in Nodes
    BY Positions DEF PageAhead
  <2> QED
    BY <1>2, <2>1, <2>2 DEF Map
<1>3. ASSUME NEW g \in Gateways, Fetch(g) \/ Fail(g)
      PROVE  RowsOfEvents'
  BY <1>3 DEF Fetch, Fail, Release, NoRows
<1>4. ASSUME NEW g \in Gateways, Cut(g)
      PROVE  RowsOfEvents'
  BY <1>4 DEF Cut, Release, NoRows
<1>5. ASSUME NEW g \in Gateways, Project(g)
      PROVE  RowsOfEvents'
  <2>1. PICK e \in page :
          /\ rows' = IF mapped[e.node] # Absent /\ IsNew(e)
                       THEN [rows EXCEPT ![e.id] = RowOf(e)] ELSE rows
          /\ gone' = gone \cup {e}
    BY <1>5 DEF Project
  <2>2. e \in outbox /\ e.id \in Writers /\ e.node \in Nodes /\ e.revision \in Nat
    BY Positions DEF PageAhead
  <2>3. UNCHANGED <<mapped, outbox, journal, passed>>
    BY <1>5 DEF Project
  <2>4. ASSUME mapped[e.node] # Absent
        PROVE  RowOf(e) = Verdict(e, outbox)
    <3>1. PICK c : c.node = e.node /\ First(c, outbox) /\ mapped[e.node] = c.revision
      BY <2>2, <2>4 DEF CreatedOnce
    <3>2. c.revision \in Nat /\ c.revision <= e.revision /\ c \in outbox
      BY <2>2, <3>1, Positions DEF First
    <3>3. First(e, outbox) <=> e.revision <= c.revision
      BY <2>2, <3>1, <3>2, Positions DEF First
    <3> QED
      BY <3>1, <3>3 DEF RowOf
  <2>5. CASE mapped[e.node] # Absent /\ IsNew(e)
    <3>1. rows' = [rows EXCEPT ![e.id] = Verdict(e, outbox)]
      BY <2>1, <2>4, <2>5
    <3> QED
      BY <2>1, <2>2, <2>3, <2>5, <3>1 DEF IsNew, FeedTypeOK
  <2>6. CASE ~(mapped[e.node] # Absent /\ IsNew(e))
    BY <2>1, <2>3, <2>6
  <2> QED
    BY <2>5, <2>6
<1>6. ASSUME NEW g \in Gateways, Save(g)
      PROVE  RowsOfEvents'
  BY <1>6 DEF Save, Release, NoRows
<1>7. CASE UNCHANGED <<mapped, outbox, reading, saved>>
  BY <1>7
<1> QED
  BY <1>1, <1>2, <1>3, <1>4, <1>5, <1>6, <1>7 DEF FeedNext, Tick, Begin, Consume, Quiet, feedVars

\* The books are kept.
LEMMA BookStep ==
  ASSUME BookInv, [FeedNext]_feedVars
  PROVE  BookInv'
  BY TypeStep, EventsStep, CreatedStep, PageStep, RowsStep DEF BookInv

\* The books are right in every state, however long transactions and answers
\* take.
THEOREM BookInvariant == FeedSpec => []BookInv
  BY BookInit, BookStep, PTL DEF FeedSpec

\* What the rows say is what the journal is to say of the creation and of
\* later events.
LEMMA BooksSuppressOwn ==
  ASSUME BookInv
  PROVE  OwnChangesSuppressed
<1> USE DEF BookInv
<1> SUFFICES ASSUME NEW e \in passed, journal[e.id] # Absent
             PROVE  /\ mapped[e.node] # Absent
                    /\ journal[e.id] = IF e = Creation(e.node) THEN "suppressed" ELSE "pending"
  BY DEF OwnChangesSuppressed
<1>1. e \in outbox /\ e.id \in Writers /\ e.node \in Nodes
  BY Positions DEF PageAhead
<1>2. mapped[e.node] # Absent /\ journal[e.id] = Verdict(e, outbox)
  <2>1. PICK f \in passed : /\ f.id = e.id /\ mapped[f.node] # Absent
                            /\ journal[e.id] = Verdict(f, outbox)
    BY <1>1 DEF RowsOfEvents
  <2> QED
    BY <1>1, <2>1 DEF PageAhead, EventsDistinct
<1>3. PICK c : c.node = e.node /\ First(c, outbox)
  BY <1>1 DEF CreatedOnce
<1>4. Creation(e.node) = c
  BY <1>3, CreationIsFirst
<1>5. First(e, outbox) => Creation(e.node) = e
  BY CreationIsFirst
<1> QED
  BY <1>2, <1>3, <1>4, <1>5 DEF Verdict

\* docs/integration-gateway.md:60: types, and the journal tells the gateway's
\* own creation from every later change.
THEOREM JournalInvariant == FeedSpec => []JournalInv
<1>1. BookInv => JournalInv
  BY BooksSuppressOwn DEF BookInv, JournalInv
<1> QED
  BY <1>1, BookInvariant, PTL

\* A replay changes no row and goes over nothing twice, whatever fails.
THEOREM ReplaysOnce == FeedSpec => GoneOverOnce
<1> DEFINE Once == /\ \A w \in Writers : journal[w] # Absent => journal'[w] = journal[w]
                   /\ passed' # passed => passed \cap gone = {}
<1>1. ASSUME BookInv, [FeedNext]_feedVars
      PROVE  [Once]_feedVars
  <2>1. ASSUME NEW g \in Gateways, Save(g)
        PROVE  Once
    <3>1. \A w \in Writers : journal[w] # Absent => journal'[w] = journal[w]
      BY <1>1, <2>1 DEF Save, BookInv, RowsOfEvents
    <3> QED
      BY <1>1, <3>1 DEF BookInv, PageAhead
  <2>2. CASE UNCHANGED saved
    BY <2>2 DEF saved
  <2> QED
    BY <1>1, <2>1, <2>2 DEF FeedNext, Tick, Begin, Commit, Map, Consume, Fetch, Cut, Project, Fail, Quiet
<1> QED
  BY <1>1, BookInvariant, PTL DEF FeedSpec, GoneOverOnce

-----------------------------------------------------------------------------
(* The delays.                                                             *)

\* A request is not ahead of the clock.
WithinTime == asked # Absent => asked <= clock

\* What is cut and what is passed has settled.
CutHasSettled ==
  /\ asked = Absent => \A e \in page \cup gone : Settled(e)
  /\ cursor = [at |-> 0, id |-> 0] \/ cursor.at + Settle <= clock

\* Between the cursor and an event of the page there is nothing but the page;
\* until the cut what was committed after the page was asked for, and then what
\* is late.
NoGap ==
  \A e \in page \cup gone, f \in outbox :
    Before(cursor, f) /\ Before(f, e) =>
      \/ f \in page \cup gone
      \/ asked # Absent /\ asked <= f.committed
      \/ Late(f)

CompleteInv ==
  /\ BookInv
  /\ WithinTime
  /\ CutHasSettled
  /\ NoGap
  /\ OnlyLateSkipped

\* Nothing has been committed.
LEMMA CompleteInit == FeedInit => CompleteInv
  BY BookInit, FeedAssumption
  DEF FeedInit, CompleteInv, WithinTime, CutHasSettled, NoGap, OnlyLateSkipped

\* The clock does not go back.
LEMMA TimeStep ==
  ASSUME FeedTypeOK, WithinTime, [FeedNext]_feedVars
  PROVE  WithinTime'
<1> USE FeedAssumption DEF FeedTypeOK, WithinTime, writing, reading, saved
<1>1. CASE Tick
  <2>1. asked # Absent => asked \in Nat
    OBVIOUS
  <2> QED
    BY <1>1, <2>1 DEF Tick
<1>2. ASSUME NEW g \in Gateways, Consume(g) \/ Fail(g)
      PROVE  WithinTime'
  BY <1>2 DEF Consume, Fetch, Cut, Project, Save, Fail, Release
<1>3. CASE UNCHANGED <<clock, asked>>
  BY <1>3
<1> QED
  BY <1>1, <1>2, <1>3 DEF FeedNext, Begin, Commit, Map, Quiet, feedVars

\* Events and the slowest answer in numbers.
LEMMA Times ==
  ASSUME FeedTypeOK
  PROVE  /\ clock \in Nat /\ slowest \in Nat /\ Settle \in Nat
         /\ asked # Absent => asked \in Nat
         /\ \A e \in outbox : e.committed \in Nat
  BY FeedAssumption DEF FeedTypeOK, Event

\* What is late stays late: an answer can only have taken longer.
LEMMA LateStaysLate ==
  ASSUME FeedTypeOK, WithinTime, [FeedNext]_feedVars, NEW e \in outbox, Late(e)
  PROVE  Late(e)'
<1>1. slowest' \in Nat /\ slowest <= slowest'
  <2>1. ASSUME NEW g \in Gateways, Cut(g)
        PROVE  slowest' \in Nat /\ slowest <= slowest'
    <3>1. asked \in Nat /\ asked <= clock
      BY <2>1, Times DEF Cut, WithinTime
    <3> QED
      BY <2>1, <3>1, Times DEF Cut
  <2>2. CASE UNCHANGED slowest
    BY <2>2, Times
  <2> QED
    BY <2>1, <2>2 DEF FeedNext, Tick, Begin, Commit, Map, Consume, Fetch, Project,
       Save, Fail, Quiet, feedVars, reading
<1> QED
  BY <1>1, Times, Positions DEF Late

\* An event that is committed now is either ahead of all that has settled, or late.
LEMMA CommitsAhead ==
  ASSUME FeedTypeOK, EventsDistinct, NEW w \in Writers, Commit(w)
  PROVE  \E e \in Event :
           /\ outbox' = outbox \cup {e}
           /\ e.committed = clock
           /\ e.id # 0
           /\ \A t \in Nat : t + Settle <= clock => t < e.at \/ Late(e)
<1>1. PICK e \in Event : /\ outbox' = outbox \cup {e}
                         /\ e.id = w /\ e.committed = clock
  BY CommitAdds
<1>2. e.at \in Nat /\ e.committed \in Nat
  BY DEF Event
<1>3. \A t \in Nat : t + Settle <= clock => t < e.at \/ Late(e)
  BY <1>1, <1>2, Times DEF Late
<1> QED
  BY <1>1, <1>3, FeedAssumption

\* What the cut keeps settles before anything that the page has missed, unless
\* this is late.
LEMMA CutIsSafe ==
  ASSUME CompleteInv, NEW g \in Gateways, Cut(g), [FeedNext]_feedVars,
         NEW e \in page, Settled(e), NEW f \in outbox, Before(cursor, f), Before(f, e)
  PROVE  Late(f)' \/ (f \in page /\ Settled(f))
<1>1. /\ e \in outbox
      /\ e.at \in Nat /\ f.at \in Nat /\ f.committed \in Nat
      /\ clock \in Nat /\ asked \in Nat /\ slowest \in Nat /\ Settle \in Nat
      /\ asked <= clock
  BY Positions, Times DEF CompleteInv, BookInv, PageAhead, WithinTime, Cut
<1>2. f.at <= e.at
  BY <1>1 DEF Before
<1>3. slowest' \in Nat /\ clock - asked <= slowest'
  BY <1>1 DEF Cut
<1>4. CASE asked <= f.committed
  BY <1>1, <1>2, <1>3, <1>4 DEF Settled, Late
<1>5. CASE Late(f)
  BY <1>5, LateStaysLate DEF CompleteInv, BookInv
<1>6. CASE f \in page
  BY <1>1, <1>2, <1>6 DEF Settled
<1> QED
  BY <1>4, <1>5, <1>6 DEF CompleteInv, NoGap, BookInv, PageAhead, Cut

\* Pages have no gaps, and the cursor moves over nothing but the page.
LEMMA CompleteStep ==
  ASSUME CompleteInv, [FeedNext]_feedVars
  PROVE  CompleteInv'
<1> USE DEF CompleteInv, writing, reading, saved
<1> SUFFICES CutHasSettled' /\ NoGap' /\ OnlyLateSkipped'
  BY BookStep, TimeStep DEF BookInv
<1>1. /\ FeedTypeOK /\ EventsDistinct /\ PageAhead
      /\ clock \in Nat /\ Settle \in Nat
      /\ cursor.at \in Nat /\ cursor.id \in Nat
      /\ \A e \in outbox : e.at \in Nat /\ e.id \in Nat
  BY Positions, FeedAssumption DEF BookInv, FeedTypeOK
<1>late. \A e \in outbox : Late(e) => Late(e)'
  BY <1>1, LateStaysLate
<1>2. CASE Tick
  <2>1. CutHasSettled'
    BY <1>1, <1>2 DEF Tick, CutHasSettled, Settled, PageAhead
  <2> QED
    BY <1>2, <1>late, <2>1 DEF Tick, NoGap, OnlyLateSkipped
<1>3. ASSUME NEW w \in Writers, Commit(w)
      PROVE  CutHasSettled' /\ NoGap' /\ OnlyLateSkipped'
  <2>1. PICK e \in Event : /\ outbox' = outbox \cup {e}
                           /\ e.committed = clock
                           /\ e.id # 0
                           /\ \A t \in Nat : t + Settle <= clock => t < e.at \/ Late(e)
    BY <1>1, <1>3, CommitsAhead
  <2>2. UNCHANGED <<clock, mapped, reading, saved>> /\ e.at \in Nat /\ e.id \in Nat
    BY <1>3, FeedAssumption DEF Commit, Event
  <2>3. Late(e) => Late(e)'
    BY <2>2 DEF Late
  <2>4. Before(cursor, e) \/ Late(e)'
    BY <1>1, <2>1, <2>2, <2>3 DEF CutHasSettled, Before
  <2>5. OnlyLateSkipped'
    BY <1>late, <2>1, <2>2, <2>4 DEF OnlyLateSkipped
  <2>6. CutHasSettled'
    BY <2>2 DEF CutHasSettled, Settled
  <2>7. asked # Absent => asked <= e.committed
    BY <2>1 DEF WithinTime
  <2>8. asked = Absent => \A f \in page \cup gone : ~Before(e, f) \/ Late(e)'
    BY <1>1, <2>1, <2>2, <2>3 DEF CutHasSettled, Settled, PageAhead, Before
  <2>9. NoGap'
    BY <1>late, <2>1, <2>2, <2>7, <2>8 DEF NoGap
  <2> QED
    BY <2>5, <2>6, <2>9
<1>4. ASSUME NEW g \in Gateways, Fetch(g)
      PROVE  CutHasSettled' /\ NoGap' /\ OnlyLateSkipped'
  <2> DEFINE S == {e \in outbox : Behind(e)}
  <2>1. page' = FirstOf(S) /\ gone' = {} /\ asked' = clock
    BY <1>4 DEF Fetch
  <2>2. IsFiniteSet(S) /\ \A e \in S : e.at \in Nat /\ e.id \in Nat
    BY <1>1, FS_Subset DEF EventsDistinct
  <2>3. \A e \in FirstOf(S), f \in outbox : Before(cursor, f) /\ Before(f, e) => f \in FirstOf(S)
    BY <2>2, PagesFromTheFront DEF Behind
  <2>4. NoGap'
    BY <1>4, <2>1, <2>3 DEF NoGap, Fetch
  <2>5. asked' # Absent
    BY <1>1, <2>1, FeedAssumption
  <2>6. OnlyLateSkipped'
    BY <1>4, <1>late DEF Fetch, OnlyLateSkipped
  <2> QED
    BY <1>4, <2>4, <2>5, <2>6 DEF Fetch, CutHasSettled
<1>5. ASSUME NEW g \in Gateways, Cut(g)
      PROVE  CutHasSettled' /\ NoGap' /\ OnlyLateSkipped'
  <2>1. gone = {} /\ UNCHANGED <<clock, outbox, cursor, passed>>
    BY <1>1, <1>5 DEF Cut, PageAhead
  <2>2. OnlyLateSkipped'
    BY <1>late, <2>1 DEF OnlyLateSkipped
  <2>3. CASE Release
    BY <2>1, <2>2, <2>3 DEF Release, CutHasSettled, NoGap
  <2>4. CASE /\ page' = {e \in page : Settled(e)} /\ asked' = Absent
             /\ UNCHANGED <<holder, gone, rows>>
    <3>1. NoGap'
      BY <1>5, <2>1, <2>4, CutIsSafe DEF NoGap
    <3>2. CutHasSettled'
      BY <2>1, <2>4 DEF CutHasSettled, Settled
    <3> QED
      BY <2>2, <3>1, <3>2
  <2> QED
    BY <1>5, <2>3, <2>4 DEF Cut
<1>6. ASSUME NEW g \in Gateways, Project(g)
      PROVE  CutHasSettled' /\ NoGap' /\ OnlyLateSkipped'
  <2>1. page' \cup gone' = page \cup gone
    BY <1>6 DEF Project
  <2> QED
    BY <1>6, <1>late, <2>1 DEF Project, CutHasSettled, NoGap, OnlyLateSkipped, Settled
<1>7. ASSUME NEW g \in Gateways, Save(g)
      PROVE  CutHasSettled' /\ NoGap' /\ OnlyLateSkipped'
  <2>1. PICK last \in gone : /\ \A e \in gone : ~Before(last, e)
                             /\ cursor' = [at |-> last.at, id |-> last.id]
    BY <1>7 DEF Save, SaveCursor
  <2>2. /\ page = {} /\ asked = Absent /\ passed' = passed \cup gone /\ UNCHANGED <<clock, outbox>>
        /\ page' = {} /\ gone' = {}
    BY <1>7 DEF Save, Release
  <2>3. last \in outbox /\ Settled(last) /\ Before(cursor, last)
    BY <1>1, <2>1, <2>2 DEF PageAhead, CutHasSettled
  <2>4. ASSUME NEW e \in outbox, ~Before(cursor', e)
        PROVE  e \in passed' \/ Late(e)'
    <3>1. ~Before(last, e)
      BY <2>1, <2>4 DEF Before
    <3>2. Before(e, last) \/ e = last
      BY <1>1, <2>3, <3>1, BeforeOrders DEF EventsDistinct
    <3>3. CASE ~Before(cursor, e)
      BY <1>late, <2>2, <3>3 DEF OnlyLateSkipped
    <3>4. CASE Before(cursor, e)
      BY <1>late, <2>1, <2>2, <3>2, <3>4 DEF NoGap
    <3> QED
      BY <3>3, <3>4
  <2>5. CutHasSettled'
    BY <2>1, <2>2, <2>3 DEF CutHasSettled, Settled
  <2> QED
    BY <2>2, <2>4, <2>5 DEF NoGap, OnlyLateSkipped
<1>8. ASSUME NEW g \in Gateways, Fail(g)
      PROVE  CutHasSettled' /\ NoGap' /\ OnlyLateSkipped'
  BY <1>8, <1>late DEF Fail, Release, CutHasSettled, NoGap, OnlyLateSkipped
<1>9. CASE UNCHANGED <<clock, outbox, reading, saved>>
  BY <1>9, <1>late DEF CutHasSettled, NoGap, OnlyLateSkipped, Settled
<1> QED
  BY <1>2, <1>3, <1>4, <1>5, <1>6, <1>7, <1>8, <1>9
  DEF FeedNext, Begin, Map, Consume, Quiet, feedVars

\* docs/integration-gateway.md:60: an event behind the cursor has been gone over,
\* however commits, pages and failures interleave and however long transactions
\* and answers take, unless these two use up the settle delay.
THEOREM OnlyLateIsSkipped == FeedSpec => []OnlyLateSkipped
<1>1. CompleteInv /\ [FeedNext]_feedVars => CompleteInv'
  BY CompleteStep
<1>2. CompleteInv => OnlyLateSkipped
  BY DEF CompleteInv
<1> QED
  BY <1>1, <1>2, CompleteInit, PTL DEF FeedSpec

-----------------------------------------------------------------------------
(* GatewayPlacement: the invariant, and the types of the columns.          *)

\* A caller is in the middle of a call.
Calling == {"ready", "sent", "answered"}

\* A caller has chosen a parent before it writes one, and calls with one.
ItemsChosen ==
  \A c \in Callers :
    pc[c] \in {"chosen"} \cup Calling =>
      item[c] \in [version : Versions, parent : Parents]

\* Whoever calls, retries or counts a failure has found the parent of the
\* candidate remembered, and it is never forgotten.
ParentRemembered ==
  \A c \in Callers :
    pc[c] \in {"retrying", "failed", "counting"} \cup Calling => parent # Nothing

\* A call that still has its caller is the call this caller waits for.
CallsAwaited ==
  \A m \in transit, c \in Callers : m.by = c => pc[c] = "sent" /\ m = Call(c)

\* The server keeps one result for the item, and that of its only node.
StoredOnce ==
  IF stored[Key] = Nothing THEN made = 0 ELSE made = 1 /\ stored[Key].node = 1

\* An answer names the stored node, and was given to the stored version.
AnswersStored ==
  \A c \in Callers : pc[c] = "answered" =>
    /\ stored[Key] # Nothing
    /\ reply[c] = stored[Key].node
    /\ item[c].version = stored[Key].version

RaceInv ==
  /\ PlacementInv
  /\ ItemsChosen
  /\ ParentRemembered
  /\ CallsAwaited
  /\ StoredOnce
  /\ AnswersStored
  /\ OneNode
  /\ MappingTellsContent

\* The item is known, and nobody has placed it.
LEMMA RaceInit == Init => RaceInv
  BY PlacementAssumption
  DEF Init, RaceInv, PlacementInv, TypeOK, RetryIsPossible, ItemsChosen, ParentRemembered, Calling,
      CallsAwaited, StoredOnce, AnswersStored, OneNode, MappingTellsContent, Key

\* A caller that leaves its call behind leaves it to nobody.
LEMMA Abandoned ==
  ASSUME TypeOK, NEW c \in Callers,
         transit' = {IF m.by = c THEN [m EXCEPT !.by = Nobody] ELSE m : m \in transit}
  PROVE  /\ transit' \subseteq [by : Callers \cup {Nobody}, version : Versions, parent : Parents]
         /\ \A m \in transit' : m.by = Nobody \/ (m \in transit /\ m.by # c)
<1> SUFFICES ASSUME NEW m \in transit
             PROVE  LET n == IF m.by = c THEN [m EXCEPT !.by = Nobody] ELSE m IN
                    /\ n \in [by : Callers \cup {Nobody}, version : Versions, parent : Parents]
                    /\ n.by = Nobody \/ (n \in transit /\ n.by # c)
  OBVIOUS
<1>1. m \in [by : Callers \cup {Nobody}, version : Versions, parent : Parents]
  BY DEF TypeOK
<1> QED
  BY <1>1

\* No statement writes a value outside its columns' ranges.
LEMMA ColumnsStep ==
  ASSUME TypeOK, ItemsChosen, AnswersStored, [Next]_vars
  PROVE  TypeOK'
<1> USE DEF TypeOK, row, caller, server, Goes, Counted
<1>1. ASSUME NEW v \in Versions, Ingest(v)
      PROVE  TypeOK'
  BY <1>1, PlacementAssumption DEF Ingest, ReviewAgain
<1>2. ASSUME NEW c \in Callers, NEW p \in Parents, Place(c, p)
      PROVE  TypeOK'
  BY <1>2, PlacementAssumption DEF Place
<1>3. ASSUME NEW c \in Callers, Retry(c) \/ Claim(c)
      PROVE  TypeOK'
  BY <1>3, PlacementAssumption DEF Retry, Claim
<1>4. ASSUME NEW c \in Callers, Remember(c) \/ Reschedule(c) \/ ReadAttempts(c) \/ WriteFailure(c)
      PROVE  TypeOK'
  BY <1>4 DEF Remember, SaveParent, ItemsChosen, Reschedule, ReadAttempts, WriteFailure, Attempt
<1>5. ASSUME NEW c \in Callers, Send(c)
      PROVE  TypeOK'
  <2>1. Call(c) \in [by : Callers \cup {Nobody}, version : Versions, parent : Parents]
    BY <1>5 DEF Send, Call, ItemsChosen, Calling
  <2> QED
    BY <1>5, <2>1 DEF Send
<1>6. ASSUME NEW c \in Callers, GiveUp(c)
      PROVE  TypeOK'
  BY <1>6, Abandoned DEF GiveUp
<1>7. ASSUME NEW c \in Callers, Crash(c)
      PROVE  TypeOK'
  BY <1>7, Abandoned, PlacementAssumption DEF Crash
<1>8. ASSUME NEW c \in Callers, Store(c)
      PROVE  TypeOK'
  <2>1. /\ item[c].version \in Versions
        /\ reply[c] \in Nat
    BY <1>8 DEF Store, ItemsChosen, Calling, AnswersStored, Key
  <2> QED
    BY <1>8, <2>1 DEF Store, VersionSent
<1>9. ASSUME NEW m \in transit, Serve(m)
      PROVE  TypeOK'
  <2> DEFINE created == [version |-> m.version, parent |-> m.parent, node |-> made + 1]
             result == stored[KeyOf(m.version)]
  <2>1. /\ m \in [by : Callers \cup {Nobody}, version : Versions, parent : Parents]
        /\ created \in [version : Versions, parent : Parents, node : Nat]
        /\ result # Nothing => result.node \in Nat
    BY DEF KeyOf
  <2>2. ASSUME NEW a \in Nat \cup {Nothing}, Answers(m, a)
        PROVE  /\ pc' \in [Callers -> {"idle", "chosen", "ready", "sent", "answered", "retrying",
                                       "failed", "counting"}]
               /\ reply' \in [Callers -> Nat \cup {Nothing}]
    BY <2>1, <2>2 DEF Answers
  <2>3. PICK a \in Nat \cup {Nothing} : Answers(m, a)
    BY <1>9, <2>1 DEF Serve
  <2>4. stored' \in [{Key} \cup Versions ->
           [version : Versions, parent : Parents, node : Nat] \cup {Nothing}]
        /\ made' \in Nat
    BY <1>9, <2>1 DEF Serve, KeyOf
  <2> QED
    BY <1>9, <2>2, <2>3, <2>4 DEF Serve
<1>10. CASE UNCHANGED vars
  BY <1>10 DEF vars
<1> QED
  BY <1>1, <1>2, <1>3, <1>4, <1>5, <1>6, <1>7, <1>8, <1>9, <1>10 DEF Next, Step, Resting

-----------------------------------------------------------------------------
(* The invariants.                                                         *)

\* What an answer does to the callers: at most the one who waits goes on.
LEMMA AnswerReaches ==
  ASSUME TypeOK, CallsAwaited, NEW m \in transit, NEW a, Answers(m, a)
  PROVE  \A c \in Callers :
           \/ pc'[c] = pc[c] /\ reply'[c] = reply[c] /\ m.by # c
           \/ /\ m.by = c /\ m = Call(c) /\ pc[c] = "sent"
              /\ pc'[c] = IF a = Nothing THEN "failed" ELSE "answered"
              /\ reply'[c] = a
  BY PlacementAssumption DEF TypeOK, CallsAwaited, Answers, Goes

\* Callers go on with what they chose, under the parent they wrote.
LEMMA CallersStep ==
  ASSUME TypeOK, RetryIsPossible, ItemsChosen, ParentRemembered, CallsAwaited, [Next]_vars
  PROVE  ItemsChosen' /\ ParentRemembered' /\ RetryIsPossible'
<1> USE DEF TypeOK, ItemsChosen, ParentRemembered, RetryIsPossible, Calling, row, caller, Goes
<1>1. ASSUME NEW v \in Versions, Ingest(v)
      PROVE  ItemsChosen' /\ ParentRemembered' /\ RetryIsPossible'
  BY <1>1 DEF Ingest, ReviewAgain
<1>2. ASSUME NEW c \in Callers, NEW p \in Parents, Place(c, p)
      PROVE  ItemsChosen' /\ ParentRemembered' /\ RetryIsPossible'
  BY <1>2 DEF Place
<1>3. ASSUME NEW c \in Callers, Retry(c) \/ Reschedule(c) \/ Send(c) \/ ReadAttempts(c)
      PROVE  ItemsChosen' /\ ParentRemembered' /\ RetryIsPossible'
  BY <1>3, PlacementAssumption DEF Retry, Reschedule, Send, ReadAttempts
<1>4. ASSUME NEW c \in Callers, Claim(c)
      PROVE  ItemsChosen' /\ ParentRemembered' /\ RetryIsPossible'
  BY <1>4, PlacementAssumption DEF Claim
<1>5. ASSUME NEW c \in Callers, Remember(c)
      PROVE  ItemsChosen' /\ ParentRemembered' /\ RetryIsPossible'
  BY <1>5, PlacementAssumption DEF Remember, SaveParent
<1>6. ASSUME NEW c \in Callers, GiveUp(c) \/ Crash(c)
      PROVE  ItemsChosen' /\ ParentRemembered' /\ RetryIsPossible'
  BY <1>6 DEF GiveUp, Crash
<1>7. ASSUME NEW c \in Callers, Store(c)
      PROVE  ItemsChosen' /\ ParentRemembered' /\ RetryIsPossible'
  BY <1>7 DEF Store
<1>8. ASSUME NEW c \in Callers, WriteFailure(c)
      PROVE  ItemsChosen' /\ ParentRemembered' /\ RetryIsPossible'
  BY <1>8, PlacementAssumption DEF WriteFailure
<1>9. ASSUME NEW m \in transit, Serve(m)
      PROVE  ItemsChosen' /\ ParentRemembered' /\ RetryIsPossible'
  <2>1. PICK a : Answers(m, a)
    BY <1>9 DEF Serve
  <2> QED
    BY <1>9, <2>1, AnswerReaches DEF Serve
<1>10. CASE UNCHANGED vars
  BY <1>10 DEF vars
<1> QED
  BY <1>1, <1>2, <1>3, <1>4, <1>5, <1>6, <1>7, <1>8, <1>9, <1>10 DEF Next, Step, Resting

\* A call loses its caller when this one goes on without the answer.
LEMMA CallsStep ==
  ASSUME TypeOK, CallsAwaited, [Next]_vars
  PROVE  CallsAwaited'
<1> USE DEF TypeOK, CallsAwaited, row, caller, Goes, Call
<1>1. ASSUME NEW v \in Versions, Ingest(v)
      PROVE  CallsAwaited'
  BY <1>1 DEF Ingest
<1>2. ASSUME NEW c \in Callers, NEW p \in Parents, Place(c, p)
      PROVE  CallsAwaited'
  BY <1>2 DEF Place
<1>3. ASSUME NEW c \in Callers,
             Retry(c) \/ Claim(c) \/ Remember(c) \/ Reschedule(c) \/ Store(c)
             \/ ReadAttempts(c) \/ WriteFailure(c)
      PROVE  CallsAwaited'
  BY <1>3 DEF Retry, Claim, Remember, Reschedule, Store, ReadAttempts, WriteFailure
<1>4. ASSUME NEW c \in Callers, Send(c)
      PROVE  CallsAwaited'
  <2>1. \A m \in transit' : m \in transit \/ m = Call(c)
    BY <1>4 DEF Send
  <2> QED
    BY <1>4, <2>1 DEF Send
<1>5. ASSUME NEW c \in Callers, GiveUp(c) \/ Crash(c)
      PROVE  CallsAwaited'
  <2>1. \A m \in transit' : m.by = Nobody \/ (m \in transit /\ m.by # c)
    BY <1>5, Abandoned DEF GiveUp, Crash
  <2> QED
    BY <1>5, <2>1, PlacementAssumption DEF GiveUp, Crash
<1>6. ASSUME NEW m \in transit, Serve(m)
      PROVE  CallsAwaited'
  <2>1. PICK a : Answers(m, a)
    BY <1>6 DEF Serve
  <2> QED
    BY <1>6, <2>1, AnswerReaches DEF Serve
<1>7. CASE UNCHANGED vars
  BY <1>7 DEF vars
<1> QED
  BY <1>1, <1>2, <1>3, <1>4, <1>5, <1>6, <1>7 DEF Next, Step, Resting

\* The server creates at most once, for the first content it accepts, and
\* repeats its result for no other content.
LEMMA ServerStep ==
  ASSUME TypeOK, CallsAwaited, StoredOnce, NEW m \in transit, Serve(m)
  PROVE  \E a : /\ Answers(m, a)
                /\ StoredOnce'
                /\ stored[Key] # Nothing => stored'[Key] = stored[Key]
                /\ a # Nothing => /\ stored'[Key] # Nothing
                                  /\ a = stored'[Key].node
                                  /\ m.version = stored'[Key].version
<1> DEFINE created == [version |-> m.version, parent |-> m.parent, node |-> made + 1]
<1> USE DEF TypeOK, StoredOnce, KeyOf, server
<1>1. /\ m \in [by : Callers \cup {Nobody}, version : Versions, parent : Parents]
      /\ created \in [version : Versions, parent : Parents, node : Nat]
      /\ created # Nothing
  BY PlacementAssumption
<1>2. CASE /\ stored[Key] = Nothing
           /\ stored' = [stored EXCEPT ![Key] = created]
           /\ made' = made + 1
           /\ Answers(m, created.node)
  <2>1. stored'[Key] = created
    BY <1>2
  <2>2. created.node = 1 /\ created.version = m.version /\ made' = 1
    BY <1>2
  <2> QED
    BY <1>1, <1>2, <2>1, <2>2
<1>3. CASE stored[Key] = Nothing /\ Answers(m, Nothing) /\ UNCHANGED server
  BY <1>3
<1>4. CASE /\ stored[Key] # Nothing
           /\ Answers(m, IF stored[Key].version = m.version /\ stored[Key].parent = m.parent
                           THEN stored[Key].node ELSE Nothing)
           /\ UNCHANGED server
  BY <1>4
<1> QED
  BY <1>2, <1>3, <1>4 DEF Serve

\* The stored result never changes, and who was answered was told of it.
LEMMA AnswersStep ==
  ASSUME TypeOK, CallsAwaited, StoredOnce, AnswersStored, [Next]_vars
  PROVE  StoredOnce' /\ AnswersStored'
<1> USE DEF TypeOK, AnswersStored, row, caller, server, Goes
<1>1. CASE UNCHANGED server /\ UNCHANGED reply
           /\ \A c \in Callers : pc'[c] = "answered" => pc[c] = "answered" /\ item'[c] = item[c]
  BY <1>1 DEF StoredOnce
<1>2. ASSUME NEW m \in transit, Serve(m)
      PROVE  StoredOnce' /\ AnswersStored'
  <2>1. PICK a : /\ Answers(m, a)
                 /\ StoredOnce'
                 /\ stored[Key] # Nothing => stored'[Key] = stored[Key]
                 /\ a # Nothing => /\ stored'[Key] # Nothing
                                   /\ a = stored'[Key].node
                                   /\ m.version = stored'[Key].version
    BY <1>2, ServerStep
  <2>2. UNCHANGED item
    BY <1>2 DEF Serve
  <2> QED
    BY <2>1, <2>2, AnswerReaches DEF Call
<1>3. CASE (\E v \in Versions : Ingest(v)) \/ UNCHANGED vars
  BY <1>1, <1>3 DEF Ingest, vars
<1>4. ASSUME NEW c \in Callers, NEW p \in Parents, Place(c, p)
      PROVE  StoredOnce' /\ AnswersStored'
  BY <1>1, <1>4 DEF Place
<1>5. ASSUME NEW c \in Callers, Retry(c) \/ Claim(c) \/ Step(c) \/ Crash(c)
      PROVE  StoredOnce' /\ AnswersStored'
  BY <1>1, <1>5 DEF Retry, Claim, Step, Remember, Reschedule, Send, GiveUp, Store, ReadAttempts,
                    WriteFailure, Crash
<1> QED
  BY <1>2, <1>3, <1>4, <1>5 DEF Next, Resting

\* Row and mapping are written together, from an answer.
LEMMA PlacedStep ==
  ASSUME TypeOK, CallsAwaited, StoredOnce, AnswersStored, OneNode, MappingTellsContent, [Next]_vars
  PROVE  /\ OneNode' /\ MappingTellsContent'
         /\ node # Nothing => node' = node
<1> USE DEF TypeOK, OneNode, MappingTellsContent, row, server
<1>1. made' <= 1 /\ (stored[Key] # Nothing => stored'[Key] = stored[Key])
  <2>1. StoredOnce'
    BY AnswersStep
  <2>2. UNCHANGED server \/ \E m \in transit : Serve(m)
    BY DEF Next, Ingest, Place, Retry, Claim, Step, Remember, Reschedule, Send, GiveUp, Store,
           ReadAttempts, WriteFailure, Crash, Resting, vars
  <2> QED
    BY <2>1, <2>2, ServerStep DEF StoredOnce
<1>2. CASE UNCHANGED <<node, mapping>>
  BY <1>1, <1>2
<1>3. ASSUME NEW c \in Callers, Store(c)
      PROVE  /\ OneNode' /\ MappingTellsContent'
             /\ node # Nothing => node' = node
  <2>1. /\ stored[Key] # Nothing
        /\ reply[c] = stored[Key].node /\ reply[c] \in Nat
        /\ VersionSent(c) = stored[Key].version /\ VersionSent(c) \in Versions
    BY <1>3 DEF Store, AnswersStored, VersionSent, Key
  <2>2. CASE /\ mapping' = [version |-> VersionSent(c), node |-> reply[c]]
             /\ node' = reply[c]
    BY <1>1, <2>1, <2>2, PlacementAssumption
  <2> QED
    BY <1>2, <1>3, <2>2 DEF Store
<1>4. UNCHANGED <<node, mapping>> \/ \E c \in Callers : Store(c)
  BY DEF Next, Ingest, ReviewAgain, Place, Retry, Claim, Step, Remember, Reschedule, Send, GiveUp,
         ReadAttempts, WriteFailure, Crash, Serve, Resting, vars
<1> QED
  BY <1>2, <1>3, <1>4

-----------------------------------------------------------------------------
(* The theorems.                                                           *)

\* The invariant is inductive.
LEMMA RaceStep ==
  ASSUME RaceInv, [Next]_vars
  PROVE  RaceInv'
  BY ColumnsStep, CallersStep, CallsStep, AnswersStep, PlacedStep DEF RaceInv, PlacementInv

\* The inductive invariant holds in every state: the callers, their calls, the
\* one result of the server, and what row and mapping say of it.
THEOREM RaceInvariant == Spec => []RaceInv
  BY RaceInit, RaceStep, PTL DEF Spec

\* However calls and answers interleave, the item has one node, and row and
\* mapping name it (createNativeNode, commitPlacement).
THEOREM PlacedOnce == Spec => []OneNode
<1>1. RaceInv => OneNode
  BY DEF RaceInv
<1> QED
  BY <1>1, RaceInvariant, PTL

\* The mapping tells the version the node was created from.
THEOREM MappingTrue == Spec => []MappingTellsContent
<1>1. RaceInv => MappingTellsContent
  BY DEF RaceInv
<1> QED
  BY <1>1, RaceInvariant, PTL

\* Types, and a retry always finds its parent and its time.
THEOREM PlacementInvariant == Spec => []PlacementInv
<1>1. RaceInv => PlacementInv
  BY DEF RaceInv
<1> QED
  BY <1>1, RaceInvariant, PTL

\* New versions, retries and late failures leave a placed item its node.
THEOREM NodeNeverChanges == Spec => NodeKept
<1>1. RaceInv /\ [Next]_vars => [node # Nothing => node' = node]_vars
  BY PlacedStep DEF RaceInv, PlacementInv
<1> QED
  BY <1>1, RaceInvariant, PTL DEF Spec, NodeKept
=============================================================================

-------------------------------- MODULE EventFeed --------------------------------
(***************************************************************************)
(* The committed events of a workspace and the gateways that follow them.  *)
(* An event is stamped with the start of its transaction and becomes       *)
(* visible at its commit; the feed is paged by stamp.  A gateway reads a   *)
(* page behind its cursor, drops what is younger than the settle delay,    *)
(* projects the rest onto the nodes it has mapped, and saves the cursor in *)
(* the same transaction.                                                   *)
(*                                                                         *)
(* Time is a clock all share.  The code bounds the time of an answer by 15 *)
(* seconds and that of a transaction not at all, and waits for two: the    *)
(* safety properties hold for any MaxAge and MaxLatency, and the run has   *)
(* them exceed Settle together.                                            *)
(***************************************************************************)
EXTENDS Naturals, FiniteSets

CONSTANTS
  Writers,      \* transactions of the server; numbers, to order their events,
                \* and not 0, which stands for no cursor yet
  Nodes,
  Gateways,     \* replicas
  NoGateway,    \* the lock is free
  Absent,       \* a node without mapping, an event without journal row
  PageLimit,    \* events on a page
  Settle,       \* nativeEventSettleDelay
  MaxAge,       \* bound on the time a transaction takes
  MaxLatency,   \* bound on the time an answer takes
  MaxClock,     \* bound on the clock
  MaxFailures   \* bound on the pages given up

ASSUME FeedAssumption ==
  /\ Writers \subseteq Nat \ {0}
  /\ NoGateway \notin Gateways
  /\ Absent \notin Nat \cup {"pending", "suppressed"}
  /\ PageLimit \in Nat \ {0}
  /\ {Settle, MaxAge, MaxLatency, MaxClock, MaxFailures} \subseteq Nat

VARIABLES
  clock,
  started,   \* the stamp of an open transaction, Absent otherwise
  outbox,    \* the committed events
  mapped,    \* last_native_revision of a mapped node
  holder,    \* the gateway with the advisory lock
  asked,     \* when it asked for its page, Absent once it has the answer
  page,      \* the events of the page, those ahead after the answer
  gone,      \* those its transaction has gone over
  rows,      \* and the journal rows it has written for them
  slowest,   \* the longest that an answer has taken; not kept by the code
  cursor,    \* the stamp and the id of the last event that was gone over
  passed,    \* the events gone over and committed; not kept by the code
  journal,   \* the status of the rows of gateway_outbound_events
  failures

writing == <<started, outbox>>
reading == <<holder, asked, page, gone, rows, slowest>>
saved == <<cursor, passed, journal>>
feedVars == <<clock, writing, mapped, reading, saved, failures>>

NoRows == [w \in Writers |-> Absent]

FeedInit ==
  /\ clock = 0
  /\ started = [w \in Writers |-> Absent]
  /\ outbox = {}
  /\ mapped = [n \in Nodes |-> Absent]
  /\ holder = NoGateway /\ asked = Absent
  /\ page = {} /\ gone = {} /\ rows = NoRows /\ slowest = 0
  /\ cursor = [at |-> 0, id |-> 0]
  /\ passed = {}
  /\ journal = NoRows
  /\ failures = 0

Before(e, f) == e.at < f.at \/ (e.at = f.at /\ e.id < f.id)

Committed(w) == \E e \in outbox : e.id = w

Tick ==
  /\ clock < MaxClock
  /\ \A w \in Writers : started[w] # Absent => clock < started[w] + MaxAge
  /\ asked # Absent => clock < asked + MaxLatency
  /\ clock' = clock + 1
  /\ UNCHANGED <<writing, mapped, reading, saved, failures>>

-----------------------------------------------------------------------------
(* The server.                                                             *)

\* now() is fixed when the transaction begins; the last ones begin early
\* enough for their events to settle.
Begin(w) ==
  /\ started[w] = Absent /\ ~Committed(w)
  /\ clock + MaxAge + Settle <= MaxClock
  /\ started' = [started EXCEPT ![w] = clock]
  /\ UNCHANGED <<clock, outbox, mapped, reading, saved, failures>>

\* Revisions are given in the order of the commits, because a writer holds the
\* row of the workspace from its revision to its end.  The time of the commit is
\* an auxiliary field, which nobody reads.
Commit(w) ==
  /\ started[w] # Absent
  /\ \E n \in Nodes :
       outbox' = outbox \cup
         {[at |-> started[w], id |-> w, node |-> n, committed |-> clock,
           revision |-> Cardinality(outbox) + 1]}
  /\ started' = [started EXCEPT ![w] = Absent]
  /\ UNCHANGED <<clock, mapped, reading, saved, failures>>

\* The events of a node, the first of which created it.
Creation(n) == CHOOSE e \in outbox :
  e.node = n /\ \A f \in outbox : f.node = n => e.revision <= f.revision

\* commitPlacement: the gateway hears that it has created a node, soon or,
\* after a lost answer, late.
Map(n) ==
  /\ mapped[n] = Absent
  /\ \E e \in outbox : e.node = n
  /\ mapped' = [mapped EXCEPT ![n] = Creation(n).revision]
  /\ UNCHANGED <<clock, writing, reading, saved, failures>>

-----------------------------------------------------------------------------
(* consumeNativeEventPage                                                  *)

\* Seeded fault: the page is filled by identity instead of stamp.
BehindById(e) == e.id > cursor.id

Behind(e) == Before(cursor, e)

FirstOf(events) == {e \in events : Cardinality({f \in events : Before(f, e)}) < PageLimit}

\* The lock is tried, the cursor read and the page asked for.  An empty page
\* changes nothing.
Fetch(g) ==
  /\ holder = NoGateway
  /\ page' = FirstOf({e \in outbox : Behind(e)})
  /\ page' # {}
  /\ holder' = g /\ asked' = clock
  /\ gone' = {} /\ rows' = NoRows
  /\ UNCHANGED <<clock, writing, mapped, slowest, saved, failures>>

Release == holder' = NoGateway /\ asked' = Absent /\ page' = {} /\ gone' = {} /\ rows' = NoRows

\* Seeded fault: every event of the page counts as settled.
AnyAge(e) == TRUE

Settled(e) == e.at + Settle <= clock

\* The answer is here, and the cutoff is taken from the time it is here.
Cut(g) ==
  LET stable == {e \in page : Settled(e)} IN
  /\ holder = g /\ asked # Absent
  /\ \/ stable = {} /\ Release
     \/ /\ stable # {}
        /\ page' = stable /\ asked' = Absent
        /\ UNCHANGED <<holder, gone, rows>>
  /\ slowest' = IF clock - asked > slowest THEN clock - asked ELSE slowest
  /\ UNCHANGED <<clock, writing, mapped, saved, failures>>

\* Seeded fault: the gateway's own revision is taken for a later change.
OwnIsPending(e) == IF e.revision < mapped[e.node] THEN "suppressed" ELSE "pending"

RowOf(e) == IF e.revision <= mapped[e.node] THEN "suppressed" ELSE "pending"

IsNew(e) == journal[e.id] = Absent

\* INSERT ... SELECT ... FROM gateway_mappings ON CONFLICT DO NOTHING, for the
\* first event ahead.
Project(g) ==
  /\ holder = g /\ asked = Absent
  /\ \E e \in page :
       /\ \A f \in page : ~Before(f, e)
       /\ rows' = IF mapped[e.node] # Absent /\ IsNew(e)
                    THEN [rows EXCEPT ![e.id] = RowOf(e)] ELSE rows
       /\ page' = page \ {e} /\ gone' = gone \cup {e}
  /\ UNCHANGED <<clock, holder, asked, slowest, writing, mapped, saved, failures>>

\* Seeded fault: the cursor is not saved with the rows.
CursorStays == UNCHANGED cursor

SaveCursor ==
  \E last \in gone :
    /\ \A e \in gone : ~Before(last, e)
    /\ cursor' = [at |-> last.at, id |-> last.id]

\* The cursor and the commit.
Save(g) ==
  /\ holder = g /\ asked = Absent /\ page = {}
  /\ SaveCursor
  /\ passed' = passed \cup gone
  /\ journal' = [w \in Writers |-> IF rows[w] # Absent THEN rows[w] ELSE journal[w]]
  /\ Release
  /\ UNCHANGED <<clock, writing, mapped, slowest, failures>>

\* The request fails, the gateway stops, a statement is refused: rolled back.
Fail(g) ==
  /\ holder = g
  /\ failures < MaxFailures /\ failures' = failures + 1
  /\ Release
  /\ UNCHANGED <<clock, writing, mapped, slowest, saved>>

\* Nothing happens any more in the workspace, and all has settled.
Quiet ==
  /\ clock = MaxClock
  /\ UNCHANGED feedVars

Consume(g) == Fetch(g) \/ Cut(g) \/ Project(g) \/ Save(g)

FeedNext ==
  \/ Tick
  \/ \E w \in Writers : Begin(w) \/ Commit(w)
  \/ \E n \in Nodes : Map(n)
  \/ \E g \in Gateways : Consume(g) \/ Fail(g)
  \/ Quiet

FeedSpec == FeedInit /\ [][FeedNext]_feedVars

\* Time goes on, transactions end, and a ticker asks for the feed every three
\* seconds.
FairFeedSpec ==
  /\ FeedSpec
  /\ WF_feedVars(Tick)
  /\ \A w \in Writers : WF_feedVars(Commit(w))
  /\ WF_feedVars(\E g \in Gateways : Consume(g))

-----------------------------------------------------------------------------
(* Properties.                                                             *)

Event == [at : Nat, id : Writers, node : Nodes, committed : Nat, revision : Nat]

FeedTypeOK ==
  /\ clock \in 0..MaxClock
  /\ started \in [Writers -> Nat \cup {Absent}]
  /\ outbox \subseteq Event
  /\ mapped \in [Nodes -> Nat \cup {Absent}]
  /\ holder \in Gateways \cup {NoGateway}
  /\ asked \in Nat \cup {Absent}
  /\ page \subseteq Event
  /\ gone \subseteq Event
  /\ rows \in [Writers -> {"pending", "suppressed", Absent}]
  /\ slowest \in Nat
  /\ cursor \in [at : Nat, id : Nat]
  /\ passed \subseteq Event
  /\ journal \in [Writers -> {"pending", "suppressed", Absent}]
  /\ failures \in 0..MaxFailures

\* The time from the stamp of an event to its commit and the longest time of an
\* answer together use up the settle delay.
Late(e) == e.committed + slowest >= e.at + Settle

\* docs/integration-gateway.md:60: "a restart can replay safely without losing
\* or duplicating a projected change".  An event behind the cursor has been gone
\* over, although commits come in another order than stamps and pages are read
\* while others commit; only one that is late can be lost (events.go:109).
OnlyLateSkipped ==
  \A e \in outbox : ~Before(cursor, e) => e \in passed \/ Late(e)

\* The same sentence: a page that is read again is not gone over again, and a
\* row that is in the journal stays as it is.
GoneOverOnce ==
  [][ /\ \A w \in Writers : journal[w] # Absent => journal'[w] = journal[w]
      /\ passed' # passed => passed \cap gone = {} ]_feedVars

\* The same paragraph: the journal has no row for the gateway's own creation but
\* a suppressed one, and none but a pending one for what came later.
OwnChangesSuppressed ==
  \A e \in passed : journal[e.id] # Absent =>
    /\ mapped[e.node] # Absent
    /\ journal[e.id] = IF e = Creation(e.node) THEN "suppressed" ELSE "pending"

\* Types, and what the journal says of what has been gone over.
JournalInv == FeedTypeOK /\ OwnChangesSuppressed

\* runEventConsumer: again and again all that is committed and not late has been
\* gone over, although a page of young events is dropped as a whole and pages fail.
EveryChangeIsPassed == []<>(\A e \in outbox : e \in passed \/ Late(e))
=============================================================================

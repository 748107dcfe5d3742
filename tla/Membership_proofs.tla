-------------------------- MODULE Membership_proofs --------------------------
(***************************************************************************)
(* Proofs about Membership for any persons, workspaces, requests and       *)
(* bounds: one setup, one actor for each member, the actor a former member *)
(* comes back to, and that the handlers keep what Roster promises.         *)
(***************************************************************************)
EXTENDS Membership, SequenceTheorems, FiniteSetTheorems, TLAPS

ActorRecord == [name : Name, hasAccount : BOOLEAN, kind : {"person", "service"}]
Account == [name : Name, by : {"nobody", "registration", "invitation"}]
Link == [actor : Workspace \X (Nat \ {0}), person : Person, role : Role]
Invitation ==
  [w : Workspace, person : Person, name : Name, role : {"admin", "member"},
   accepted : BOOLEAN, expired : BOOLEAN]

DirectoryTyped ==
  /\ open \in BOOLEAN
  /\ account \in [Person -> Account]
  /\ actor \in [Workspace -> Seq(ActorRecord)]
  /\ members \subseteq Link
  /\ \A m \in members : m.actor[2] \in DOMAIN actor[m.actor[1]]
  /\ invitation \in Seq(Invitation)
  /\ before \in [Person -> [Workspace -> Nat]]

\* Actors differ in name, and an actor is one person at most.
Distinct ==
  /\ \A m1, m2 \in members : m1.actor = m2.actor => m1 = m2
  /\ \A w \in Workspace : \A i, j \in DOMAIN actor[w] :
       actor[w][i].name = actor[w][j].name => i = j

Unset == \A p \in Person : ~HasAccount(p)

\* has_account and the link beside it.
Has(ms, w, i) == \E m \in ms : m.actor = <<w, i>>
Namesake(as, i) == \E j \in DOMAIN as \ {i} : Fold[as[j].name] = Fold[as[i].name]
FlagsSet ==
  \A w \in Workspace : \A i \in DOMAIN actor[w] :
    /\ Has(members, w, i) => actor[w][i].hasAccount
    /\ actor[w][i].hasAccount => Has(members, w, i) \/ Unset \/ Namesake(actor[w], i)

\* Before the first account there is only what migrations left, one actor with
\* has_account in each workspace.
BeforeSetup ==
  Unset =>
    /\ members = {} /\ invitation = <<>>
    /\ \A p \in Person, w \in Workspace : before[p][w] = 0
    /\ \A w \in Workspace \ Existing : actor[w] = <<>>
    /\ \A w \in Existing : \E i \in DOMAIN actor[w] :
         \A j \in DOMAIN actor[w] : actor[w][j].hasAccount <=> i = j

\* While registration is closed one person has registered; one person owns what
\* was there; no account is two actors of a workspace.
RegisteredOnce ==
  ~open => \A p1, p2 \in Person :
    account[p1].by = "registration" /\ account[p2].by = "registration" => p1 = p2
OwnedOnce ==
  \A m1, m2 \in members :
    /\ m1.role = "owner" /\ m1.actor[1] \in Existing
    /\ m2.role = "owner" /\ m2.actor[1] \in Existing
    => m1.person = m2.person
MembersOnce ==
  \A m1, m2 \in members : m1.person = m2.person /\ m1.actor[1] = m2.actor[1] => m1 = m2

\* A workspace where anybody is or is invited has an owner.
HasOwner(w) == \E o \in members : o.actor[1] = w /\ o.role = "owner"
Owned ==
  /\ \A m \in members : HasOwner(m.actor[1])
  /\ \A i \in DOMAIN invitation : HasOwner(invitation[i].w)

\* One invitation is pending for each person and workspace.
PendingOnce ==
  \A i, j \in DOMAIN invitation :
    /\ Pending(i) /\ Pending(j)
    /\ invitation[i].w = invitation[j].w /\ invitation[i].person = invitation[j].person
    => i = j

\* The actor somebody was bears the name of the account, but for its case.
History ==
  \A p \in Person, w \in Workspace :
    before[p][w] # 0 =>
      /\ before[p][w] \in DOMAIN actor[w] /\ HasAccount(p)
      /\ Fold[actor[w][before[p][w]].name] = Fold[account[p].name]

DirectoryInv ==
  /\ DirectoryTyped
  /\ Distinct
  /\ FlagsSet
  /\ BeforeSetup
  /\ RegisteredOnce
  /\ OwnedOnce
  /\ MembersOnce
  /\ Owned
  /\ PendingOnce
  /\ History

\* What a request holds while it is in progress.
Command ==
  [op : {"invite"}, w : Workspace, person : Person, name : Name, role : {"admin", "member"}]
  \cup [op : {"actor", "service"}, w : Workspace, name : Name]
  \cup [op : {"role"}, w : Workspace, actor : Workspace \X (Nat \ {0}), role : {"admin", "member"}]
  \cup [op : {"remove"}, w : Workspace, actor : Workspace \X (Nat \ {0})]
Counted == [pc : {"counted"}, person : Person, name : Name, first : BOOLEAN]
Commanded == [pc : {"authorized", "checked"}, by : Person, command : Command]
Accepting == [pc : {"accepting"}, invitation : Nat \ {0}, known : BOOLEAN]

\* The first registration is before all accounts.
CountedHolds(r) == IF r.first THEN Unset ELSE open /\ ~Unset

\* An administrator's workspace has an owner, whose role is not in hand.
CommandHolds(r) ==
  LET c == r.command IN
  /\ HasOwner(c.w)
  /\ c.op \in {"role", "remove"} =>
       c.actor[1] = c.w /\ c.actor[2] \in DOMAIN actor[c.w]
  /\ c.op = "role" /\ r.pc = "checked" =>
       \A m \in members : m.actor = c.actor => m.role # "owner"

\* An invitation that is being accepted has not been used.
AcceptHolds(r) ==
  /\ r.invitation \in DOMAIN invitation /\ Pending(r.invitation)
  /\ r.known => HasAccount(invitation[r.invitation].person)

RequestHolds(r) ==
  \/ r = Idle
  \/ r \in Counted /\ CountedHolds(r)
  \/ r \in Commanded /\ CommandHolds(r)
  \/ r \in Accepting /\ AcceptHolds(r)

\* Registrations, and acceptances of one invitation, are one at a time.
RequestsApart ==
  \A q1, q2 \in Request :
    /\ request[q1].pc = "counted" /\ request[q2].pc = "counted" => q1 = q2
    /\ /\ request[q1].pc = "accepting" /\ request[q2].pc = "accepting"
       /\ request[q1].invitation = request[q2].invitation
       => q1 = q2

RequestsInv ==
  /\ request \in [Request -> {Idle} \cup Counted \cup Commanded \cup Accepting]
  /\ \A q \in Request : RequestHolds(request[q])
  /\ RequestsApart

MembersInv == DirectoryInv /\ RequestsInv

-----------------------------------------------------------------------------
(* Links and sequences of actors.                                          *)

\* A link is of an actor, which is a pair, to a person.
LEMMA LinkFields ==
  ASSUME NEW m \in Link
  PROVE  /\ m.actor[1] \in Workspace /\ m.actor[2] \in Nat \ {0}
         /\ m.actor = <<m.actor[1], m.actor[2]>>
         /\ m.person \in Person /\ m.role \in Role
BY DEF Link

\* And such a record is a link.
LEMMA LinkMade ==
  ASSUME NEW w \in Workspace, NEW i \in Nat \ {0}, NEW p \in Person, NEW r \in Role,
         NEW x, x = [actor |-> <<w, i>>, person |-> p, role |-> r]
  PROVE  /\ x \in Link /\ x.actor = <<w, i>> /\ x.actor[1] = w /\ x.actor[2] = i
         /\ x.person = p /\ x.role = r
BY DEF Link

\* The actors of a workspace are numbered from 1.
LEMMA Numbers ==
  ASSUME NEW S, NEW a \in Seq(S)
  PROVE  /\ Len(a) \in Nat /\ DOMAIN a = 1 .. Len(a)
         /\ \A i \in DOMAIN a : i \in Nat \ {0} /\ a[i] \in S
         /\ a = [i \in DOMAIN a |-> a[i]]
<1>1. Len(a) \in Nat /\ DOMAIN a = 1 .. Len(a)
  BY LenProperties
<1>2. \A i \in 1 .. Len(a) : a[i] \in S
  BY ElementOfSeq
<1> QED
  BY <1>1, <1>2, SeqDef

\* A new element is the last one.
LEMMA Appended ==
  ASSUME NEW S, NEW a \in Seq(S), NEW x \in S
  PROVE  /\ Append(a, x) \in Seq(S)
         /\ DOMAIN Append(a, x) = DOMAIN a \cup {Len(a) + 1}
         /\ Len(a) + 1 \notin DOMAIN a /\ Len(a) + 1 \in Nat \ {0}
         /\ Append(a, x)[Len(a) + 1] = x
         /\ \A i \in DOMAIN a : Append(a, x)[i] = a[i]
<1>1. Len(a) \in Nat /\ DOMAIN a = 1 .. Len(a)
  BY LenProperties
<1>2. /\ Append(a, x) \in Seq(S) /\ Len(Append(a, x)) = Len(a) + 1
      /\ Append(a, x)[Len(a) + 1] = x
      /\ \A i \in 1 .. Len(a) : Append(a, x)[i] = a[i]
  BY AppendProperties
<1>3. DOMAIN Append(a, x) = 1 .. Len(a) + 1
  BY <1>2, LenProperties
<1> QED
  BY <1>1, <1>2, <1>3

\* What is mapped from a sequence is one, of as many elements.
LEMMA Mapped ==
  ASSUME NEW S, NEW a \in Seq(S), NEW b, b = [i \in DOMAIN a |-> b[i]],
         \A i \in DOMAIN a : b[i] \in S
  PROVE  b \in Seq(S) /\ DOMAIN b = DOMAIN a
<1>1. Len(a) \in Nat /\ DOMAIN a = 1 .. Len(a)
  BY LenProperties
<1>2. b \in [1 .. Len(a) -> S]
  BY <1>1
<1> QED
  BY <1>1, <1>2, SeqDef

\* New links are the last of their persons in their workspaces.
LEMMA LinksMade ==
  ASSUME DirectoryTyped, NEW ms \in SUBSET Link, Links(ms),
         \A m1, m2 \in ms : m1.person = m2.person /\ m1.actor[1] = m2.actor[1] => m1 = m2
  PROVE  /\ members' = members \cup ms
         /\ before' \in [Person -> [Workspace -> Nat]]
         /\ \A m \in ms : before'[m.person][m.actor[1]] = m.actor[2]
         /\ \A p \in Person, w \in Workspace :
              (\A m \in ms : ~(m.person = p /\ m.actor[1] = w)) => before'[p][w] = before[p][w]
<1> DEFINE its(p, w) == {m \in ms : m.person = p /\ m.actor[1] = w}
<1>1. /\ members' = members \cup ms
      /\ before' = [p \in Person |-> [w \in Workspace |->
           IF \E m \in ms : m.person = p /\ m.actor[1] = w
             THEN (CHOOSE m \in ms : m.person = p /\ m.actor[1] = w).actor[2]
             ELSE before[p][w]]]
  BY DEF Links
<1>2. ASSUME NEW p \in Person, NEW w \in Workspace, NEW m \in ms, m.person = p, m.actor[1] = w
      PROVE  before'[p][w] = m.actor[2]
  <2>1. (CHOOSE x \in ms : x.person = p /\ x.actor[1] = w) = m
    BY <1>2
  <2> QED
    BY <1>1, <1>2, <2>1
<1>3. ASSUME NEW p \in Person, NEW w \in Workspace, \A m \in ms : ~(m.person = p /\ m.actor[1] = w)
      PROVE  before'[p][w] = before[p][w]
  BY <1>1, <1>3
<1>4. ASSUME NEW p \in Person, NEW w \in Workspace
      PROVE  before'[p][w] \in Nat
  <2>1. CASE \E m \in ms : m.person = p /\ m.actor[1] = w
    BY <1>2, <2>1, LinkFields
  <2>2. CASE \A m \in ms : ~(m.person = p /\ m.actor[1] = w)
    BY <1>3, <2>2 DEF DirectoryTyped
  <2> QED
    BY <2>1, <2>2
<1>5. before' \in [Person -> [Workspace -> Nat]]
  BY <1>1, <1>4
<1>6. \A m \in ms : before'[m.person][m.actor[1]] = m.actor[2]
  BY <1>2, LinkFields
<1> QED
  BY <1>1, <1>3, <1>5, <1>6

-----------------------------------------------------------------------------
(* What each change of the directory leaves.                               *)

\* What a change of the directory on behalf of r leaves to other requests.
KeptBy(r) ==
  /\ open' = open
  /\ \A p \in Person : HasAccount(p) => account'[p].by # "nobody"
  /\ Unset => r.pc = "counted" \/ account' = account
  /\ \A w \in Workspace : HasOwner(w) => \E o \in members' : o.actor[1] = w /\ o.role = "owner"
  /\ \A w \in Workspace : DOMAIN actor[w] \subseteq DOMAIN actor'[w]
  /\ \A m \in members' : m.role = "owner" =>
       m \in members \/ m.actor[2] \notin DOMAIN actor[m.actor[1]] \/ Unset
  /\ \A i \in DOMAIN invitation :
       /\ i \in DOMAIN invitation' /\ invitation'[i].person = invitation[i].person
       /\ Pending(i) =>
            ~invitation'[i].accepted \/ (r.pc = "accepting" /\ r.invitation = i)

\* The flags are those of actors, links and accounts.
LEMMA FlagsStay ==
  ASSUME FlagsSet, UNCHANGED <<account, actor, members>>
  PROVE  FlagsSet'
<1>1. Unset' <=> Unset
  BY DEF Unset, HasAccount
<1> QED
  BY <1>1 DEF FlagsSet

\* Nothing is changed.
LEMMA NothingChanges ==
  ASSUME DirectoryInv, UNCHANGED <<open, directory>>, NEW r
  PROVE  DirectoryInv' /\ KeptBy(r)
<1>1. UNCHANGED <<open, account, actor, members, invitation, before>>
  BY DEF directory
<1>2. DirectoryInv'
  <2>1. DirectoryTyped' /\ Distinct'
    BY <1>1 DEF DirectoryInv, DirectoryTyped, Distinct
  <2>2. FlagsSet'
    BY <1>1, FlagsStay DEF DirectoryInv
  <2>5. BeforeSetup'
    BY <1>1 DEF DirectoryInv, BeforeSetup, Unset, HasAccount
  <2>3. RegisteredOnce' /\ OwnedOnce' /\ MembersOnce'
    BY <1>1 DEF DirectoryInv, RegisteredOnce, OwnedOnce, MembersOnce
  <2>4. Owned' /\ PendingOnce' /\ History'
    BY <1>1 DEF DirectoryInv, Owned, HasOwner, PendingOnce, Pending, History, HasAccount
  <2> QED
    BY <2>1, <2>2, <2>3, <2>4, <2>5 DEF DirectoryInv
<1>3. KeptBy(r)
  BY <1>1 DEF KeptBy, HasAccount, HasOwner, Pending
<1> QED
  BY <1>2, <1>3

\* A workspace with an owner is not from before the setup.
LEMMA SetUpBefore ==
  ASSUME DirectoryInv, NEW w, HasOwner(w)
  PROVE  ~Unset
BY DEF DirectoryInv, BeforeSetup, HasOwner

\* Another invitation is pending.
LEMMA InvitationSaved ==
  ASSUME DirectoryInv, NEW v \in Invitation, ~v.accepted, HasOwner(v.w),
         \A i \in DOMAIN invitation :
           ~(Pending(i) /\ invitation[i].w = v.w /\ invitation[i].person = v.person),
         invitation' = Append(invitation, v),
         UNCHANGED <<open, account, actor, members, before>>, NEW r
  PROVE  DirectoryInv' /\ KeptBy(r)
<1>1. /\ invitation' \in Seq(Invitation)
      /\ DOMAIN invitation' = DOMAIN invitation \cup {Len(invitation) + 1}
      /\ Len(invitation) + 1 \notin DOMAIN invitation
      /\ invitation'[Len(invitation) + 1] = v
      /\ \A i \in DOMAIN invitation : invitation'[i] = invitation[i]
  BY Appended DEF DirectoryInv, DirectoryTyped
<1>2. ~Unset
  BY SetUpBefore
<1>3. DirectoryTyped' /\ Distinct'
  BY <1>1 DEF DirectoryInv, DirectoryTyped, Distinct
<1>4. FlagsSet' /\ BeforeSetup'
  BY <1>2, FlagsStay DEF DirectoryInv, BeforeSetup, Unset, HasAccount
<1>5. RegisteredOnce' /\ OwnedOnce' /\ MembersOnce' /\ History'
  BY DEF DirectoryInv, RegisteredOnce, OwnedOnce, MembersOnce, History, HasAccount
<1>6. Owned'
  BY <1>1 DEF DirectoryInv, Owned, HasOwner
<1>7. PendingOnce'
  BY <1>1 DEF DirectoryInv, PendingOnce, Pending
<1>8. KeptBy(r)
  BY <1>1 DEF KeptBy, HasAccount, HasOwner, Pending
<1> QED
  BY <1>3, <1>4, <1>5, <1>6, <1>7, <1>8 DEF DirectoryInv

\* Another actor has the next number in its workspace.
LEMMA ActorAppended ==
  ASSUME DirectoryTyped, NEW w \in Workspace, NEW x \in ActorRecord,
         actor' = [actor EXCEPT ![w] = Append(@, x)]
  PROVE  /\ actor' \in [Workspace -> Seq(ActorRecord)]
         /\ \A v \in Workspace : v # w => actor'[v] = actor[v]
         /\ DOMAIN actor'[w] = DOMAIN actor[w] \cup {Len(actor[w]) + 1}
         /\ Len(actor[w]) + 1 \notin DOMAIN actor[w] /\ Len(actor[w]) + 1 \in Nat \ {0}
         /\ actor'[w][Len(actor[w]) + 1] = x
         /\ \A v \in Workspace : \A i \in DOMAIN actor[v] :
              i \in DOMAIN actor'[v] /\ actor'[v][i] = actor[v][i]
<1>1. actor \in [Workspace -> Seq(ActorRecord)] /\ actor[w] \in Seq(ActorRecord)
  BY DEF DirectoryTyped
<1>2. actor'[w] = Append(actor[w], x) /\ \A v \in Workspace : v # w => actor'[v] = actor[v]
  BY <1>1
<1>3. /\ Append(actor[w], x) \in Seq(ActorRecord)
      /\ DOMAIN Append(actor[w], x) = DOMAIN actor[w] \cup {Len(actor[w]) + 1}
      /\ Len(actor[w]) + 1 \notin DOMAIN actor[w] /\ Len(actor[w]) + 1 \in Nat \ {0}
      /\ Append(actor[w], x)[Len(actor[w]) + 1] = x
      /\ \A i \in DOMAIN actor[w] : Append(actor[w], x)[i] = actor[w][i]
  BY <1>1, Appended
<1> QED
  BY <1>1, <1>2, <1>3

\* An actor without account is added under a name that is free.
LEMMA ActorAdded ==
  ASSUME DirectoryInv, NEW w \in Workspace, NEW x \in ActorRecord, ~x.hasAccount,
         NameIsFree(w, x.name), HasOwner(w), actor' = [actor EXCEPT ![w] = Append(@, x)],
         UNCHANGED <<open, account, members, invitation, before>>, NEW r
  PROVE  DirectoryInv' /\ KeptBy(r)
<1> DEFINE k == Len(actor[w]) + 1
<1>1. /\ actor' \in [Workspace -> Seq(ActorRecord)]
      /\ \A v \in Workspace : v # w => actor'[v] = actor[v]
      /\ DOMAIN actor'[w] = DOMAIN actor[w] \cup {k} /\ k \notin DOMAIN actor[w]
      /\ actor'[w][k] = x
      /\ \A v \in Workspace : \A i \in DOMAIN actor[v] :
           i \in DOMAIN actor'[v] /\ actor'[v][i] = actor[v][i]
  BY ActorAppended DEF DirectoryInv
<1> HIDE DEF k
<1>2. ~Unset /\ DirectoryTyped
  BY SetUpBefore DEF DirectoryInv
<1>3. \A m \in members : m.actor[1] \in Workspace /\ m.actor[2] \in DOMAIN actor[m.actor[1]]
  BY <1>2, LinkFields DEF DirectoryTyped
<1>4. DirectoryTyped'
  BY <1>1, <1>2, <1>3 DEF DirectoryTyped
<1>5. Distinct'
  BY <1>1 DEF DirectoryInv, Distinct, NameIsFree
<1>6. FlagsSet'
  <2>1. ~Has(members, w, k)
    BY <1>1, <1>3 DEF Has
  <2>2. ASSUME NEW v \in Workspace, NEW i \in DOMAIN actor'[v]
        PROVE  /\ Has(members, v, i) => actor'[v][i].hasAccount
               /\ actor'[v][i].hasAccount => Has(members, v, i) \/ Namesake(actor'[v], i)
    <3>1. CASE i \in DOMAIN actor[v]
      <4>1. Namesake(actor[v], i) => Namesake(actor'[v], i)
        BY <1>1, <3>1 DEF Namesake
      <4> QED
        BY <1>1, <1>2, <3>1, <4>1 DEF DirectoryInv, FlagsSet
    <3>2. CASE i \notin DOMAIN actor[v]
      <4>1. v = w /\ i = k
        BY <1>1, <2>2, <3>2
      <4> QED
        BY <1>1, <2>1, <4>1
    <3> QED
      BY <3>1, <3>2
  <2> QED
    BY <2>2 DEF FlagsSet
<1>7. BeforeSetup'
  BY <1>2 DEF BeforeSetup, Unset, HasAccount
<1>8. RegisteredOnce' /\ OwnedOnce' /\ MembersOnce' /\ PendingOnce'
  BY DEF DirectoryInv, RegisteredOnce, OwnedOnce, MembersOnce, PendingOnce, Pending
<1>9. Owned'
  BY DEF DirectoryInv, Owned, HasOwner
<1>10. History'
  BY <1>1 DEF DirectoryInv, History, HasAccount
<1>11. KeptBy(r)
  BY <1>1 DEF KeptBy, HasAccount, HasOwner, Pending
<1> QED
  BY <1>4, <1>5, <1>6, <1>7, <1>8, <1>9, <1>10, <1>11 DEF DirectoryInv

\* A role changes, not that of an owner nor to one.
LEMMA RoleChanged ==
  ASSUME DirectoryInv, NEW a, NEW l \in {"admin", "member"},
         \A m \in members : m.actor = a => m.role # "owner",
         members' = {IF m.actor = a THEN [m EXCEPT !.role = l] ELSE m : m \in members},
         UNCHANGED <<open, account, actor, invitation, before>>, NEW r
  PROVE  /\ DirectoryInv' /\ KeptBy(r)
         /\ \A m \in members' : \E x \in members : x.actor = m.actor /\ x.person = m.person
         /\ \A m \in members : \E x \in members' : x.actor = m.actor /\ x.person = m.person
         /\ {m \in members' : m.role = "owner"} = {m \in members : m.role = "owner"}
<1> DEFINE F(m) == IF m.actor = a THEN [m EXCEPT !.role = l] ELSE m
<1>1. ASSUME NEW m \in members
      PROVE  /\ F(m) \in Link /\ F(m).actor = m.actor /\ F(m).person = m.person
             /\ m.role = "owner" => F(m) = m
             /\ F(m).role = "owner" => F(m) = m
  <2>1. m \in Link
    BY DEF DirectoryInv, DirectoryTyped
  <2> QED
    BY <2>1 DEF Link, Role
<1>2. members' = {F(m) : m \in members}
  OBVIOUS
<1> HIDE DEF F
<1>3. \A x \in members' : \E m \in members : x = F(m)
  BY <1>2
<1>4. \A m \in members : F(m) \in members'
  BY <1>2
<1>5. /\ \A m \in members' : \E x \in members : x.actor = m.actor /\ x.person = m.person
      /\ \A m \in members : \E x \in members' : x.actor = m.actor /\ x.person = m.person
      /\ {m \in members' : m.role = "owner"} = {m \in members : m.role = "owner"}
  <2>1. ASSUME NEW m \in members'
        PROVE  \E x \in members : x.actor = m.actor /\ x.person = m.person
    BY <1>1, <1>3
  <2>2. ASSUME NEW m \in members
        PROVE  \E x \in members' : x.actor = m.actor /\ x.person = m.person
    BY <1>1, <1>4
  <2>3. ASSUME NEW m, m.role = "owner"
        PROVE  m \in members' <=> m \in members
    <3>1. m \in members => m \in members'
      BY <1>1, <1>4, <2>3
    <3>2. m \in members' => m \in members
      BY <1>1, <1>3, <2>3
    <3> QED
      BY <3>1, <3>2
  <2> QED
    BY <2>1, <2>2, <2>3
<1>6. DirectoryTyped'
  BY <1>1, <1>3 DEF DirectoryInv, DirectoryTyped
<1>7. Distinct'
  BY <1>1, <1>3 DEF DirectoryInv, Distinct
<1>8. FlagsSet'
  <2>1. ASSUME NEW w, NEW i
        PROVE  Has(members', w, i) <=> Has(members, w, i)
    <3>1. ASSUME NEW m \in members', m.actor = <<w, i>>
          PROVE  Has(members, w, i)
      <4>1. PICK x \in members : x.actor = m.actor
        BY <1>5
      <4> QED
        BY <3>1, <4>1 DEF Has
    <3>2. ASSUME NEW m \in members, m.actor = <<w, i>>
          PROVE  Has(members', w, i)
      <4>1. PICK x \in members' : x.actor = m.actor
        BY <1>5
      <4> QED
        BY <3>2, <4>1 DEF Has
    <3> QED
      BY <3>1, <3>2 DEF Has
  <2>2. Unset' <=> Unset
    BY DEF Unset, HasAccount
  <2> QED
    BY <2>1, <2>2 DEF DirectoryInv, FlagsSet
<1>9. BeforeSetup'
  BY <1>3 DEF DirectoryInv, BeforeSetup, Unset, HasAccount
<1>10. RegisteredOnce' /\ PendingOnce' /\ History'
  BY DEF DirectoryInv, RegisteredOnce, PendingOnce, Pending, History, HasAccount
<1>11. OwnedOnce'
  BY <1>5 DEF DirectoryInv, OwnedOnce
<1>12. MembersOnce'
  BY <1>1, <1>3 DEF DirectoryInv, MembersOnce
<1>13. \A w : HasOwner(w) => \E o \in members' : o.actor[1] = w /\ o.role = "owner"
  BY <1>5 DEF HasOwner
<1>14. Owned'
  <2>1. \A x \in members' : HasOwner(x.actor[1])
    BY <1>5 DEF DirectoryInv, Owned
  <2> QED
    BY <1>13, <2>1 DEF DirectoryInv, Owned, HasOwner
<1>15. KeptBy(r)
  BY <1>5, <1>13 DEF KeptBy, HasAccount, Pending
<1> QED
  BY <1>5, <1>6, <1>7, <1>8, <1>9, <1>10, <1>11, <1>12, <1>14, <1>15 DEF DirectoryInv

\* A member who does not own the workspace leaves it; the actor is retained.
LEMMA MemberRemoved ==
  ASSUME DirectoryInv, NEW m \in members, m.role # "owner",
         NEW w, NEW k, m.actor = <<w, k>>, members' = members \ {m},
         actor' = [actor EXCEPT ![w] = [actor[w] EXCEPT ![k] =
                     [actor[w][k] EXCEPT !.hasAccount = FALSE]]],
         UNCHANGED <<open, account, invitation, before>>, NEW r
  PROVE  DirectoryInv' /\ KeptBy(r)
<1>0. DirectoryTyped /\ Distinct /\ w \in Workspace /\ k \in DOMAIN actor[w]
  BY LinkFields DEF DirectoryInv, DirectoryTyped
<1>1. PICK x \in ActorRecord :
        /\ x = [actor[w][k] EXCEPT !.hasAccount = FALSE]
        /\ x.name = actor[w][k].name /\ ~x.hasAccount
  <2>1. actor[w][k] \in ActorRecord
    BY <1>0, Numbers DEF DirectoryTyped
  <2>2. PICK x : x = [actor[w][k] EXCEPT !.hasAccount = FALSE]
    OBVIOUS
  <2>3. x \in ActorRecord /\ x.name = actor[w][k].name /\ x.hasAccount = FALSE
    BY <2>1, <2>2 DEF ActorRecord
  <2> QED
    BY <2>2, <2>3
<1>2. /\ actor' \in [Workspace -> Seq(ActorRecord)]
      /\ \A v \in Workspace : v # w => actor'[v] = actor[v]
      /\ DOMAIN actor'[w] = DOMAIN actor[w]
      /\ \A i \in DOMAIN actor[w] : i # k => actor'[w][i] = actor[w][i]
      /\ actor'[w][k] = x
  <2>1. actor[w] \in Seq(ActorRecord) /\ actor \in [Workspace -> Seq(ActorRecord)]
    BY <1>0 DEF DirectoryTyped
  <2>2. PICK a : a = [actor[w] EXCEPT ![k] = x]
    OBVIOUS
  <2>3. k \in 1 .. Len(actor[w])
    BY <1>0, <2>1, Numbers
  <2>4. a \in Seq(ActorRecord)
    BY <2>1, <2>2, <2>3, ExceptSeq
  <2>5. /\ DOMAIN a = DOMAIN actor[w] /\ a[k] = x
        /\ \A i \in DOMAIN actor[w] : i # k => a[i] = actor[w][i]
    BY <1>0, <2>2
  <2>6. actor' = [actor EXCEPT ![w] = a]
    BY <1>1, <2>2
  <2> QED
    BY <1>0, <2>1, <2>4, <2>5, <2>6
<1>3. /\ \A v \in Workspace : DOMAIN actor'[v] = DOMAIN actor[v]
      /\ \A v \in Workspace : \A i \in DOMAIN actor[v] : actor'[v][i].name = actor[v][i].name
  BY <1>1, <1>2
<1>4. DirectoryTyped'
  <2>1. \A y \in members' : y.actor[2] \in DOMAIN actor'[y.actor[1]]
    BY <1>0, <1>3, LinkFields DEF DirectoryTyped
  <2> QED
    BY <1>0, <1>2, <2>1 DEF DirectoryTyped
<1>5. Distinct'
  BY <1>0, <1>3 DEF Distinct
<1>6. FlagsSet'
  <2>1. \A v \in Workspace : \A i \in DOMAIN actor[v] :
          Namesake(actor[v], i) => Namesake(actor'[v], i)
    BY <1>3 DEF Namesake
  <2>2. ~Has(members', w, k)
    BY <1>0 DEF Has, Distinct
  <2>3. \A v \in Workspace : \A i \in DOMAIN actor[v] :
          v # w \/ i # k => (Has(members', v, i) <=> Has(members, v, i))
    BY DEF Has
  <2>4. Unset' <=> Unset
    BY DEF Unset, HasAccount
  <2>5. ASSUME NEW v \in Workspace, NEW i \in DOMAIN actor[v]
        PROVE  /\ Has(members', v, i) => actor'[v][i].hasAccount
               /\ actor'[v][i].hasAccount => Has(members', v, i) \/ Unset \/ Namesake(actor'[v], i)
    <3>1. CASE v = w /\ i = k
      BY <1>1, <1>2, <2>2, <3>1
    <3>2. CASE ~(v = w /\ i = k)
      <4>1. actor'[v][i] = actor[v][i]
        BY <1>2, <3>2
      <4> QED
        BY <2>1, <2>3, <3>2, <4>1 DEF DirectoryInv, FlagsSet
    <3> QED
      BY <3>1, <3>2
  <2> QED
    BY <1>3, <2>4, <2>5 DEF FlagsSet
<1>7. BeforeSetup'
  BY DEF DirectoryInv, BeforeSetup, Unset, HasAccount
<1>8. RegisteredOnce' /\ PendingOnce' /\ OwnedOnce' /\ MembersOnce'
  BY DEF DirectoryInv, RegisteredOnce, PendingOnce, Pending, OwnedOnce, MembersOnce
<1>9. \A v : HasOwner(v) => \E o \in members' : o.actor[1] = v /\ o.role = "owner"
  BY DEF HasOwner
<1>10. Owned'
  BY <1>9 DEF DirectoryInv, Owned, HasOwner
<1>11. History'
  BY <1>3 DEF DirectoryInv, History, HasAccount
<1>12. KeptBy(r)
  BY <1>3, <1>9 DEF KeptBy, HasAccount, Pending
<1> QED
  BY <1>4, <1>5, <1>6, <1>7, <1>8, <1>10, <1>11, <1>12 DEF DirectoryInv

\* An invitation is marked as used or expired.
LEMMA InvitationMarked ==
  ASSUME DirectoryTyped, NEW i \in DOMAIN invitation, NEW v \in Invitation,
         v.w = invitation[i].w, v.person = invitation[i].person,
         invitation' = [invitation EXCEPT ![i] = v]
  PROVE  /\ invitation' \in Seq(Invitation) /\ DOMAIN invitation' = DOMAIN invitation
         /\ \A j \in DOMAIN invitation : j # i => invitation'[j] = invitation[j]
         /\ invitation'[i] = v
         /\ \A j \in DOMAIN invitation :
              /\ invitation'[j].w = invitation[j].w
              /\ invitation'[j].person = invitation[j].person
<1>1. invitation \in Seq(Invitation) /\ i \in 1 .. Len(invitation)
  BY Numbers DEF DirectoryTyped
<1>2. invitation' \in Seq(Invitation)
  BY <1>1, ExceptSeq
<1>3. /\ DOMAIN invitation' = DOMAIN invitation /\ invitation'[i] = v
      /\ \A j \in DOMAIN invitation : j # i => invitation'[j] = invitation[j]
  OBVIOUS
<1> QED
  BY <1>2, <1>3

\* An invitation expires.
LEMMA InvitationExpires ==
  ASSUME DirectoryInv, NEW i \in DOMAIN invitation,
         invitation' = [invitation EXCEPT ![i].expired = TRUE],
         UNCHANGED <<open, account, actor, members, before>>, NEW r
  PROVE  /\ DirectoryInv' /\ KeptBy(r)
         /\ \A j \in DOMAIN invitation' : invitation'[j].accepted = invitation[j].accepted
         /\ DOMAIN invitation' = DOMAIN invitation
         /\ \A j \in DOMAIN invitation :
              /\ invitation'[j].w = invitation[j].w
              /\ invitation'[j].person = invitation[j].person
<1>1. PICK v : v = [invitation[i] EXCEPT !.expired = TRUE]
  OBVIOUS
<1>2. invitation[i] \in Invitation
  BY Numbers DEF DirectoryInv, DirectoryTyped
<1>3. /\ v \in Invitation /\ v.w = invitation[i].w /\ v.person = invitation[i].person
      /\ v.accepted = invitation[i].accepted
  BY <1>1, <1>2 DEF Invitation
<1>4. invitation' = [invitation EXCEPT ![i] = v]
  BY <1>1
<1>5. /\ invitation' \in Seq(Invitation) /\ DOMAIN invitation' = DOMAIN invitation
      /\ \A j \in DOMAIN invitation : j # i => invitation'[j] = invitation[j]
      /\ invitation'[i] = v
      /\ \A j \in DOMAIN invitation :
           /\ invitation'[j].w = invitation[j].w
           /\ invitation'[j].person = invitation[j].person
  BY <1>3, <1>4, InvitationMarked DEF DirectoryInv
<1>6. \A j \in DOMAIN invitation : invitation'[j].accepted = invitation[j].accepted
  BY <1>3, <1>5
<1>7. DirectoryTyped' /\ Distinct'
  BY <1>5 DEF DirectoryInv, DirectoryTyped, Distinct
<1>8. FlagsSet'
  BY FlagsStay DEF DirectoryInv
<1>9. BeforeSetup'
  <2>1. CASE Unset
    <3>1. invitation = <<>>
      BY <2>1 DEF DirectoryInv, BeforeSetup
    <3> QED
      BY <3>1
  <2>2. CASE ~Unset
    BY <2>2 DEF BeforeSetup, Unset, HasAccount
  <2> QED
    BY <2>1, <2>2
<1>10. RegisteredOnce' /\ OwnedOnce' /\ MembersOnce' /\ History'
  BY DEF DirectoryInv, RegisteredOnce, OwnedOnce, MembersOnce, History, HasAccount
<1>11. Owned'
  BY <1>5 DEF DirectoryInv, Owned, HasOwner
<1>12. PendingOnce'
  BY <1>5, <1>6 DEF DirectoryInv, PendingOnce, Pending
<1>13. KeptBy(r)
  BY <1>5, <1>6 DEF KeptBy, HasAccount, HasOwner, Pending
<1> QED
  BY <1>5, <1>6, <1>7, <1>8, <1>9, <1>10, <1>11, <1>12, <1>13 DEF DirectoryInv

\* A workspace is founded, and has an owner.
LEMMA WorkspaceFounded ==
  ASSUME DirectoryInv, NEW w \in Workspace, w \notin Existing, actor[w] = <<>>,
         NEW p \in Person, HasAccount(p),
         NEW x \in ActorRecord, x.name = account[p].name, x.hasAccount,
         actor' = [actor EXCEPT ![w] = <<x>>],
         Links({[actor |-> <<w, 1>>, person |-> p, role |-> "owner"]}),
         UNCHANGED <<open, account, invitation>>, NEW r
  PROVE  DirectoryInv' /\ KeptBy(r)
<1>0. /\ DirectoryTyped /\ Distinct /\ ~Unset /\ DOMAIN actor[w] = {} /\ 1 \in Nat \ {0}
      /\ "owner" \in Role
  BY DEF DirectoryInv, Unset, Role
<1>1. PICK l : l = [actor |-> <<w, 1>>, person |-> p, role |-> "owner"]
  OBVIOUS
<1>2. /\ l \in Link /\ l.actor = <<w, 1>> /\ l.actor[1] = w /\ l.actor[2] = 1
      /\ l.person = p /\ l.role = "owner"
  BY <1>0, <1>1, LinkMade
<1>3. /\ members' = members \cup {l} /\ before' \in [Person -> [Workspace -> Nat]]
      /\ before'[p][w] = 1
      /\ \A y \in Person, v \in Workspace : ~(y = p /\ v = w) => before'[y][v] = before[y][v]
  <2>1. {l} \in SUBSET Link /\ Links({l})
    BY <1>1, <1>2
  <2>2. /\ members' = members \cup {l} /\ before' \in [Person -> [Workspace -> Nat]]
        /\ \A m \in {l} : before'[m.person][m.actor[1]] = m.actor[2]
        /\ \A y \in Person, v \in Workspace :
             (\A m \in {l} : ~(m.person = y /\ m.actor[1] = v)) => before'[y][v] = before[y][v]
    BY <1>0, <2>1, LinksMade
  <2> QED
    BY <1>2, <2>2
<1>4. /\ actor' \in [Workspace -> Seq(ActorRecord)] /\ DOMAIN actor'[w] = {1} /\ actor'[w][1] = x
      /\ \A v \in Workspace : v # w => actor'[v] = actor[v]
  <2>1. <<x>> \in Seq(ActorRecord) /\ DOMAIN <<x>> = {1} /\ <<x>>[1] = x
    OBVIOUS
  <2> QED
    BY <1>0, <2>1 DEF DirectoryTyped
<1>5. \A m \in members : m.actor[1] \in Workspace /\ m.actor[1] # w
  BY <1>0, LinkFields DEF DirectoryTyped
<1>6. DirectoryTyped'
  BY <1>0, <1>2, <1>3, <1>4, <1>5 DEF DirectoryTyped
<1>7. Distinct'
  BY <1>0, <1>2, <1>3, <1>4, <1>5 DEF Distinct
<1>8. FlagsSet'
  <2>1. Has(members', w, 1)
    BY <1>2, <1>3 DEF Has
  <2>2. \A v \in Workspace, i \in Nat : v # w => (Has(members', v, i) <=> Has(members, v, i))
    BY <1>2, <1>3 DEF Has
  <2>3. \A v \in Workspace : \A i \in DOMAIN actor[v] : i \in Nat
    BY <1>0, Numbers DEF DirectoryTyped
  <2> QED
    BY <1>0, <1>4, <2>1, <2>2, <2>3 DEF DirectoryInv, FlagsSet
<1>9. BeforeSetup'
  BY <1>0 DEF BeforeSetup, Unset, HasAccount
<1>10. RegisteredOnce' /\ PendingOnce'
  BY DEF DirectoryInv, RegisteredOnce, PendingOnce, Pending
<1>11. OwnedOnce' /\ MembersOnce'
  BY <1>2, <1>3, <1>5 DEF DirectoryInv, OwnedOnce, MembersOnce
<1>12. Owned'
  BY <1>2, <1>3 DEF DirectoryInv, Owned, HasOwner
<1>13. History'
  <2>1. ASSUME NEW y \in Person, NEW v \in Workspace, before'[y][v] # 0
        PROVE  /\ before'[y][v] \in DOMAIN actor'[v] /\ HasAccount(y)
               /\ Fold[actor'[v][before'[y][v]].name] = Fold[account[y].name]
    <3>1. CASE y = p /\ v = w
      BY <1>3, <1>4, <3>1
    <3>2. CASE ~(y = p /\ v = w)
      <4>1. before[y][v] # 0 /\ before'[y][v] = before[y][v]
        BY <1>3, <2>1, <3>2
      <4>2. v # w
        BY <1>0, <4>1 DEF DirectoryInv, History
      <4> QED
        BY <1>4, <4>1, <4>2 DEF DirectoryInv, History
    <3> QED
      BY <3>1, <3>2
  <2> QED
    BY <2>1 DEF History, HasAccount
<1>14. KeptBy(r)
  BY <1>0, <1>2, <1>3, <1>4 DEF KeptBy, HasAccount, HasOwner, Pending
<1> QED
  BY <1>6, <1>7, <1>8, <1>9, <1>10, <1>11, <1>12, <1>13, <1>14 DEF DirectoryInv

\* Somebody without account gets one, of the name that is given.
AccountOf(p, n, by) ==
  \/ HasAccount(p) /\ account[p].name = n /\ account' = account
  \/ ~HasAccount(p) /\ account' = [account EXCEPT ![p] = [name |-> n, by |-> by]]

\* Accounts are not taken away, and keep their names.
LEMMA AccountsStay ==
  ASSUME DirectoryTyped, NEW p \in Person, NEW n \in Name,
         NEW by \in {"registration", "invitation"}, AccountOf(p, n, by)
  PROVE  /\ account' \in [Person -> Account]
         /\ \A x \in Person : HasAccount(x) => account'[x] = account[x] /\ account'[x].by # "nobody"
         /\ account'[p].by # "nobody" /\ account'[p].name = n
         /\ \A x \in Person : account'[x] = account[x] \/ (x = p /\ account'[x].by = by)
<1>1. account \in [Person -> Account]
  BY DEF DirectoryTyped
<1>2. CASE HasAccount(p) /\ account[p].name = n /\ account' = account
  BY <1>1, <1>2 DEF HasAccount
<1>3. CASE ~HasAccount(p) /\ account' = [account EXCEPT ![p] = [name |-> n, by |-> by]]
  <2>1. [name |-> n, by |-> by] \in Account
    BY DEF Account
  <2> QED
    BY <1>1, <1>3, <2>1 DEF HasAccount
<1> QED
  BY <1>2, <1>3 DEF AccountOf

\* What CompleteAccept requires of the actor somebody becomes, and does to it.
Becoming(w, k, n) ==
  /\ actor' \in [Workspace -> Seq(ActorRecord)]
  /\ \A v \in Workspace : v # w => actor'[v] = actor[v]
  /\ DOMAIN actor'[w] = DOMAIN actor[w] \cup {k}
  /\ \A i \in DOMAIN actor[w] :
       /\ actor'[w][i].name = actor[w][i].name
       /\ actor[w][i].hasAccount => actor'[w][i].hasAccount
       /\ actor'[w][i].hasAccount => actor[w][i].hasAccount \/ Fold[actor[w][i].name] = Fold[n]
  /\ actor'[w][k].hasAccount /\ Fold[actor'[w][k].name] = Fold[n]
  /\ k \in DOMAIN actor[w] => ~actor[w][k].hasAccount
  /\ k \notin DOMAIN actor[w] => NameIsFree(w, actor'[w][k].name) /\ Restored(w, n) = {}

\* What CompleteAccept does for r when p joins w as k and bears the name n.
Joins(r, i, w, k, p, n, role) ==
  /\ HasOwner(w) /\ Of(p, w) = {}
  /\ AccountOf(p, n, "invitation") /\ Becoming(w, k, n)
  /\ Links({[actor |-> <<w, k>>, person |-> p, role |-> role]})
  /\ i \in DOMAIN invitation /\ Pending(i)
  /\ invitation[i].w = w /\ invitation[i].person = p
  /\ invitation' = [invitation EXCEPT ![i].accepted = TRUE]
  /\ open' = open
  /\ r.pc = "accepting" /\ r.invitation = i

\* There is one link more, not an owner's.
NewMember(w, k, p) ==
  \E l \in Link : /\ l.actor = <<w, k>> /\ l.person = p /\ l.role # "owner"
                  /\ members' = members \cup {l}

\* Somebody joins, as an actor nobody is.
LEMMA MemberJoined ==
  ASSUME DirectoryInv, NEW w \in Workspace, NEW p \in Person, NEW n \in Name,
         NEW k \in Nat \ {0}, NEW role \in {"admin", "member"}, NEW i, NEW r,
         Joins(r, i, w, k, p, n, role)
  PROVE  /\ DirectoryInv' /\ KeptBy(r)
         /\ NewMember(w, k, p)
         /\ DOMAIN invitation' = DOMAIN invitation
         /\ \A j \in DOMAIN invitation :
              /\ invitation'[j].w = invitation[j].w /\ invitation'[j].person = invitation[j].person
              /\ ~invitation'[j].accepted <=> Pending(j) /\ j # i
<1>b. /\ HasOwner(w) /\ Of(p, w) = {}
      /\ AccountOf(p, n, "invitation") /\ Becoming(w, k, n)
      /\ Links({[actor |-> <<w, k>>, person |-> p, role |-> role]})
      /\ i \in DOMAIN invitation /\ Pending(i)
      /\ invitation[i].w = w /\ invitation[i].person = p
      /\ open' = open
      /\ r.pc = "accepting" /\ r.invitation = i
  BY DEF Joins
<1> USE <1>b
<1>0. DirectoryTyped /\ Distinct /\ ~Unset /\ role \in Role /\ role # "owner"
  BY SetUpBefore DEF DirectoryInv, Role
<1>a. /\ actor' \in [Workspace -> Seq(ActorRecord)]
      /\ \A v \in Workspace : v # w => actor'[v] = actor[v]
      /\ DOMAIN actor'[w] = DOMAIN actor[w] \cup {k}
      /\ \A x \in DOMAIN actor[w] :
           /\ actor'[w][x].name = actor[w][x].name
           /\ actor[w][x].hasAccount => actor'[w][x].hasAccount
           /\ actor'[w][x].hasAccount =>
                actor[w][x].hasAccount \/ Fold[actor[w][x].name] = Fold[n]
      /\ actor'[w][k].hasAccount /\ Fold[actor'[w][k].name] = Fold[n]
      /\ k \in DOMAIN actor[w] => ~actor[w][k].hasAccount
      /\ k \notin DOMAIN actor[w] => NameIsFree(w, actor'[w][k].name) /\ Restored(w, n) = {}
  BY DEF Becoming
<1> USE <1>a
<1>1. /\ account' \in [Person -> Account]
      /\ \A x \in Person : HasAccount(x) => account'[x] = account[x] /\ account'[x].by # "nobody"
      /\ account'[p].by # "nobody" /\ account'[p].name = n
      /\ \A x \in Person : account'[x] = account[x] \/ (x = p /\ account'[x].by = "invitation")
  BY <1>0, AccountsStay
<1>2. PICK l : l = [actor |-> <<w, k>>, person |-> p, role |-> role]
  OBVIOUS
<1>3. /\ l \in Link /\ l.actor = <<w, k>> /\ l.actor[1] = w /\ l.actor[2] = k
      /\ l.person = p /\ l.role # "owner"
  BY <1>0, <1>2, LinkMade
<1>4. /\ members' = members \cup {l} /\ before' \in [Person -> [Workspace -> Nat]]
      /\ before'[p][w] = k
      /\ \A y \in Person, v \in Workspace : ~(y = p /\ v = w) => before'[y][v] = before[y][v]
  <2>1. {l} \in SUBSET Link /\ Links({l})
    BY <1>2, <1>3
  <2>2. /\ members' = members \cup {l} /\ before' \in [Person -> [Workspace -> Nat]]
        /\ \A m \in {l} : before'[m.person][m.actor[1]] = m.actor[2]
        /\ \A y \in Person, v \in Workspace :
             (\A m \in {l} : ~(m.person = y /\ m.actor[1] = v)) => before'[y][v] = before[y][v]
    BY <1>0, <2>1, LinksMade
  <2> QED
    BY <1>3, <2>2
<1>5. /\ invitation' \in Seq(Invitation) /\ DOMAIN invitation' = DOMAIN invitation
      /\ \A j \in DOMAIN invitation :
           /\ invitation'[j].w = invitation[j].w /\ invitation'[j].person = invitation[j].person
           /\ ~invitation'[j].accepted <=> Pending(j) /\ j # i
  <2>1. PICK v : v = [invitation[i] EXCEPT !.accepted = TRUE]
    OBVIOUS
  <2>2. invitation[i] \in Invitation
    BY <1>0, Numbers DEF DirectoryTyped
  <2>3. /\ v \in Invitation /\ v.w = invitation[i].w /\ v.person = invitation[i].person
        /\ v.accepted = TRUE
    BY <2>1, <2>2 DEF Invitation
  <2>4. invitation' = [invitation EXCEPT ![i] = v]
    BY <2>1 DEF Joins
  <2>5. /\ invitation' \in Seq(Invitation) /\ DOMAIN invitation' = DOMAIN invitation
        /\ \A j \in DOMAIN invitation : j # i => invitation'[j] = invitation[j]
        /\ invitation'[i] = v
        /\ \A j \in DOMAIN invitation :
             /\ invitation'[j].w = invitation[j].w
             /\ invitation'[j].person = invitation[j].person
    BY <1>0, <2>3, <2>4, InvitationMarked
  <2> QED
    BY <2>3, <2>5 DEF Pending
<1>6. \A m \in members : /\ m.actor[1] \in Workspace /\ m.actor[2] \in DOMAIN actor[m.actor[1]]
                          /\ m.actor = <<m.actor[1], m.actor[2]>>
  BY <1>0, LinkFields DEF DirectoryTyped
<1>7. ~Has(members, w, k)
  BY <1>6 DEF DirectoryInv, FlagsSet, Has
<1>8. DirectoryTyped'
  <2>1. ASSUME NEW m \in members'
        PROVE  m.actor[2] \in DOMAIN actor'[m.actor[1]]
    <3>1. CASE m = l
      BY <1>3, <3>1
    <3>2. CASE m \in members
      <4>1. CASE m.actor[1] = w
        BY <1>6, <3>2, <4>1
      <4>2. CASE m.actor[1] # w
        BY <1>6, <3>2, <4>2
      <4> QED
        BY <4>1, <4>2
    <3> QED
      BY <1>4, <3>1, <3>2
  <2>2. members' \subseteq Link
    BY <1>0, <1>3, <1>4 DEF DirectoryTyped
  <2> QED
    BY <1>0, <1>1, <1>4, <1>5, <2>1, <2>2 DEF DirectoryTyped
<1>9. Distinct'
  <2>0. \A m \in members : m.actor # l.actor
    BY <1>3, <1>7 DEF Has
  <2>1. \A m1, m2 \in members' : m1.actor = m2.actor => m1 = m2
    BY <1>0, <1>4, <2>0 DEF Distinct
  <2>2. \A v \in Workspace : \A x, y \in DOMAIN actor'[v] :
          actor'[v][x].name = actor'[v][y].name => x = y
    BY <1>0 DEF Distinct, NameIsFree
  <2> QED
    BY <2>1, <2>2 DEF Distinct
<1>10. FlagsSet'
  <2>1. Has(members', w, k)
    BY <1>3, <1>4 DEF Has
  <2>2. ASSUME NEW v \in Workspace, NEW j \in Nat, v # w \/ j # k
        PROVE  Has(members', v, j) <=> Has(members, v, j)
    BY <1>3, <1>4, <2>2 DEF Has
  <2>3. \A v \in Workspace : \A j \in DOMAIN actor[v] : j \in Nat
    BY <1>0, Numbers DEF DirectoryTyped
  <2>4. \A j \in DOMAIN actor[w] : Namesake(actor[w], j) => Namesake(actor'[w], j)
    BY DEF Namesake
  <2>5. \A j \in DOMAIN actor[w] \ {k} :
          Fold[actor[w][j].name] = Fold[n] => Namesake(actor'[w], j)
    BY DEF Namesake
  <2>6. ASSUME NEW j \in DOMAIN actor'[w]
        PROVE  /\ Has(members', w, j) => actor'[w][j].hasAccount
               /\ actor'[w][j].hasAccount => Has(members', w, j) \/ Namesake(actor'[w], j)
    <3>1. CASE j = k
      BY <2>1, <3>1
    <3>2. CASE j # k
      <4>1. j \in DOMAIN actor[w] /\ j \in Nat
        BY <2>3, <3>2
      <4>2. /\ Has(members, w, j) => actor[w][j].hasAccount
            /\ actor[w][j].hasAccount => Has(members, w, j) \/ Namesake(actor[w], j)
        BY <1>0, <4>1 DEF DirectoryInv, FlagsSet
      <4> QED
        BY <2>2, <2>4, <2>5, <3>2, <4>1, <4>2
    <3> QED
      BY <3>1, <3>2
  <2>7. ASSUME NEW v \in Workspace, v # w, NEW j \in DOMAIN actor'[v]
        PROVE  /\ Has(members', v, j) => actor'[v][j].hasAccount
               /\ actor'[v][j].hasAccount => Has(members', v, j) \/ Namesake(actor'[v], j)
    BY <1>0, <2>2, <2>3, <2>7 DEF DirectoryInv, FlagsSet
  <2> QED
    BY <2>6, <2>7 DEF FlagsSet
<1>11. BeforeSetup'
  BY <1>1 DEF BeforeSetup, Unset, HasAccount
<1>12. RegisteredOnce'
  <2>1. \A x \in Person : account'[x].by = "registration" => account[x].by = "registration"
    BY <1>1
  <2> QED
    BY <2>1 DEF DirectoryInv, RegisteredOnce
<1>13. OwnedOnce'
  BY <1>3, <1>4 DEF DirectoryInv, OwnedOnce
<1>14. MembersOnce'
  BY <1>3, <1>4 DEF DirectoryInv, MembersOnce, Of
<1>15. \A v : HasOwner(v) => \E o \in members' : o.actor[1] = v /\ o.role = "owner"
  BY <1>4 DEF HasOwner
<1>16. Owned'
  <2>1. ASSUME NEW m \in members'
        PROVE  \E o \in members' : o.actor[1] = m.actor[1] /\ o.role = "owner"
    <3>1. \E o \in members : o.actor[1] = m.actor[1] /\ o.role = "owner"
      BY <1>3, <1>4 DEF DirectoryInv, Owned, HasOwner
    <3> QED
      BY <1>4, <3>1
  <2>2. ASSUME NEW j \in DOMAIN invitation'
        PROVE  \E o \in members' : o.actor[1] = invitation'[j].w /\ o.role = "owner"
    <3>1. j \in DOMAIN invitation /\ invitation'[j].w = invitation[j].w
      BY <1>5
    <3>2. \E o \in members : o.actor[1] = invitation[j].w /\ o.role = "owner"
      BY <3>1 DEF DirectoryInv, Owned, HasOwner
    <3> QED
      BY <1>4, <3>1, <3>2
  <2> QED
    BY <2>1, <2>2 DEF Owned, HasOwner
<1>17. PendingOnce'
  BY <1>5 DEF DirectoryInv, PendingOnce, Pending
<1>18. History'
  <2>1. ASSUME NEW y \in Person, NEW v \in Workspace, before'[y][v] # 0
        PROVE  /\ before'[y][v] \in DOMAIN actor'[v] /\ account'[y].by # "nobody"
               /\ Fold[actor'[v][before'[y][v]].name] = Fold[account'[y].name]
    <3>1. CASE y = p /\ v = w
      BY <1>1, <1>4, <3>1
    <3>2. CASE ~(y = p /\ v = w)
      <4>1. before[y][v] # 0 /\ before'[y][v] = before[y][v]
        BY <1>4, <2>1, <3>2
      <4>2. /\ before[y][v] \in DOMAIN actor[v] /\ HasAccount(y)
            /\ Fold[actor[v][before[y][v]].name] = Fold[account[y].name]
        BY <4>1 DEF DirectoryInv, History
      <4>3. /\ actor'[v][before[y][v]].name = actor[v][before[y][v]].name
            /\ before[y][v] \in DOMAIN actor'[v]
        <5>1. CASE v = w
          BY <4>2, <5>1
        <5>2. CASE v # w
          BY <4>2, <5>2
        <5> QED
          BY <5>1, <5>2
      <4> QED
        BY <1>1, <4>1, <4>2, <4>3
    <3> QED
      BY <3>1, <3>2
  <2> QED
    BY <2>1 DEF History, HasAccount
<1>19. KeptBy(r)
  <2>1. \A v \in Workspace : DOMAIN actor[v] \subseteq DOMAIN actor'[v]
    OBVIOUS
  <2> QED
    BY <1>0, <1>1, <1>3, <1>4, <1>5, <1>15, <2>1 DEF KeptBy
<1>20. NewMember(w, k, p)
  BY <1>3, <1>4 DEF NewMember
<1> QED
  BY <1>5, <1>8, <1>9, <1>10, <1>11, <1>12, <1>13, <1>14, <1>16, <1>17, <1>18, <1>19, <1>20
     DEF DirectoryInv

\* The actors that are claimed go to p and bear the name n.
Claims(claimed, p, n) ==
  /\ Links({[actor |-> a, person |-> p, role |-> "owner"] : a \in claimed})
  /\ actor' = [w \in Workspace |-> [i \in DOMAIN actor[w] |->
                 IF <<w, i>> \in claimed THEN [actor[w][i] EXCEPT !.name = n]
                                         ELSE actor[w][i]]]

\* The first account takes every workspace that was there.
LEMMA FirstRegistered ==
  ASSUME DirectoryInv, Unset, NEW p \in Person, NEW n \in Name,
         NEW claimed, claimed = {a \in Actors : At(a).hasAccount},
         \A a \in claimed : At(a).name = n \/ NameIsFree(a[1], n),
         account' = [account EXCEPT ![p] = [name |-> n, by |-> "registration"]],
         Claims(claimed, p, n), UNCHANGED <<open, invitation>>, NEW r, r.pc = "counted"
  PROVE  /\ DirectoryInv' /\ KeptBy(r)
         /\ members = {}
         /\ \A m \in members' : m.role = "owner" /\ m.person = p /\ m.actor[1] \in Existing
         /\ \A w \in Existing : \E m \in members' : m.actor[1] = w
<1> DEFINE F(w) == CHOOSE i \in DOMAIN actor[w] : actor[w][i].hasAccount
           L(w) == [actor |-> <<w, F(w)>>, person |-> p, role |-> "owner"]
           ms == {[actor |-> a, person |-> p, role |-> "owner"] : a \in claimed}
<1>0. /\ DirectoryTyped /\ Distinct /\ members = {} /\ invitation = <<>> /\ "owner" \in Role
      /\ \A y \in Person, w \in Workspace : before[y][w] = 0
      /\ Existing \subseteq Workspace
  BY WorkspaceAssumption DEF DirectoryInv, BeforeSetup, Role
<1>1. \A w \in Workspace : \A i \in DOMAIN actor[w] : i \in Nat \ {0} /\ actor[w][i] \in ActorRecord
  BY <1>0, Numbers DEF DirectoryTyped
<1>2. ASSUME NEW w \in Existing
      PROVE  /\ F(w) \in DOMAIN actor[w] /\ F(w) \in Nat \ {0}
             /\ \A j \in DOMAIN actor[w] : actor[w][j].hasAccount <=> j = F(w)
  <2>1. PICK i \in DOMAIN actor[w] : \A j \in DOMAIN actor[w] : actor[w][j].hasAccount <=> i = j
    BY DEF DirectoryInv, BeforeSetup
  <2>2. F(w) = i
    BY <2>1
  <2> QED
    BY <1>0, <1>1, <2>1, <2>2
<1> HIDE DEF F
<1>3. ASSUME NEW w \in Workspace, w \notin Existing
      PROVE  DOMAIN actor[w] = {}
  BY <1>3 DEF DirectoryInv, BeforeSetup
<1>4. \A w \in Workspace : \A i : <<w, i>> \in claimed <=> w \in Existing /\ i = F(w)
  <2>1. ASSUME NEW w \in Workspace, NEW i
        PROVE  <<w, i>> \in claimed <=> i \in DOMAIN actor[w] /\ actor[w][i].hasAccount
    BY DEF Actors, At
  <2> QED
    BY <1>2, <1>3, <2>1
<1>5. \A a \in claimed : a[1] \in Existing /\ a = <<a[1], F(a[1])>>
  <2>1. \A a \in claimed : a[1] \in Workspace /\ a = <<a[1], a[2]>>
    BY DEF Actors
  <2> QED
    BY <1>4, <2>1
<1>6. ASSUME NEW w \in Existing
      PROVE  /\ L(w) \in ms /\ L(w) \in Link /\ L(w).actor = <<w, F(w)>> /\ L(w).actor[1] = w
             /\ L(w).actor[2] = F(w) /\ L(w).person = p /\ L(w).role = "owner"
  <2>1. PICK x : x = L(w)
    OBVIOUS
  <2>2. /\ x \in Link /\ x.actor = <<w, F(w)>> /\ x.actor[1] = w /\ x.actor[2] = F(w)
        /\ x.person = p /\ x.role = "owner"
    BY <1>0, <1>2, <2>1, LinkMade
  <2>3. <<w, F(w)>> \in claimed
    BY <1>0, <1>4
  <2> QED
    BY <2>1, <2>2, <2>3
<1>7. ASSUME NEW m \in ms
      PROVE  /\ m.actor[1] \in Existing /\ m = L(m.actor[1])
             /\ m.person = p /\ m.role = "owner"
  <2>1. PICK w \in Existing : m = L(w)
    BY <1>5
  <2> QED
    BY <1>6, <2>1
<1> HIDE DEF ms, L
<1>8. /\ members' = ms /\ before' \in [Person -> [Workspace -> Nat]]
      /\ \A w \in Existing : before'[p][w] = F(w)
      /\ \A y \in Person, w \in Workspace : y # p \/ w \notin Existing => before'[y][w] = 0
  <2>1. ms \in SUBSET Link /\ Links(ms)
    BY <1>6, <1>7 DEF ms, Claims
  <2>2. \A m1, m2 \in ms : m1.person = m2.person /\ m1.actor[1] = m2.actor[1] => m1 = m2
    BY <1>6, <1>7
  <2>3. /\ members' = members \cup ms /\ before' \in [Person -> [Workspace -> Nat]]
        /\ \A m \in ms : before'[m.person][m.actor[1]] = m.actor[2]
        /\ \A y \in Person, w \in Workspace :
             (\A m \in ms : ~(m.person = y /\ m.actor[1] = w)) => before'[y][w] = before[y][w]
    BY <1>0, <2>1, <2>2, LinksMade
  <2>4. \A w \in Existing : before'[p][w] = F(w)
    BY <1>6, <2>3
  <2>5. ASSUME NEW y \in Person, NEW w \in Workspace, y # p \/ w \notin Existing
        PROVE  before'[y][w] = 0
    <3>1. \A m \in ms : ~(m.person = y /\ m.actor[1] = w)
      BY <1>6, <1>7, <2>5
    <3>2. before'[y][w] = before[y][w]
      BY <2>3, <3>1
    <3> QED
      BY <1>0, <3>2
  <2> QED
    BY <1>0, <2>3, <2>4, <2>5
<1>9. ASSUME NEW w \in Workspace
      PROVE  /\ actor'[w] \in Seq(ActorRecord) /\ DOMAIN actor'[w] = DOMAIN actor[w]
             /\ \A i \in DOMAIN actor[w] :
                  /\ actor'[w][i].hasAccount = actor[w][i].hasAccount
                  /\ w \in Existing /\ i = F(w) => actor'[w][i].name = n
                  /\ ~(w \in Existing /\ i = F(w)) => actor'[w][i] = actor[w][i]
  <2>1. ASSUME NEW x \in ActorRecord
        PROVE  /\ [x EXCEPT !.name = n] \in ActorRecord
               /\ [x EXCEPT !.name = n].name = n
               /\ [x EXCEPT !.name = n].hasAccount = x.hasAccount
    BY DEF ActorRecord
  <2>2. PICK b : b = [i \in DOMAIN actor[w] |->
                        IF <<w, i>> \in claimed THEN [actor[w][i] EXCEPT !.name = n]
                                                ELSE actor[w][i]]
    OBVIOUS
  <2>3. actor'[w] = b
    BY <2>2 DEF Claims
  <2>4. \A i \in DOMAIN actor[w] :
          /\ <<w, i>> \in claimed => b[i] = [actor[w][i] EXCEPT !.name = n]
          /\ <<w, i>> \notin claimed => b[i] = actor[w][i]
    BY <2>2
  <2>5. ASSUME NEW i \in DOMAIN actor[w]
        PROVE  /\ b[i] \in ActorRecord /\ b[i].hasAccount = actor[w][i].hasAccount
               /\ <<w, i>> \in claimed => b[i].name = n
    <3>1. actor[w][i] \in ActorRecord
      BY <1>1
    <3>2. CASE <<w, i>> \in claimed
      <4>1. b[i] = [actor[w][i] EXCEPT !.name = n]
        BY <2>4, <3>2
      <4> QED
        BY <2>1, <3>1, <4>1
    <3>3. CASE <<w, i>> \notin claimed
      BY <2>4, <3>1, <3>3
    <3> QED
      BY <3>2, <3>3
  <2>6. actor[w] \in Seq(ActorRecord) /\ b = [i \in DOMAIN actor[w] |-> b[i]]
    BY <1>0, <2>2 DEF DirectoryTyped
  <2>7. b \in Seq(ActorRecord) /\ DOMAIN b = DOMAIN actor[w]
    BY <2>5, <2>6, Mapped
  <2> QED
    BY <1>4, <2>3, <2>4, <2>5, <2>7
<1>10. actor' \in [Workspace -> Seq(ActorRecord)]
  BY <1>9 DEF Claims
<1>11. /\ account' \in [Person -> Account]
       /\ account'[p].by = "registration" /\ account'[p].name = n
       /\ \A y \in Person : y # p => account'[y].by = "nobody"
  <2>1. [name |-> n, by |-> "registration"] \in Account
    BY DEF Account
  <2> QED
    BY <1>0, <2>1 DEF DirectoryTyped, Unset, HasAccount
<1>12. DirectoryTyped'
  <2>1. ms \subseteq Link /\ \A m \in ms : m.actor[2] \in DOMAIN actor'[m.actor[1]]
    BY <1>0, <1>2, <1>6, <1>7, <1>9
  <2> QED
    BY <1>0, <1>8, <1>10, <1>11, <2>1 DEF DirectoryTyped
<1>13. Distinct'
  <2>1. \A m1, m2 \in ms : m1.actor = m2.actor => m1 = m2
    BY <1>6, <1>7
  <2>2. ASSUME NEW w \in Existing, NEW i \in DOMAIN actor[w], i # F(w)
        PROVE  actor[w][i].name # n
    <3>1. At(<<w, F(w)>>).name = n \/ NameIsFree(w, n)
      BY <1>0, <1>4
    <3> QED
      BY <1>0, <1>2, <2>2, <3>1 DEF NameIsFree, At, Distinct
  <2>3. ASSUME NEW w \in Workspace, NEW i \in DOMAIN actor'[w], NEW j \in DOMAIN actor'[w],
               actor'[w][i].name = actor'[w][j].name
        PROVE  i = j
    <3>1. i \in DOMAIN actor[w] /\ j \in DOMAIN actor[w]
      BY <1>9
    <3>2. CASE w \in Existing /\ i = F(w)
      BY <1>9, <2>2, <2>3, <3>1, <3>2
    <3>3. CASE w \in Existing /\ j = F(w)
      BY <1>9, <2>2, <2>3, <3>1, <3>3
    <3>4. CASE ~(w \in Existing /\ i = F(w)) /\ ~(w \in Existing /\ j = F(w))
      <4>1. actor'[w][i] = actor[w][i] /\ actor'[w][j] = actor[w][j]
        BY <1>9, <3>1, <3>4
      <4> QED
        BY <1>0, <2>3, <3>1, <4>1 DEF Distinct
    <3> QED
      BY <3>2, <3>3, <3>4
  <2> QED
    BY <1>8, <2>1, <2>3 DEF Distinct
<1>14. FlagsSet'
  <2>1. \A w \in Workspace, i \in Nat : Has(ms, w, i) <=> w \in Existing /\ i = F(w)
    <3>1. ASSUME NEW w \in Workspace, NEW i \in Nat, Has(ms, w, i)
          PROVE  w \in Existing /\ i = F(w)
      BY <1>6, <1>7, <3>1 DEF Has
    <3>2. \A w \in Existing : Has(ms, w, F(w))
      BY <1>6 DEF Has
    <3> QED
      BY <3>1, <3>2
  <2>2. ASSUME NEW w \in Workspace, NEW i \in DOMAIN actor'[w]
        PROVE  Has(ms, w, i) <=> actor'[w][i].hasAccount
    BY <1>1, <1>2, <1>3, <1>9, <2>1
  <2> QED
    BY <1>8, <2>2 DEF FlagsSet
<1>15. BeforeSetup'
  BY <1>11 DEF BeforeSetup, Unset, HasAccount
<1>16. RegisteredOnce'
  BY <1>11 DEF RegisteredOnce
<1>17. OwnedOnce' /\ MembersOnce'
  <2>1. \A m1, m2 \in ms : m1.person = m2.person
    BY <1>7
  <2>2. \A m1, m2 \in ms : m1.actor[1] = m2.actor[1] => m1 = m2
    BY <1>7
  <2> QED
    BY <1>8, <2>1, <2>2 DEF OwnedOnce, MembersOnce
<1>18. Owned'
  BY <1>0, <1>6, <1>7, <1>8 DEF Owned, HasOwner
<1>19. PendingOnce'
  BY <1>0 DEF PendingOnce
<1>20. History'
  <2>1. ASSUME NEW y \in Person, NEW w \in Workspace, before'[y][w] # 0
        PROVE  /\ before'[y][w] \in DOMAIN actor'[w] /\ account'[y].by # "nobody"
               /\ Fold[actor'[w][before'[y][w]].name] = Fold[account'[y].name]
    <3>1. y = p /\ w \in Existing
      BY <1>8, <2>1
    <3>2. before'[y][w] = F(w) /\ F(w) \in DOMAIN actor[w]
      BY <1>2, <1>8, <3>1
    <3>3. actor'[w][F(w)].name = n /\ F(w) \in DOMAIN actor'[w]
      BY <1>9, <3>1, <3>2
    <3> QED
      BY <1>11, <3>1, <3>2, <3>3
  <2> QED
    BY <2>1 DEF History, HasAccount
<1>21. KeptBy(r)
  <2>1. \A w \in Workspace : DOMAIN actor[w] \subseteq DOMAIN actor'[w]
    BY <1>9
  <2> QED
    BY <1>0, <1>11, <2>1 DEF KeptBy, HasAccount, HasOwner, Pending, Unset
<1> QED
  BY <1>0, <1>6, <1>7, <1>8, <1>12, <1>13, <1>14, <1>15, <1>16, <1>17, <1>18, <1>19, <1>20, <1>21
     DEF DirectoryInv

\* Somebody registers where others have; nothing is claimed.
LEMMA AnotherRegistered ==
  ASSUME DirectoryInv, ~Unset, open, NEW p \in Person, NEW n \in Name, ~HasAccount(p),
         account' = [account EXCEPT ![p] = [name |-> n, by |-> "registration"]],
         UNCHANGED <<open, actor, members, invitation, before>>, NEW r
  PROVE  DirectoryInv' /\ KeptBy(r)
<1>0. DirectoryTyped
  BY DEF DirectoryInv
<1>1. /\ account' \in [Person -> Account]
      /\ \A x \in Person : HasAccount(x) => account'[x] = account[x] /\ account'[x].by # "nobody"
  BY <1>0, AccountsStay DEF AccountOf
<1>2. DirectoryTyped' /\ Distinct'
  BY <1>0, <1>1 DEF DirectoryInv, DirectoryTyped, Distinct
<1>3. FlagsSet' /\ BeforeSetup'
  <2>1. ~Unset'
    BY <1>1 DEF Unset, HasAccount
  <2> QED
    BY <2>1 DEF DirectoryInv, FlagsSet, BeforeSetup
<1>4. RegisteredOnce' /\ OwnedOnce' /\ MembersOnce'
  BY DEF DirectoryInv, RegisteredOnce, OwnedOnce, MembersOnce
<1>5. Owned' /\ PendingOnce'
  BY DEF DirectoryInv, Owned, HasOwner, PendingOnce, Pending
<1>6. History'
  BY <1>1 DEF DirectoryInv, History, HasAccount
<1>7. KeptBy(r)
  BY <1>1 DEF KeptBy, HasOwner, Pending
<1> QED
  BY <1>2, <1>3, <1>4, <1>5, <1>6, <1>7 DEF DirectoryInv

-----------------------------------------------------------------------------
(* What requests hold while others change the directory.                   *)

\* What a request holds stays true while another one changes the directory.
LEMMA KeepsHolding ==
  ASSUME DirectoryInv, NEW r, KeptBy(r), NEW x, RequestHolds(x),
         x.pc = "counted" => r.pc # "counted",
         x.pc = "accepting" /\ r.pc = "accepting" => x.invitation # r.invitation
  PROVE  RequestHolds(x)'
<1>0. /\ open' = open
      /\ \A p \in Person : HasAccount(p) => account'[p].by # "nobody"
      /\ Unset => r.pc = "counted" \/ account' = account
      /\ \A w \in Workspace : DOMAIN actor[w] \subseteq DOMAIN actor'[w]
  BY DEF KeptBy
<1>1. CASE x = Idle
  BY <1>1 DEF RequestHolds
<1>2. CASE x \in Counted /\ CountedHolds(x)
  <2>1. x.pc = "counted"
    BY <1>2 DEF Counted
  <2>2. Unset => Unset'
    BY <1>0, <2>1 DEF Unset, HasAccount
  <2>3. ~Unset => ~Unset'
    BY <1>0 DEF Unset, HasAccount
  <2> QED
    BY <1>0, <1>2, <2>2, <2>3 DEF RequestHolds, CountedHolds
<1>3. CASE x \in Commanded /\ CommandHolds(x)
  <2> DEFINE c == x.command
  <2>1. c.w \in Workspace
    BY <1>3 DEF Commanded, Command
  <2>2. HasOwner(c.w) /\ ~Unset
    BY <1>3, SetUpBefore DEF CommandHolds
  <2>3. \E o \in members' : o.actor[1] = c.w /\ o.role = "owner"
    BY <2>1, <2>2 DEF KeptBy
  <2>4. c.op \in {"role", "remove"} => c.actor[1] = c.w /\ c.actor[2] \in DOMAIN actor[c.w]
    BY <1>3 DEF CommandHolds
  <2>5. ASSUME c.op = "role", x.pc = "checked", NEW m \in members', m.actor = c.actor,
               m.role = "owner"
        PROVE  FALSE
    <3>1. m \in members \/ m.actor[2] \notin DOMAIN actor[m.actor[1]]
      BY <2>2, <2>5 DEF KeptBy
    <3>2. m \notin members
      BY <1>3, <2>5 DEF CommandHolds
    <3> QED
      BY <2>4, <2>5, <3>1, <3>2
  <2>6. CommandHolds(x)'
    BY <1>0, <2>1, <2>3, <2>4, <2>5 DEF CommandHolds, HasOwner
  <2> QED
    BY <1>3, <2>6 DEF RequestHolds
<1>4. CASE x \in Accepting /\ AcceptHolds(x)
  <2>1. x.pc = "accepting"
    BY <1>4 DEF Accepting
  <2>2. x.invitation \in DOMAIN invitation /\ Pending(x.invitation)
    BY <1>4 DEF AcceptHolds
  <2>3. invitation[x.invitation].person \in Person
    <3>1. invitation[x.invitation] \in Invitation
      BY <2>2, Numbers DEF DirectoryInv, DirectoryTyped
    <3> QED
      BY <3>1 DEF Invitation
  <2>4. /\ x.invitation \in DOMAIN invitation' /\ ~invitation'[x.invitation].accepted
        /\ invitation'[x.invitation].person = invitation[x.invitation].person
    BY <2>1, <2>2 DEF KeptBy
  <2>5. AcceptHolds(x)'
    BY <1>0, <1>4, <2>3, <2>4 DEF AcceptHolds, Pending, HasAccount
  <2> QED
    BY <1>4, <2>5 DEF RequestHolds
<1> QED
  BY <1>1, <1>2, <1>3, <1>4 DEF RequestHolds

\* What a request holds says of what kind it is.
LEMMA RequestKinds ==
  ASSUME NEW x, RequestHolds(x)
  PROVE  /\ x \in {Idle} \cup Counted \cup Commanded \cup Accepting
         /\ x.pc = "counted" => x \in Counted /\ CountedHolds(x)
         /\ x.pc \in {"authorized", "checked"} => x \in Commanded /\ CommandHolds(x)
         /\ x.pc = "accepting" => x \in Accepting /\ AcceptHolds(x)
<1>1. /\ Idle.pc = "idle" /\ \A y \in Counted : y.pc = "counted"
      /\ \A y \in Commanded : y.pc \in {"authorized", "checked"}
      /\ \A y \in Accepting : y.pc = "accepting"
  BY DEF Idle, Counted, Commanded, Accepting
<1> QED
  BY <1>1 DEF RequestHolds

\* One request takes its next step, the others keep what they hold.
LEMMA RequestsKept ==
  ASSUME MembersInv, NEW q \in Request, KeptBy(request[q]),
         NEW v, request' = [request EXCEPT ![q] = v], RequestHolds(v)',
         \A x \in Request \ {q} :
           /\ v.pc = "counted" => request[x].pc # "counted"
           /\ v.pc = "accepting" /\ request[x].pc = "accepting" =>
                v.invitation # request[x].invitation
  PROVE  RequestsInv'
<1> DEFINE Kinds == {Idle} \cup Counted \cup Commanded \cup Accepting
<1>1. request \in [Request -> Kinds] /\ RequestsApart
  BY DEF MembersInv, RequestsInv
<1>2. v \in Kinds
  BY DEF RequestHolds
<1> HIDE DEF Kinds
<1>3. /\ request' \in [Request -> Kinds] /\ request'[q] = v
      /\ \A x \in Request : x # q => request'[x] = request[x]
  BY <1>1, <1>2
<1>4. ASSUME NEW x \in Request
      PROVE  RequestHolds(request[x])'
  <2>1. CASE x = q
    BY <1>3, <2>1
  <2>2. CASE x # q
    <3>1. /\ request[x].pc = "counted" => request[q].pc # "counted"
          /\ request[x].pc = "accepting" /\ request[q].pc = "accepting" =>
               request[x].invitation # request[q].invitation
      BY <1>1, <2>2 DEF RequestsApart
    <3>2. PICK y : y = request[x]
      OBVIOUS
    <3>3. PICK r : r = request[q]
      OBVIOUS
    <3>4. RequestHolds(y) /\ KeptBy(r)
      BY <3>2, <3>3 DEF MembersInv, RequestsInv
    <3>5. RequestHolds(y)'
      BY <3>1, <3>2, <3>3, <3>4, KeepsHolding DEF MembersInv
    <3> QED
      BY <1>3, <2>2, <3>2, <3>5
  <2> QED
    BY <2>1, <2>2
<1>5. RequestsApart'
  BY <1>1, <1>3 DEF RequestsApart
<1> QED
  BY <1>3, <1>4, <1>5 DEF RequestsInv, Kinds

\* A request is answered.
LEMMA Answered ==
  ASSUME MembersInv, NEW q \in Request, KeptBy(request[q]), Answer(q)
  PROVE  RequestsInv'
<1>1. RequestHolds(Idle)'
  BY DEF RequestHolds
<1>2. Idle.pc # "counted" /\ Idle.pc # "accepting"
  BY DEF Idle
<1> QED
  BY <1>1, <1>2, RequestsKept DEF Answer

\* No request takes a step.
LEMMA RequestsStay ==
  ASSUME MembersInv, KeptBy(Idle), request' = request
  PROVE  RequestsInv'
<1>1. ASSUME NEW x \in Request
      PROVE  RequestHolds(request[x])'
  <2>1. PICK y : y = request[x]
    OBVIOUS
  <2>2. RequestHolds(y)
    BY <2>1 DEF MembersInv, RequestsInv
  <2>3. RequestHolds(y)'
    BY <2>2, KeepsHolding DEF MembersInv, Idle
  <2> QED
    BY <2>1, <2>3
<1> QED
  BY <1>1 DEF MembersInv, RequestsInv, RequestsApart

-----------------------------------------------------------------------------
(* What each step leaves, and which step of the roster it is.              *)

Rostered == {<<m.actor[1], m.person>> : m \in members}
Owning == {<<m.actor[1], m.person>> : m \in {x \in members : x.role = "owner"}}
Invited == {<<invitation[i].w, invitation[i].person>> : i \in {j \in DOMAIN invitation : Pending(j)}}
RosterStays == UNCHANGED <<Rostered, Owning, Invited>>
RosterStep == TheRoster!Next \/ RosterStays

\* Who joins is the actor he was, unless the exceptions of SameActorAgain hold.
SameActor ==
  \A m \in members' \ members : \A w \in Workspace :
    LET old == before[m.person][w]
    IN  m.actor[1] = w /\ old # 0 /\ Of(m.person, w) = {} =>
          \/ m.actor[2] = old
          \/ Linked(<<w, old>>)
          \/ \E i \in DOMAIN actor[w] \ {old} :
               Fold[actor[w][i].name] = Fold[actor[w][old].name]

\* Nobody joins.
LEMMA NobodyJoins ==
  ASSUME members' \subseteq members
  PROVE  SameActor
BY DEF SameActor

\* Without a change of the directory the roster stays.
LEMMA RosterKept ==
  ASSUME UNCHANGED directory
  PROVE  RosterStep /\ SameActor
<1>1. RosterStep
  BY DEF RosterStep, RosterStays, Rostered, Owning, Invited, directory, Pending
<1> QED
  BY <1>1, NobodyJoins DEF directory

\* A request that starts changes nothing but what is in progress.
LEMMA Started ==
  ASSUME MembersInv, NEW q \in Request, request[q] = Idle, UNCHANGED <<open, directory>>,
         NEW v, request' = [request EXCEPT ![q] = v], RequestHolds(v)',
         \A x \in Request \ {q} :
           /\ v.pc = "counted" => request[x].pc # "counted"
           /\ v.pc = "accepting" /\ request[x].pc = "accepting" =>
                v.invitation # request[x].invitation
  PROVE  MembersInv' /\ RosterStep /\ SameActor
<1>1. PICK r : r = request[q]
  OBVIOUS
<1>2. DirectoryInv' /\ KeptBy(r)
  BY NothingChanges DEF MembersInv
<1>3. RequestsInv'
  BY <1>1, <1>2, RequestsKept
<1> QED
  BY <1>2, <1>3, RosterKept DEF MembersInv

\* A request that is refused changes nothing.
LEMMA Refused ==
  ASSUME MembersInv, NEW q \in Request, Refuse(q)
  PROVE  MembersInv' /\ RosterStep /\ SameActor
<1>1. PICK r : r = request[q]
  OBVIOUS
<1>2. DirectoryInv' /\ KeptBy(r)
  BY NothingChanges DEF MembersInv, Refuse, Answer, directory
<1>3. RequestsInv'
  BY <1>1, <1>2, Answered DEF Refuse
<1> QED
  BY <1>2, <1>3, RosterKept DEF MembersInv, Refuse

\* registerAccount counts the accounts.
LEMMA RegisterStep ==
  ASSUME MembersInv, NEW q \in Request, Register(q)
  PROVE  MembersInv' /\ RosterStep /\ SameActor
<1>1. PICK p \in Person, n \in Name :
        /\ SetupLock
        /\ Unset \/ open
        /\ Start(q, "register", [pc |-> "counted", person |-> p, name |-> n, first |-> Unset])
        /\ UNCHANGED <<open, directory>>
  BY DEF Register, Unset
<1>2. PICK v : v = [pc |-> "counted", person |-> p, name |-> n, first |-> Unset]
  OBVIOUS
<1>3. v \in Counted /\ v.pc = "counted" /\ (v.first <=> Unset)
  <2>1. Unset \in BOOLEAN
    BY DEF Unset
  <2> QED
    BY <1>2, <2>1 DEF Counted
<1>4. open' = open /\ account' = account
  BY <1>1 DEF directory
<1>5. CountedHolds(v)'
  <2>1. Unset' <=> Unset
    BY <1>4 DEF Unset, HasAccount
  <2> QED
    BY <1>1, <1>3, <1>4, <2>1 DEF CountedHolds
<1>6. request[q] = Idle /\ request' = [request EXCEPT ![q] = v] /\ UNCHANGED <<open, directory>>
  BY <1>1, <1>2 DEF Start
<1>7. RequestHolds(v)'
  BY <1>3, <1>5 DEF RequestHolds
<1>8. v.pc # "accepting" /\ \A x \in Request : request[x].pc # "counted"
  <2>1. \A x \in Request : request[x].pc # "counted"
    BY <1>1 DEF SetupLock
  <2> QED
    BY <1>3, <2>1
<1> QED
  BY <1>6, <1>7, <1>8, Started

\* A command names its workspace, and the actor it is about.
LEMMA CommandFields ==
  ASSUME DirectoryTyped, NEW w \in Workspace, NEW c \in Commands(w)
  PROVE  /\ c \in Command /\ c.w = w
         /\ c.op \in {"role", "remove"} => c.actor[1] = w /\ c.actor[2] \in DOMAIN actor[w]
<1>1. DOMAIN actor[w] \subseteq Nat \ {0}
  BY Numbers DEF DirectoryTyped
<1>2. CASE c \in [op : {"invite"}, w : {w}, person : Person, name : Name, role : {"admin", "member"}]
  BY <1>2 DEF Command
<1>3. CASE c \in [op : {"actor", "service"}, w : {w}, name : Name]
  BY <1>3 DEF Command
<1>4. CASE c \in [op : {"role"}, w : {w}, actor : {w} \X DOMAIN actor[w], role : {"admin", "member"}]
  BY <1>1, <1>4 DEF Command
<1>5. CASE c \in [op : {"remove"}, w : {w}, actor : {w} \X DOMAIN actor[w]]
  BY <1>1, <1>5 DEF Command
<1> QED
  BY <1>2, <1>3, <1>4, <1>5 DEF Commands

\* What a command of each kind brings.
LEMMA CommandKinds ==
  ASSUME NEW c \in Command
  PROVE  /\ c.op \in {"invite", "actor", "service", "role", "remove"} /\ c.w \in Workspace
         /\ c.op = "invite" => c.person \in Person /\ c.name \in Name /\ c.role \in {"admin", "member"}
         /\ c.op \in {"actor", "service"} => c.name \in Name
         /\ c.op \in {"role", "remove"} => c.actor \in Workspace \X (Nat \ {0})
         /\ c.op = "role" => c.role \in {"admin", "member"}
<1>1. CASE c \in [op : {"invite"}, w : Workspace, person : Person, name : Name,
                  role : {"admin", "member"}]
  BY <1>1
<1>2. CASE c \in [op : {"actor", "service"}, w : Workspace, name : Name]
  BY <1>2
<1>3. CASE c \in [op : {"role"}, w : Workspace, actor : Workspace \X (Nat \ {0}),
                  role : {"admin", "member"}]
  BY <1>3
<1>4. CASE c \in [op : {"remove"}, w : Workspace, actor : Workspace \X (Nat \ {0})]
  BY <1>4
<1> QED
  BY <1>1, <1>2, <1>3, <1>4 DEF Command

\* authorizeWorkspaceAdmin lets an administrator of the workspace through.
LEMMA AuthorizeStep ==
  ASSUME MembersInv, NEW q \in Request, Authorize(q)
  PROVE  MembersInv' /\ RosterStep /\ SameActor
<1>0. DirectoryTyped /\ Owned
  BY DEF MembersInv, DirectoryInv
<1>1. PICK w \in Workspace, p \in Person :
        /\ \E m \in Of(p, w) : m.role \in {"owner", "admin"}
        /\ \E c \in Commands(w) :
             Start(q, c.op, [pc |-> "authorized", by |-> p, command |-> c])
        /\ UNCHANGED <<open, directory>>
  BY DEF Authorize
<1>2. PICK c \in Commands(w) : Start(q, c.op, [pc |-> "authorized", by |-> p, command |-> c])
  BY <1>1
<1>3. PICK v : v = [pc |-> "authorized", by |-> p, command |-> c]
  OBVIOUS
<1>4. /\ c \in Command /\ c.w = w
      /\ c.op \in {"role", "remove"} => c.actor[1] = w /\ c.actor[2] \in DOMAIN actor[w]
  BY <1>0, CommandFields
<1>5. v \in Commanded /\ v.pc = "authorized" /\ v.command = c
  BY <1>3, <1>4 DEF Commanded
<1>6. HasOwner(w)
  <2>1. PICK m \in members : m.actor[1] = w
    BY <1>1 DEF Of
  <2>2. HasOwner(m.actor[1])
    BY <1>0 DEF Owned
  <2> QED
    BY <2>1, <2>2
<1>7. actor' = actor /\ members' = members
  BY <1>1 DEF directory
<1>8. CommandHolds(v)'
  <2>1. \E o \in members' : o.actor[1] = w /\ o.role = "owner"
    BY <1>6, <1>7 DEF HasOwner
  <2>2. v.pc # "checked"
    BY <1>5
  <2> QED
    BY <1>4, <1>5, <1>7, <2>1, <2>2 DEF CommandHolds, HasOwner
<1>9. request[q] = Idle /\ request' = [request EXCEPT ![q] = v] /\ UNCHANGED <<open, directory>>
  BY <1>1, <1>2, <1>3 DEF Start
<1>10. RequestHolds(v)'
  BY <1>5, <1>8 DEF RequestHolds
<1>11. v.pc # "accepting" /\ v.pc # "counted"
  BY <1>5
<1> QED
  BY <1>9, <1>10, <1>11, Started

\* The command is checked; nothing is changed yet.
LEMMA CheckStep ==
  ASSUME MembersInv, NEW q \in Request, Check(q)
  PROVE  MembersInv' /\ RosterStep /\ SameActor
<1>1. CASE Refuse(q)
  BY <1>1, Refused
<1>2. CASE ~Refuse(q)
  <2>1. PICK r : r = request[q]
    OBVIOUS
  <2>2. /\ r.pc = "authorized" /\ Acceptable(r.by, r.command)
        /\ request' = [request EXCEPT ![q].pc = "checked"]
        /\ UNCHANGED <<open, directory, left>>
    BY <1>2, <2>1 DEF Check
  <2>3. RequestHolds(r)
    BY <2>1 DEF MembersInv, RequestsInv
  <2>4. r \in Commanded /\ CommandHolds(r)
    BY <2>2, <2>3, RequestKinds
  <2>5. PICK v : v = [r EXCEPT !.pc = "checked"]
    OBVIOUS
  <2>6. v \in Commanded /\ v.pc = "checked" /\ v.command = r.command
    BY <2>4, <2>5 DEF Commanded
  <2>7. actor' = actor /\ members' = members
    BY <2>2 DEF directory
  <2>8. ASSUME r.command.op = "role", NEW m \in members, m.actor = r.command.actor
        PROVE  m.role # "owner"
    <3>1. PICK theirs \in members : theirs.actor = r.command.actor /\ theirs.role # "owner"
      BY <2>2, <2>8 DEF Acceptable, Manages
    <3>2. theirs = m
      BY <2>8, <3>1 DEF MembersInv, DirectoryInv, Distinct
    <3> QED
      BY <3>1, <3>2
  <2>9. CommandHolds(v)'
    BY <2>4, <2>6, <2>7, <2>8 DEF CommandHolds, HasOwner
  <2>11. request' = [request EXCEPT ![q] = v]
    BY <2>1, <2>2, <2>5
  <2>12. RequestHolds(v)'
    BY <2>6, <2>9 DEF RequestHolds
  <2>13. DirectoryInv' /\ KeptBy(r)
    BY <2>2, NothingChanges DEF MembersInv
  <2>14. RequestsInv'
    BY <2>1, <2>6, <2>11, <2>12, <2>13, RequestsKept
  <2> QED
    BY <2>2, <2>13, <2>14, RosterKept DEF MembersInv
<1> QED
  BY <1>1, <1>2

\* A command is carried out by the request that holds it.
LEMMA CommandAt ==
  ASSUME MembersInv, NEW q \in Request, NEW r, r = request[q],
         r.pc \in {"authorized", "checked"}
  PROVE  r \in Commanded /\ CommandHolds(r) /\ r.command \in Command
<1>1. RequestHolds(r)
  BY DEF MembersInv, RequestsInv
<1>2. r \in Commanded /\ CommandHolds(r)
  BY <1>1, RequestKinds
<1> QED
  BY <1>2 DEF Commanded

\* One invitation more is pending.
LEMMA SaveInvitationStep ==
  ASSUME MembersInv, NEW q \in Request, SaveInvitation(q)
  PROVE  MembersInv' /\ RosterStep /\ SameActor
<1>1. CASE Refuse(q)
  BY <1>1, Refused
<1>2. CASE ~Refuse(q)
  <2>1. PICK r : r = request[q]
    OBVIOUS
  <2>2. PICK c : c = r.command
    OBVIOUS
  <2>3. PICK v : v = [w |-> c.w, person |-> c.person, name |-> c.name, role |-> c.role,
                      accepted |-> FALSE, expired |-> FALSE]
    OBVIOUS
  <2>4. /\ r.pc = "checked" /\ c.op = "invite"
        /\ \A i \in DOMAIN invitation :
             ~(Pending(i) /\ invitation[i].w = c.w /\ invitation[i].person = c.person)
        /\ invitation' = Append(invitation, v)
        /\ Answer(q) /\ UNCHANGED <<account, actor, members, before>>
    BY <1>2, <2>1, <2>2, <2>3 DEF SaveInvitation, Checked
  <2>5. r \in Commanded /\ CommandHolds(r) /\ c \in Command
    BY <2>1, <2>2, <2>4, CommandAt
  <2>6. /\ v \in Invitation /\ v.w = c.w /\ v.person = c.person /\ ~v.accepted
        /\ c.w \in Workspace /\ c.person \in Person
    BY <2>3, <2>4, <2>5, CommandKinds DEF Invitation
  <2>7. HasOwner(v.w)
    BY <2>2, <2>5, <2>6 DEF CommandHolds
  <2>8. open' = open
    BY <2>4 DEF Answer
  <2>9. DirectoryInv' /\ KeptBy(r)
    <3>1. \A i \in DOMAIN invitation :
            ~(Pending(i) /\ invitation[i].w = v.w /\ invitation[i].person = v.person)
      BY <2>4, <2>6
    <3> QED
      BY <2>4, <2>6, <2>7, <2>8, <3>1, InvitationSaved DEF MembersInv
  <2>10. RequestsInv'
    BY <2>1, <2>4, <2>9, Answered
  <2>11. Invited' = Invited \cup {<<c.w, c.person>>} /\ <<c.w, c.person>> \notin Invited
    <3>1. /\ DOMAIN invitation' = DOMAIN invitation \cup {Len(invitation) + 1}
          /\ Len(invitation) + 1 \notin DOMAIN invitation
          /\ invitation'[Len(invitation) + 1] = v
          /\ \A i \in DOMAIN invitation : invitation'[i] = invitation[i]
      BY <2>4, <2>6, Appended DEF MembersInv, DirectoryInv, DirectoryTyped
    <3> QED
      BY <2>4, <2>6, <3>1 DEF Invited, Pending
  <2>12. \E x \in Person : <<c.w, x>> \in Owning
    <3>1. PICK o \in members : o.actor[1] = c.w /\ o.role = "owner"
      BY <2>6, <2>7 DEF HasOwner
    <3>2. o.person \in Person
      BY LinkFields DEF MembersInv, DirectoryInv, DirectoryTyped
    <3> QED
      BY <3>1, <3>2 DEF Owning
  <2>13. TheRoster!Invite(c.w, c.person)
    <3>1. Rostered' = Rostered /\ Owning' = Owning
      BY <2>4 DEF Rostered, Owning
    <3> QED
      BY <2>11, <2>12, <3>1 DEF TheRoster!Invite, Rostered, Owning, Invited
  <2>14. TheRoster!Next
    BY <2>6, <2>13 DEF TheRoster!Next
  <2> QED
    BY <2>4, <2>9, <2>10, <2>14, NobodyJoins DEF MembersInv, RosterStep
<1> QED
  BY <1>1, <1>2

\* One actor without account more is in a workspace.
LEMMA AddActorStep ==
  ASSUME MembersInv, NEW q \in Request, request[q].pc \in {"authorized", "checked"},
         request[q].command.op \in {"actor", "service"},
         NEW kind \in {"person", "service"}, AddActor(q, kind)
  PROVE  MembersInv' /\ RosterStep /\ SameActor
<1>1. CASE Refuse(q)
  BY <1>1, Refused
<1>2. CASE ~Refuse(q)
  <2>1. PICK r : r = request[q]
    OBVIOUS
  <2>2. PICK c : c = r.command
    OBVIOUS
  <2>3. PICK x : x = [name |-> c.name, hasAccount |-> FALSE, kind |-> kind]
    OBVIOUS
  <2>4. /\ NameIsFree(c.w, c.name)
        /\ actor' = [actor EXCEPT ![c.w] = Append(@, x)]
        /\ Answer(q) /\ UNCHANGED <<account, members, invitation, before>>
    BY <1>2, <2>1, <2>2, <2>3 DEF AddActor
  <2>5. r \in Commanded /\ CommandHolds(r) /\ c \in Command
    BY <2>1, <2>2, CommandAt
  <2>6. /\ x \in ActorRecord /\ x.name = c.name /\ ~x.hasAccount
        /\ c.w \in Workspace /\ HasOwner(c.w) /\ open' = open
    BY <2>1, <2>2, <2>3, <2>4, <2>5, CommandKinds DEF ActorRecord, CommandHolds, Answer
  <2>7. DirectoryInv' /\ KeptBy(r)
    BY <2>4, <2>6, ActorAdded DEF MembersInv
  <2>8. RequestsInv'
    BY <2>1, <2>4, <2>7, Answered
  <2>9. RosterStep
    BY <2>4 DEF RosterStep, RosterStays, Rostered, Owning, Invited, Pending
  <2> QED
    BY <2>4, <2>7, <2>8, <2>9, NobodyJoins DEF MembersInv
<1> QED
  BY <1>1, <1>2

\* updateMember, and createServiceAccount's and createActor's way to AddActor.
LEMMA ActorSteps ==
  ASSUME MembersInv, NEW q \in Request, CreateActor(q) \/ CreateServiceAccount(q)
  PROVE  MembersInv' /\ RosterStep /\ SameActor
<1>1. CASE CreateActor(q)
  BY <1>1, AddActorStep DEF CreateActor, Authorized
<1>2. CASE CreateServiceAccount(q)
  BY <1>2, AddActorStep DEF CreateServiceAccount, Checked
<1> QED
  BY <1>1, <1>2

\* A member gets another role.
LEMMA ChangeRoleStep ==
  ASSUME MembersInv, NEW q \in Request, ChangeRole(q)
  PROVE  MembersInv' /\ RosterStep /\ SameActor
<1>1. PICK r : r = request[q]
  OBVIOUS
<1>2. PICK c : c = r.command
  OBVIOUS
<1>3. /\ r.pc = "checked" /\ c.op = "role"
      /\ members' = {IF m.actor = c.actor THEN [m EXCEPT !.role = c.role] ELSE m : m \in members}
      /\ Answer(q) /\ UNCHANGED <<account, actor, invitation, before>>
  BY <1>1, <1>2 DEF ChangeRole, Checked
<1>4. r \in Commanded /\ CommandHolds(r) /\ c \in Command
  BY <1>1, <1>2, <1>3, CommandAt
<1>5. c.role \in {"admin", "member"} /\ open' = open
  BY <1>3, <1>4, CommandKinds DEF Answer
<1>6. \A m \in members : m.actor = c.actor => m.role # "owner"
  BY <1>2, <1>3, <1>4 DEF CommandHolds
<1>7. /\ DirectoryInv' /\ KeptBy(r)
      /\ \A m \in members' : \E x \in members : x.actor = m.actor /\ x.person = m.person
      /\ \A m \in members : \E x \in members' : x.actor = m.actor /\ x.person = m.person
      /\ {m \in members' : m.role = "owner"} = {m \in members : m.role = "owner"}
  <2>0. PICK a : a = c.actor
    OBVIOUS
  <2>1. PICK l \in {"admin", "member"} : l = c.role
    BY <1>5
  <2>2. /\ members' = {IF m.actor = a THEN [m EXCEPT !.role = l] ELSE m : m \in members}
        /\ \A m \in members : m.actor = a => m.role # "owner"
        /\ UNCHANGED <<open, account, actor, invitation, before>> /\ DirectoryInv
    BY <1>3, <1>5, <1>6, <2>0, <2>1 DEF MembersInv
  <2> QED
    BY <2>2, RoleChanged
<1>8. RequestsInv'
  BY <1>1, <1>3, <1>7, Answered
<1>9. Rostered' = Rostered
  <2>1. ASSUME NEW m \in members'
        PROVE  <<m.actor[1], m.person>> \in Rostered
    <3>1. PICK x \in members : x.actor = m.actor /\ x.person = m.person
      BY <1>7
    <3> QED
      BY <3>1 DEF Rostered
  <2>2. ASSUME NEW m \in members
        PROVE  \E x \in members' : <<m.actor[1], m.person>> = <<x.actor[1], x.person>>
    <3>1. PICK x \in members' : x.actor = m.actor /\ x.person = m.person
      BY <1>7
    <3> QED
      BY <3>1
  <2> QED
    BY <2>1, <2>2 DEF Rostered
<1>10. Owning' = Owning /\ Invited' = Invited
  BY <1>3, <1>7 DEF Owning, Invited, Pending
<1>11. SameActor
  <2>1. ASSUME NEW m \in members', NEW w \in Workspace, m.actor[1] = w
        PROVE  Of(m.person, w) # {}
    <3>1. PICK x \in members : x.actor = m.actor /\ x.person = m.person
      BY <1>7
    <3> QED
      BY <2>1, <3>1 DEF Of
  <2> QED
    BY <2>1 DEF SameActor
<1> QED
  BY <1>7, <1>8, <1>9, <1>10, <1>11 DEF MembersInv, RosterStep, RosterStays

\* A member leaves.
LEMMA RemoveMemberStep ==
  ASSUME MembersInv, NEW q \in Request, RemoveMember(q)
  PROVE  MembersInv' /\ RosterStep /\ SameActor
<1>1. CASE Refuse(q)
  BY <1>1, Refused
<1>2. CASE ~Refuse(q)
  <2>1. PICK r : r = request[q]
    OBVIOUS
  <2>2. PICK a : a = r.command.actor
    OBVIOUS
  <2>3. PICK gone : gone = {theirs \in members :
                              /\ theirs.actor = a /\ theirs.person # r.by
                              /\ \E mine \in Of(r.by, r.command.w) : Manages(mine, theirs)}
    OBVIOUS
  <2>4. /\ r.pc = "authorized" /\ r.command.op = "remove"
        /\ gone # {} /\ members' = members \ gone
        /\ actor' = [actor EXCEPT ![a[1]][a[2]].hasAccount = FALSE]
        /\ Answer(q) /\ UNCHANGED <<account, invitation, before>>
    BY <1>2, <2>1, <2>2, <2>3 DEF RemoveMember, Authorized
  <2>5. PICK m \in members : m \in gone /\ m.actor = a /\ m.role # "owner"
    BY <2>3, <2>4 DEF Manages
  <2>6. gone = {m}
    BY <2>3, <2>5 DEF MembersInv, DirectoryInv, Distinct
  <2>7. m.actor = <<a[1], a[2]>> /\ m \in Link /\ open' = open
    BY <2>4, <2>5, LinkFields DEF MembersInv, DirectoryInv, DirectoryTyped, Answer
  <2>8. PICK w, k : w = a[1] /\ k = a[2]
    OBVIOUS
  <2>9. DirectoryInv' /\ KeptBy(r)
    <3>1. actor' = [actor EXCEPT ![w] = [actor[w] EXCEPT ![k] =
                      [actor[w][k] EXCEPT !.hasAccount = FALSE]]]
      BY <2>4, <2>8
    <3>2. members' = members \ {m} /\ m.actor = <<w, k>>
      BY <2>4, <2>6, <2>7, <2>8
    <3>3. UNCHANGED <<open, account, invitation, before>> /\ DirectoryInv
      BY <2>4, <2>7 DEF MembersInv
    <3> QED
      BY <2>5, <3>1, <3>2, <3>3, MemberRemoved
  <2>10. RequestsInv'
    BY <2>1, <2>4, <2>9, Answered
  <2>11. PICK v \in Workspace, p \in Person : v = m.actor[1] /\ p = m.person
    BY <2>7, LinkFields
  <2>12. TheRoster!Leave(v, p)
    <3>1. \A x \in members : x.person = p /\ x.actor[1] = v => x = m
      BY <2>11 DEF MembersInv, DirectoryInv, MembersOnce
    <3>2. <<v, p>> \in Rostered \ Owning
      BY <2>5, <2>11, <3>1 DEF Rostered, Owning
    <3>3. Rostered' = Rostered \ {<<v, p>>}
      BY <2>4, <2>6, <2>11, <3>1 DEF Rostered
    <3>4. Owning' = Owning /\ Invited' = Invited
      BY <2>4, <2>5, <2>6 DEF Owning, Invited, Pending
    <3> QED
      BY <3>2, <3>3, <3>4 DEF TheRoster!Leave, Rostered, Owning, Invited
  <2>13. TheRoster!Next
    BY <2>12 DEF TheRoster!Next
  <2> QED
    BY <2>4, <2>9, <2>10, <2>13, NobodyJoins DEF MembersInv, RosterStep
<1> QED
  BY <1>1, <1>2

\* acceptInvitation locks an invitation that is good.
LEMMA AcceptStep ==
  ASSUME MembersInv, NEW q \in Request, Accept(q)
  PROVE  MembersInv' /\ RosterStep /\ SameActor
<1>1. PICK i \in DOMAIN invitation :
        /\ \A x \in Request : request[x].pc = "accepting" => request[x].invitation # i
        /\ Valid(i)
        /\ Start(q, "join", [pc |-> "accepting", invitation |-> i,
                             known |-> HasAccount(invitation[i].person)])
        /\ UNCHANGED <<open, directory>>
  BY DEF Accept
<1>3. PICK v : v = [pc |-> "accepting", invitation |-> i, known |-> HasAccount(invitation[i].person)]
  OBVIOUS
<1>4. HasAccount(invitation[i].person) \in BOOLEAN /\ i \in Nat \ {0}
  BY Numbers DEF HasAccount, MembersInv, DirectoryInv, DirectoryTyped
<1>5. /\ v \in Accepting /\ v.pc = "accepting" /\ v.invitation = i
      /\ v.known = HasAccount(invitation[i].person)
  BY <1>3, <1>4 DEF Accepting
<1>6. invitation' = invitation /\ account' = account
  BY <1>1 DEF directory
<1>7. AcceptHolds(v)'
  BY <1>1, <1>5, <1>6 DEF AcceptHolds, Valid, Pending, HasAccount
<1>8. RequestHolds(v)'
  BY <1>5, <1>7 DEF RequestHolds
<1>9. request[q] = Idle /\ request' = [request EXCEPT ![q] = v] /\ UNCHANGED <<open, directory>>
  BY <1>1, <1>3 DEF Start
<1>10. /\ v.pc # "counted"
       /\ \A x \in Request : request[x].pc = "accepting" => v.invitation # request[x].invitation
  BY <1>1, <1>5
<1> QED
  BY <1>8, <1>9, <1>10, Started

\* Actors without account and of the name are restored.
LEMMA ActorRestored ==
  ASSUME DirectoryTyped, NEW w \in Workspace, NEW n, NEW restored, restored = Restored(w, n),
         NEW k \in restored,
         actor' = [actor EXCEPT ![w] = [j \in DOMAIN @ |->
                     IF j \in restored THEN [@[j] EXCEPT !.hasAccount = TRUE] ELSE @[j]]]
  PROVE  k \in Nat \ {0} /\ Becoming(w, k, n)
<1>0. actor[w] \in Seq(ActorRecord) /\ actor \in [Workspace -> Seq(ActorRecord)]
  BY DEF DirectoryTyped
<1>1. /\ \A j \in DOMAIN actor[w] : j \in Nat \ {0} /\ actor[w][j] \in ActorRecord
      /\ \A j \in restored : /\ j \in DOMAIN actor[w] /\ ~actor[w][j].hasAccount
                             /\ Fold[actor[w][j].name] = Fold[n]
  BY <1>0, Numbers DEF Restored
<1>2. PICK b : b = [j \in DOMAIN actor[w] |->
                      IF j \in restored THEN [actor[w][j] EXCEPT !.hasAccount = TRUE]
                                        ELSE actor[w][j]]
  OBVIOUS
<1>3. actor'[w] = b /\ \A v \in Workspace : v # w => actor'[v] = actor[v]
  BY <1>0, <1>2
<1>4. ASSUME NEW x \in ActorRecord
      PROVE  /\ [x EXCEPT !.hasAccount = TRUE] \in ActorRecord
             /\ [x EXCEPT !.hasAccount = TRUE].name = x.name
             /\ [x EXCEPT !.hasAccount = TRUE].hasAccount = TRUE
  BY DEF ActorRecord
<1>5. ASSUME NEW j \in DOMAIN actor[w]
      PROVE  /\ b[j] \in ActorRecord /\ b[j].name = actor[w][j].name
             /\ j \in restored => b[j].hasAccount
             /\ j \notin restored => b[j] = actor[w][j]
  <2>1. CASE j \in restored
    <3>1. b[j] = [actor[w][j] EXCEPT !.hasAccount = TRUE]
      BY <1>2, <2>1
    <3> QED
      BY <1>1, <1>4, <2>1, <3>1
  <2>2. CASE j \notin restored
    BY <1>1, <1>2, <2>2
  <2> QED
    BY <2>1, <2>2
<1>6. b \in Seq(ActorRecord) /\ DOMAIN b = DOMAIN actor[w]
  <2>1. b = [j \in DOMAIN actor[w] |-> b[j]]
    BY <1>2
  <2> QED
    BY <1>0, <1>5, <2>1, Mapped
<1>8. actor' \in [Workspace -> Seq(ActorRecord)]
  <2>1. actor' = [actor EXCEPT ![w] = b]
    BY <1>2
  <2> QED
    BY <1>0, <1>6, <2>1
<1>9. k \in DOMAIN actor[w] /\ DOMAIN actor'[w] = DOMAIN actor[w] \cup {k}
  BY <1>1, <1>3, <1>6
<1>10. \A i \in DOMAIN actor[w] :
       /\ actor'[w][i].name = actor[w][i].name
       /\ actor[w][i].hasAccount => actor'[w][i].hasAccount
       /\ actor'[w][i].hasAccount => actor[w][i].hasAccount \/ Fold[actor[w][i].name] = Fold[n]
  <2>1. ASSUME NEW i \in DOMAIN actor[w]
        PROVE  /\ b[i].name = actor[w][i].name
               /\ actor[w][i].hasAccount => b[i].hasAccount
               /\ b[i].hasAccount => actor[w][i].hasAccount \/ Fold[actor[w][i].name] = Fold[n]
    BY <1>1, <1>5
  <2> QED
    BY <1>3, <2>1
<1>11. actor'[w][k].hasAccount /\ Fold[actor'[w][k].name] = Fold[n] /\ ~actor[w][k].hasAccount
  <2>1. b[k].hasAccount /\ Fold[b[k].name] = Fold[n]
    BY <1>1, <1>5
  <2> QED
    BY <1>1, <1>3, <2>1
<1> QED
  BY <1>1, <1>3, <1>8, <1>9, <1>10, <1>11 DEF Becoming

\* An actor is added for who joins.
LEMMA ActorCreated ==
  ASSUME DirectoryTyped, NEW w \in Workspace, NEW n \in Name, NameIsFree(w, n),
         Restored(w, n) = {},
         actor' = [actor EXCEPT ![w] = Append(@,
                     [name |-> n, hasAccount |-> TRUE, kind |-> "person"])]
  PROVE  Len(actor[w]) + 1 \in Nat \ {0} /\ Becoming(w, Len(actor[w]) + 1, n)
<1>1. PICK x : x = [name |-> n, hasAccount |-> TRUE, kind |-> "person"]
  OBVIOUS
<1>2. x \in ActorRecord /\ x.name = n /\ x.hasAccount
  BY <1>1 DEF ActorRecord
<1>3. actor' = [actor EXCEPT ![w] = Append(@, x)]
  BY <1>1
<1>4. PICK k : k = Len(actor[w]) + 1
  OBVIOUS
<1>5. /\ actor' \in [Workspace -> Seq(ActorRecord)]
      /\ \A v \in Workspace : v # w => actor'[v] = actor[v]
      /\ DOMAIN actor'[w] = DOMAIN actor[w] \cup {k} /\ k \notin DOMAIN actor[w]
      /\ k \in Nat \ {0} /\ actor'[w][k] = x
      /\ \A i \in DOMAIN actor[w] : actor'[w][i] = actor[w][i]
  BY <1>2, <1>3, <1>4, ActorAppended
<1>6. Becoming(w, k, n)
  BY <1>2, <1>5 DEF Becoming
<1> QED
  BY <1>4, <1>5, <1>6

\* Somebody joins, unless the request is refused.
LEMMA CompleteAcceptStep ==
  ASSUME MembersInv, NEW q \in Request, CompleteAccept(q)
  PROVE  MembersInv' /\ RosterStep /\ SameActor
<1>1. CASE Refuse(q)
  BY <1>1, Refused
<1>2. CASE ~Refuse(q)
  <2>1. PICK r : r = request[q]
    OBVIOUS
  <2>2. PICK i : i = r.invitation
    OBVIOUS
  <2>3. PICK v : v = invitation[i]
    OBVIOUS
  <2>4. PICK n : n = NameOf(r, v)
    OBVIOUS
  <2>5. PICK restored : restored = Restored(v.w, n)
    OBVIOUS
  <2> DEFINE Becomes(j) ==
        /\ Links({[actor |-> <<v.w, j>>, person |-> v.person, role |-> v.role]})
        /\ account' = IF r.known THEN account
                      ELSE [account EXCEPT ![v.person] = [name |-> n, by |-> "invitation"]]
        /\ invitation' = [invitation EXCEPT ![i].accepted = TRUE]
        /\ Answer(q)
  <2>6. /\ r.pc = "accepting"
        /\ ~(~r.known /\ HasAccount(v.person)) /\ ~AlreadyMember(v.person, v.w)
        /\ restored = {} => NameIsFree(v.w, n)
        /\ restored # {} =>
             /\ actor' = [actor EXCEPT ![v.w] = [j \in DOMAIN @ |->
                  IF j \in restored THEN [@[j] EXCEPT !.hasAccount = TRUE] ELSE @[j]]]
             /\ \E j \in restored : Becomes(j)
        /\ restored = {} =>
             /\ actor' = [actor EXCEPT ![v.w] = Append(@,
                  [name |-> n, hasAccount |-> TRUE, kind |-> "person"])]
             /\ Becomes(Len(actor[v.w]) + 1)
    BY <1>2, <2>1, <2>2, <2>3, <2>4, <2>5 DEF CompleteAccept
  <2> HIDE DEF Becomes
  <2>7. DirectoryInv /\ DirectoryTyped /\ Owned
    BY DEF MembersInv, DirectoryInv
  <2>8. r \in Accepting /\ AcceptHolds(r)
    <3>1. RequestHolds(r)
      BY <2>1 DEF MembersInv, RequestsInv
    <3> QED
      BY <2>6, <3>1, RequestKinds
  <2>9. i \in DOMAIN invitation /\ Pending(i) /\ (r.known => HasAccount(v.person))
    BY <2>2, <2>3, <2>8 DEF AcceptHolds
  <2>10. PICK w \in Workspace, p \in Person, role \in {"admin", "member"} :
           /\ w = v.w /\ p = v.person /\ role = v.role
           /\ v.name \in Name
    <3>1. v \in Invitation
      BY <2>3, <2>7, <2>9, Numbers DEF DirectoryTyped
    <3> QED
      BY <3>1 DEF Invitation
  <2>11. n \in Name
    <3>1. account[p] \in Account
      BY <2>7 DEF DirectoryTyped
    <3> QED
      BY <2>4, <2>10, <3>1 DEF NameOf, Account
  <2>12. HasOwner(w)
    <3>1. HasOwner(invitation[i].w)
      BY <2>7, <2>9 DEF Owned
    <3> QED
      BY <2>3, <2>10, <3>1
  <2>13. PICK k \in Nat \ {0} : Becoming(w, k, n) /\ Becomes(k)
    <3>1. CASE restored # {}
      <4>1. PICK k \in restored : Becomes(k)
        BY <2>6, <3>1
      <4>2. k \in Nat \ {0} /\ Becoming(w, k, n)
        BY <2>5, <2>6, <2>7, <2>10, <3>1, ActorRestored
      <4> QED
        BY <4>1, <4>2
    <3>2. CASE restored = {}
      <4>1. Len(actor[w]) + 1 \in Nat \ {0} /\ Becoming(w, Len(actor[w]) + 1, n)
        BY <2>5, <2>6, <2>7, <2>10, <2>11, <3>2, ActorCreated
      <4> QED
        BY <2>6, <2>10, <3>2, <4>1
    <3> QED
      BY <3>1, <3>2
  <2>14. /\ Links({[actor |-> <<w, k>>, person |-> p, role |-> role]})
         /\ account' = IF r.known THEN account
                       ELSE [account EXCEPT ![p] = [name |-> n, by |-> "invitation"]]
         /\ invitation' = [invitation EXCEPT ![i].accepted = TRUE]
         /\ Answer(q) /\ open' = open
    BY <2>10, <2>13 DEF Becomes, Answer
  <2>15. AccountOf(p, n, "invitation")
    <3>1. CASE r.known
      BY <2>4, <2>9, <2>10, <2>14, <3>1 DEF AccountOf, NameOf
    <3>2. CASE ~r.known
      BY <2>6, <2>10, <2>14, <3>2 DEF AccountOf
    <3> QED
      BY <3>1, <3>2
  <2>16. Of(p, w) = {}
    BY <2>6, <2>10 DEF AlreadyMember
  <2>17. /\ DirectoryInv' /\ KeptBy(r)
         /\ NewMember(w, k, p)
         /\ DOMAIN invitation' = DOMAIN invitation
         /\ \A j \in DOMAIN invitation :
              /\ invitation'[j].w = invitation[j].w /\ invitation'[j].person = invitation[j].person
              /\ ~invitation'[j].accepted <=> Pending(j) /\ j # i
    <3>1. invitation[i].w = w /\ invitation[i].person = p
      BY <2>3, <2>10
    <3>3. r.pc = "accepting" /\ r.invitation = i
      BY <2>2, <2>6
    <3>2. invitation' = [invitation EXCEPT ![i].accepted = TRUE]
      BY <2>14
    <3>4. Joins(r, i, w, k, p, n, role)
      BY <2>9, <2>12, <2>13, <2>14, <2>15, <2>16, <3>1, <3>2, <3>3 DEF Joins
    <3> QED
      BY <2>7, <2>11, <3>4, MemberJoined
  <2>18. RequestsInv'
    BY <2>1, <2>14, <2>17, Answered
  <2>19. TheRoster!Join(w, p)
    <3>1. PICK l \in Link : /\ l.actor = <<w, k>> /\ l.person = p /\ l.role # "owner"
                            /\ members' = members \cup {l}
      BY <2>17 DEF NewMember
    <3>2. l.actor[1] = w
      BY <3>1
    <3>3. Rostered' = Rostered \cup {<<w, p>>} /\ <<w, p>> \notin Rostered
      BY <2>16, <3>1, <3>2 DEF Rostered, Of
    <3>4. Owning' = Owning
      BY <3>1 DEF Owning
    <3>5. <<w, p>> \in Invited
      BY <2>3, <2>9, <2>10 DEF Invited
    <3>6. Invited' = Invited \ {<<w, p>>}
      <4>1. ASSUME NEW x
            PROVE  x \in Invited' <=> x \in Invited /\ x # <<w, p>>
        <5>1. ASSUME x \in Invited'
              PROVE  x \in Invited /\ x # <<w, p>>
          <6>1. PICK j \in DOMAIN invitation : /\ ~invitation'[j].accepted
                                              /\ x = <<invitation'[j].w, invitation'[j].person>>
            BY <2>17, <5>1 DEF Invited, Pending
          <6>2. /\ Pending(j) /\ j # i /\ x = <<invitation[j].w, invitation[j].person>>
            BY <2>17, <6>1
          <6>3. ~(invitation[j].w = w /\ invitation[j].person = p)
            BY <2>3, <2>7, <2>9, <2>10, <6>2 DEF DirectoryInv, PendingOnce
          <6> QED
            BY <6>2, <6>3 DEF Invited
        <5>2. ASSUME x \in Invited, x # <<w, p>>
              PROVE  x \in Invited'
          <6>1. PICK j \in DOMAIN invitation : /\ Pending(j)
                                              /\ x = <<invitation[j].w, invitation[j].person>>
            BY <5>2 DEF Invited
          <6>2. j # i
            BY <2>3, <2>10, <5>2, <6>1
          <6>3. /\ ~invitation'[j].accepted /\ j \in DOMAIN invitation'
                /\ x = <<invitation'[j].w, invitation'[j].person>>
            BY <2>17, <6>1, <6>2
          <6> QED
            BY <6>3 DEF Invited, Pending
        <5> QED
          BY <5>1, <5>2
      <4> QED
        BY <4>1
    <3> QED
      BY <3>3, <3>4, <3>5, <3>6 DEF TheRoster!Join, Rostered, Owning, Invited
  <2>20. TheRoster!Next
    BY <2>19 DEF TheRoster!Next
  <2>21. SameActor
    <3>1. PICK l \in Link : /\ l.actor = <<w, k>> /\ l.person = p /\ l.role # "owner"
                            /\ members' = members \cup {l}
      BY <2>17 DEF NewMember
    <3>2. PICK old : old = before[p][w]
      OBVIOUS
    <3>3. ASSUME old # 0, k # old, ~Linked(<<w, old>>)
          PROVE  \E j \in DOMAIN actor[w] \ {old} : Fold[actor[w][j].name] = Fold[actor[w][old].name]
      <4>1. /\ old \in DOMAIN actor[w] /\ HasAccount(p)
            /\ Fold[actor[w][old].name] = Fold[account[p].name]
        BY <2>7, <3>2, <3>3 DEF DirectoryInv, History
      <4>2. Fold[actor[w][old].name] = Fold[n]
        BY <2>15, <4>1 DEF AccountOf
      <4>3. CASE actor[w][old].hasAccount
        <5>1. ~Has(members, w, old) /\ ~Unset
          BY <3>3, <4>1 DEF Has, Linked, Unset
        <5>2. Namesake(actor[w], old)
          BY <2>7, <4>1, <4>3, <5>1 DEF DirectoryInv, FlagsSet
        <5> QED
          BY <5>2 DEF Namesake
      <4>4. CASE ~actor[w][old].hasAccount
        <5>1. Restored(w, n) # {}
          BY <4>1, <4>2, <4>4 DEF Restored
        <5>2. /\ k \notin DOMAIN actor[w] => Restored(w, n) = {}
              /\ \A j \in DOMAIN actor[w] : actor'[w][j].name = actor[w][j].name
              /\ Fold[actor'[w][k].name] = Fold[n]
          BY <2>13 DEF Becoming
        <5>3. k \in DOMAIN actor[w] /\ Fold[actor[w][k].name] = Fold[n]
          BY <5>1, <5>2
        <5> QED
          BY <3>3, <4>2, <5>3
      <4> QED
        BY <4>3, <4>4
    <3>4. \A m \in members' \ members : m = l
      BY <3>1
    <3>5. l.actor[1] = w /\ l.actor[2] = k
      BY <3>1
    <3> QED
      BY <3>1, <3>2, <3>3, <3>4, <3>5 DEF SameActor
  <2> QED
    BY <2>17, <2>18, <2>20, <2>21 DEF MembersInv, RosterStep
<1> QED
  BY <1>1, <1>2

\* Without actors to claim nothing but the account is new.
LEMMA NothingClaimed ==
  ASSUME DirectoryTyped, NEW p, NEW n, Claims({}, p, n)
  PROVE  UNCHANGED <<actor, members, before>>
<1>1. before' = [y \in Person |-> [w \in Workspace |-> before[y][w]]] /\ members' = members
  BY DEF Claims, Links
<1>2. \A y \in Person : before[y] = [w \in Workspace |-> before[y][w]]
  BY DEF DirectoryTyped
<1>3. before = [y \in Person |-> before[y]]
  BY DEF DirectoryTyped
<1>4. before' = before
  BY <1>1, <1>2, <1>3
<1>5. actor' = [w \in Workspace |-> [i \in DOMAIN actor[w] |-> actor[w][i]]]
  BY DEF Claims
<1>6. ASSUME NEW w \in Workspace
      PROVE  actor[w] = [i \in DOMAIN actor[w] |-> actor[w][i]]
  <2>1. actor[w] \in Seq(ActorRecord)
    BY DEF DirectoryTyped
  <2> QED
    BY <2>1, Numbers
<1>7. actor = [w \in Workspace |-> actor[w]]
  BY DEF DirectoryTyped
<1>8. actor' = actor
  BY <1>5, <1>6, <1>7
<1> QED
  BY <1>1, <1>4, <1>8

\* Somebody registers, unless the request is refused; the first takes what was
\* there.
LEMMA CompleteRegisterStep ==
  ASSUME MembersInv, NEW q \in Request, CompleteRegister(q)
  PROVE  MembersInv' /\ RosterStep /\ SameActor
<1>1. CASE Refuse(q)
  BY <1>1, Refused
<1>2. CASE ~Refuse(q)
  <2>1. PICK r : r = request[q]
    OBVIOUS
  <2>2. PICK claimed :
          claimed = IF r.first THEN {a \in Actors : At(a).hasAccount /\ ~Linked(a)} ELSE {}
    OBVIOUS
  <2>3. PICK p, n : p = r.person /\ n = r.name
    OBVIOUS
  <2>4. /\ r.pc = "counted" /\ ~HasAccount(p)
        /\ \A a \in claimed : At(a).name = n \/ NameIsFree(a[1], n)
        /\ account' = [account EXCEPT ![p] = [name |-> n, by |-> "registration"]]
        /\ Claims(claimed, p, n)
        /\ Answer(q) /\ invitation' = invitation
    BY <1>2, <2>1, <2>2, <2>3 DEF CompleteRegister, Claims
  <2>5. r \in Counted /\ CountedHolds(r)
    <3>1. RequestHolds(r)
      BY <2>1 DEF MembersInv, RequestsInv
    <3> QED
      BY <2>4, <3>1, RequestKinds
  <2>6. p \in Person /\ n \in Name
    BY <2>3, <2>5 DEF Counted
  <2>7. DirectoryInv /\ DirectoryTyped /\ open' = open
    BY <2>4 DEF MembersInv, DirectoryInv, Answer
  <2>8. CASE r.first
    <3>1. Unset
      BY <2>5, <2>8 DEF CountedHolds
    <3>2. members = {}
      BY <2>7, <3>1 DEF DirectoryInv, BeforeSetup
    <3>3. claimed = {a \in Actors : At(a).hasAccount}
      BY <2>2, <2>8, <3>2 DEF Linked
    <3>4. UNCHANGED <<open, invitation>>
      BY <2>4, <2>7
    <3>5. /\ DirectoryInv' /\ KeptBy(r)
          /\ \A m \in members' : m.role = "owner" /\ m.person = p /\ m.actor[1] \in Existing
          /\ \A w \in Existing : \E m \in members' : m.actor[1] = w
      BY <2>4, <2>6, <2>7, <3>1, <3>3, <3>4, FirstRegistered
    <3>6. RequestsInv'
      BY <2>1, <2>4, <3>5, Answered
    <3>7. Rostered = {} /\ Owning = {} /\ Invited' = Invited
      BY <2>4, <3>2 DEF Rostered, Owning, Invited, Pending
    <3>8. Rostered' = Existing \X {p} /\ Owning' = Existing \X {p}
      BY <3>5 DEF Rostered, Owning
    <3>9. TheRoster!SetUp(p)
      BY <3>7, <3>8 DEF TheRoster!SetUp, Rostered, Owning, Invited
    <3>10. TheRoster!Next
      BY <2>6, <3>9 DEF TheRoster!Next
    <3>11. SameActor
      <4>1. \A m \in members', w \in Workspace : before[m.person][w] = 0
        BY <2>6, <2>7, <3>1, <3>5 DEF DirectoryInv, BeforeSetup
      <4> QED
        BY <4>1 DEF SameActor
    <3> QED
      BY <3>5, <3>6, <3>10, <3>11 DEF MembersInv, RosterStep
  <2>9. CASE ~r.first
    <3>1. open /\ ~Unset
      BY <2>5, <2>9 DEF CountedHolds
    <3>2. claimed = {}
      BY <2>2, <2>9
    <3>3. UNCHANGED <<actor, members, before>>
      BY <2>4, <2>7, <3>2, NothingClaimed
    <3>4. UNCHANGED <<open, actor, members, invitation, before>>
      BY <2>4, <2>7, <3>3
    <3>5. DirectoryInv' /\ KeptBy(r)
      BY <2>4, <2>6, <2>7, <3>1, <3>4, AnotherRegistered
    <3>6. RequestsInv'
      BY <2>1, <2>4, <3>5, Answered
    <3>7. RosterStep
      BY <3>4 DEF RosterStep, RosterStays, Rostered, Owning, Invited, Pending
    <3> QED
      BY <3>4, <3>5, <3>6, <3>7, NobodyJoins DEF MembersInv
  <2> QED
    BY <2>8, <2>9
<1> QED
  BY <1>1, <1>2

\* A workspace is founded.
LEMMA CreateWorkspaceStep ==
  ASSUME MembersInv, CreateWorkspace
  PROVE  MembersInv' /\ RosterStep /\ SameActor
<1>1. PICK p \in Person, w \in Workspace \ Existing :
        /\ HasAccount(p) /\ actor[w] = <<>>
        /\ actor' = [actor EXCEPT ![w] =
             <<[name |-> account[p].name, hasAccount |-> TRUE, kind |-> "person"]>>]
        /\ Links({[actor |-> <<w, 1>>, person |-> p, role |-> "owner"]})
  BY DEF CreateWorkspace
<1>2. UNCHANGED <<open, account, invitation>> /\ request' = request
  BY DEF CreateWorkspace
<1>3. PICK x : x = [name |-> account[p].name, hasAccount |-> TRUE, kind |-> "person"]
  OBVIOUS
<1>4. x \in ActorRecord /\ x.name = account[p].name /\ x.hasAccount
  <2>1. account[p] \in Account
    BY DEF MembersInv, DirectoryInv, DirectoryTyped
  <2> QED
    BY <1>3, <2>1 DEF ActorRecord, Account
<1>5. actor' = [actor EXCEPT ![w] = <<x>>]
  BY <1>1, <1>3
<1>6. DirectoryInv' /\ KeptBy(Idle)
  BY <1>1, <1>2, <1>4, <1>5, WorkspaceFounded DEF MembersInv
<1>7. RequestsInv'
  BY <1>2, <1>6, RequestsStay
<1>8. PICK l : l = [actor |-> <<w, 1>>, person |-> p, role |-> "owner"]
  OBVIOUS
<1>9. l.actor[1] = w /\ l.person = p /\ l.role = "owner" /\ members' = members \cup {l}
  BY <1>1, <1>8 DEF Links
<1>10. \A m \in members : m.actor[1] # w
  BY <1>1 DEF MembersInv, DirectoryInv, DirectoryTyped
<1>11. TheRoster!Found(w, p)
  <2>1. \A y \in Person : <<w, y>> \notin Rostered
    BY <1>10 DEF Rostered
  <2>2. Rostered' = Rostered \cup {<<w, p>>}
    BY <1>9 DEF Rostered
  <2>3. Owning' = Owning \cup {<<w, p>>}
    BY <1>9 DEF Owning
  <2>4. Invited' = Invited
    BY <1>2 DEF Invited, Pending
  <2> QED
    BY <2>1, <2>2, <2>3, <2>4 DEF TheRoster!Found, Rostered, Owning, Invited
<1>12. TheRoster!Next
  BY <1>11 DEF TheRoster!Next
<1>13. SameActor
  <2>1. before[p][w] = 0
    BY <1>1 DEF MembersInv, DirectoryInv, History
  <2> QED
    BY <1>9, <2>1 DEF SameActor
<1> QED
  BY <1>6, <1>7, <1>12, <1>13 DEF MembersInv, RosterStep

\* An invitation expires.
LEMMA ExpireStep ==
  ASSUME MembersInv, NEW i \in DOMAIN invitation, Expire(i)
  PROVE  MembersInv' /\ RosterStep /\ SameActor
<1>1. /\ invitation' = [invitation EXCEPT ![i].expired = TRUE]
      /\ UNCHANGED <<open, account, actor, members, before>> /\ request' = request
  BY DEF Expire
<1>2. /\ DirectoryInv' /\ KeptBy(Idle)
      /\ \A j \in DOMAIN invitation' : invitation'[j].accepted = invitation[j].accepted
      /\ DOMAIN invitation' = DOMAIN invitation
      /\ \A j \in DOMAIN invitation :
           /\ invitation'[j].w = invitation[j].w
           /\ invitation'[j].person = invitation[j].person
  BY <1>1, InvitationExpires DEF MembersInv
<1>3. RequestsInv'
  BY <1>1, <1>2, RequestsStay
<1>4. Invited' = Invited
  BY <1>2 DEF Invited, Pending
<1>5. RosterStep
  BY <1>1, <1>4 DEF RosterStep, RosterStays, Rostered, Owning
<1> QED
  BY <1>1, <1>2, <1>3, <1>5, NobodyJoins DEF MembersInv

\* Whoever takes it, a step keeps the invariant, the roster takes one of its own
\* or stays, and who comes back is the actor he was.
LEMMA DirectoryStep ==
  ASSUME MembersInv, Next
  PROVE  MembersInv' /\ RosterStep /\ SameActor
<1>1. ASSUME NEW q \in Request, Handler(q)
      PROVE  MembersInv' /\ RosterStep /\ SameActor
  <2>1. CASE Register(q)
    BY <2>1, RegisterStep
  <2>2. CASE CompleteRegister(q)
    BY <2>2, CompleteRegisterStep
  <2>3. CASE Authorize(q)
    BY <2>3, AuthorizeStep
  <2>4. CASE Check(q)
    BY <2>4, CheckStep
  <2>5. CASE SaveInvitation(q)
    BY <2>5, SaveInvitationStep
  <2>6. CASE CreateActor(q) \/ CreateServiceAccount(q)
    BY <2>6, ActorSteps
  <2>7. CASE ChangeRole(q)
    BY <2>7, ChangeRoleStep
  <2>8. CASE RemoveMember(q)
    BY <2>8, RemoveMemberStep
  <2>9. CASE Accept(q)
    BY <2>9, AcceptStep
  <2>10. CASE CompleteAccept(q)
    BY <2>10, CompleteAcceptStep
  <2>11. CASE Abandon(q)
    BY <2>11, Refused DEF Abandon
  <2> QED
    BY <1>1, <2>1, <2>2, <2>3, <2>4, <2>5, <2>6, <2>7, <2>8, <2>9, <2>10, <2>11 DEF Handler
<1>2. CASE CreateWorkspace
  BY <1>2, CreateWorkspaceStep
<1>3. CASE \E i \in DOMAIN invitation : Expire(i)
  BY <1>3, ExpireStep
<1> QED
  BY <1>1, <1>2, <1>3 DEF Next

-----------------------------------------------------------------------------
(* The theorems.                                                           *)

\* What migrations leave satisfies the invariant.
LEMMA DirectoryAtFirst == Init => MembersInv
<1> SUFFICES ASSUME Init PROVE MembersInv
  OBVIOUS
<1>1. PICK b \in Scenarios :
        open = b.open /\ actor = [w \in Workspace |-> IF w \in Existing THEN b.actors ELSE <<>>]
  BY DEF Init
<1>2. /\ b.open \in BOOLEAN /\ b.actors \in Seq(ActorRecord)
      /\ \A i, j \in DOMAIN b.actors : b.actors[i].name = b.actors[j].name => i = j
      /\ \E i \in DOMAIN b.actors : \A j \in DOMAIN b.actors : b.actors[j].hasAccount <=> i = j
  BY ScenarioAssumption DEF ActorRecord
<1>3. /\ account = [p \in Person |-> NoAccount] /\ members = {} /\ invitation = <<>>
      /\ request = [q \in Request |-> Idle]
      /\ before = [p \in Person |-> [w \in Workspace |-> 0]]
  BY DEF Init
<1>4. /\ \A w \in Existing : actor[w] = b.actors
      /\ \A w \in Workspace \ Existing : actor[w] = <<>>
  BY <1>1, WorkspaceAssumption
<1>5. Unset
  BY <1>3 DEF Unset, HasAccount, NoAccount
<1>6. DirectoryTyped
  <2>1. actor \in [Workspace -> Seq(ActorRecord)]
    BY <1>1, <1>2
  <2>2. NoAccount \in Account
    BY NameAssumption DEF NoAccount, Account
  <2> QED
    BY <1>1, <1>2, <1>3, <2>1, <2>2 DEF DirectoryTyped
<1>7. Distinct /\ FlagsSet
  <2>1. \A w \in Workspace : \A i, j \in DOMAIN actor[w] :
          actor[w][i].name = actor[w][j].name => i = j
    BY <1>2, <1>4
  <2>2. \A w, i : ~Has(members, w, i)
    BY <1>3 DEF Has
  <2> QED
    BY <1>3, <1>5, <2>1, <2>2 DEF Distinct, FlagsSet
<1>8. BeforeSetup
  <2>1. ASSUME NEW w \in Existing
        PROVE  \E i \in DOMAIN actor[w] : \A j \in DOMAIN actor[w] : actor[w][j].hasAccount <=> i = j
    <3>1. actor[w] = b.actors
      BY <1>4
    <3> QED
      BY <1>2, <3>1
  <2>2. \A p \in Person, w \in Workspace : before[p][w] = 0
    BY <1>3
  <2> QED
    BY <1>3, <1>4, <2>1, <2>2 DEF BeforeSetup
<1>9. RegisteredOnce /\ OwnedOnce /\ MembersOnce
  BY <1>3 DEF RegisteredOnce, OwnedOnce, MembersOnce, NoAccount
<1>10. Owned /\ PendingOnce /\ History
  BY <1>3 DEF Owned, PendingOnce, History
<1>11. RequestsInv
  <2>1. \A q \in Request : request[q] = Idle
    BY <1>3
  <2>2. request \in [Request -> {Idle} \cup Counted \cup Commanded \cup Accepting]
    BY <1>3
  <2>3. \A q \in Request : RequestHolds(request[q])
    BY <2>1 DEF RequestHolds
  <2>4. RequestsApart
    BY <2>1 DEF RequestsApart, Idle
  <2> QED
    BY <2>2, <2>3, <2>4 DEF RequestsInv
<1> QED
  BY <1>6, <1>7, <1>8, <1>9, <1>10, <1>11 DEF MembersInv, DirectoryInv

\* Between steps nothing happens.
LEMMA DirectoryStutters ==
  ASSUME MembersInv, UNCHANGED vars
  PROVE  MembersInv' /\ RosterStep /\ SameActor
<1>1. UNCHANGED <<open, directory>> /\ request' = request
  BY DEF vars, directory
<1>2. DirectoryInv' /\ KeptBy(Idle)
  BY <1>1, NothingChanges DEF MembersInv
<1>3. RequestsInv'
  BY <1>1, <1>2, RequestsStay
<1> QED
  BY <1>1, <1>2, <1>3, RosterKept DEF MembersInv

\* The inductive invariant holds in all behaviours.
THEOREM MembersInvariant == Spec => []MembersInv
<1>1. MembersInv /\ [Next]_vars => MembersInv'
  BY DirectoryStep, DirectoryStutters
<1> QED
  BY <1>1, DirectoryAtFirst, PTL DEF Spec

\* A set whose elements are all the same has one at most.
LEMMA AtMostOne ==
  ASSUME NEW S, \A x, y \in S : x = y
  PROVE  Cardinality(S) <= 1
<1>1. CASE S = {}
  BY <1>1, FS_EmptySet
<1>2. CASE S # {}
  <2>1. PICK x : S = {x}
    BY <1>2
  <2>2. Cardinality({x}) = 1
    BY FS_Singleton
  <2> QED
    BY <2>1, <2>2
<1> QED
  BY <1>1, <1>2

\* Types, one setup, and the flag beside the link.
THEOREM MembershipInvariant == Spec => []MembershipInv
<1>1. MembersInv => MembershipInv
  <2> SUFFICES ASSUME MembersInv PROVE MembershipInv
    OBVIOUS
  <2>0. DirectoryTyped /\ Distinct /\ RegisteredOnce /\ OwnedOnce /\ FlagsSet
    BY DEF MembersInv, DirectoryInv
  <2>1. TypeOK
    <3>1. \A m \in members : m.actor \in Actors /\ m.person \in Person /\ m.role \in Role
      <4>1. ASSUME NEW m \in members
            PROVE  m.actor \in Actors /\ m.person \in Person /\ m.role \in Role
        <5>1. /\ m.actor[1] \in Workspace /\ m.actor = <<m.actor[1], m.actor[2]>>
              /\ m.person \in Person /\ m.role \in Role /\ m.actor[2] \in DOMAIN actor[m.actor[1]]
          BY <2>0, LinkFields DEF DirectoryTyped
        <5> QED
          BY <5>1 DEF Actors
      <4> QED
        BY <4>1
    <3>2. /\ account \in [Person -> [name : Name, by : {"nobody", "registration", "invitation"}]]
          /\ actor \in [Workspace -> Seq([name : Name, hasAccount : BOOLEAN,
                                          kind : {"person", "service"}])]
      BY <2>0 DEF DirectoryTyped, Account, ActorRecord
    <3> QED
      BY <2>0, <3>1, <3>2 DEF TypeOK, Distinct
  <2>2. OneSetup
    <3>1. ASSUME ~open
          PROVE  Cardinality({p \in Person : account[p].by = "registration"}) <= 1
      BY <2>0, <3>1, AtMostOne DEF RegisteredOnce
    <3> QED
      BY <2>0, <3>1 DEF OneSetup, OwnedOnce
  <2>3. FlagAgrees
    <3>1. ASSUME NEW a \in Actors
          PROVE  /\ Linked(a) => At(a).hasAccount
                 /\ At(a).hasAccount =>
                      \/ Linked(a)
                      \/ \A p \in Person : ~HasAccount(p)
                      \/ \E b \in Actors \ {a} : b[1] = a[1] /\ Fold[At(b).name] = Fold[At(a).name]
      <4>0. PICK w \in Workspace : \E i \in DOMAIN actor[w] : a = <<w, i>>
        BY DEF Actors
      <4>1. PICK i \in DOMAIN actor[w] : a = <<w, i>>
        BY <4>0
      <4>2. At(a) = actor[w][i] /\ (Linked(a) <=> Has(members, w, i))
        BY <4>1 DEF At, Linked, Has
      <4>3. ASSUME Namesake(actor[w], i)
            PROVE  \E b \in Actors \ {a} : b[1] = a[1] /\ Fold[At(b).name] = Fold[At(a).name]
        <5>1. PICK j \in DOMAIN actor[w] \ {i} : Fold[actor[w][j].name] = Fold[actor[w][i].name]
          BY <4>3 DEF Namesake
        <5>2. PICK b : b = <<w, j>>
          OBVIOUS
        <5>3. b \in Actors \ {a} /\ b[1] = a[1] /\ At(b) = actor[w][j]
          BY <4>1, <5>2 DEF Actors, At
        <5> QED
          BY <4>2, <5>1, <5>3
      <4> QED
        BY <2>0, <4>2, <4>3 DEF FlagsSet, Unset
    <3> QED
      BY <3>1 DEF FlagAgrees
  <2> QED
    BY <2>1, <2>2, <2>3 DEF MembershipInv
<1> QED
  BY <1>1, MembersInvariant, PTL

\* No account is two actors of one workspace.
THEOREM OneActor == Spec => []OneActorEach
<1>1. MembersInv => OneActorEach
  <2>1. ASSUME MembersInv, NEW p \in Person, NEW w \in Workspace
        PROVE  Cardinality(Of(p, w)) <= 1
    <3>1. \A x, y \in Of(p, w) : x = y
      BY <2>1 DEF MembersInv, DirectoryInv, MembersOnce, Of
    <3> QED
      BY <3>1, AtMostOne
  <2> QED
    BY <2>1 DEF OneActorEach
<1> QED
  BY <1>1, MembersInvariant, PTL

\* Who comes back is the actor he was.
THEOREM ComesBack == Spec => SameActorAgain
<1>1. MembersInv /\ [Next]_vars => [SameActor]_vars
  BY DirectoryStep
<1>2. Spec => [][SameActor]_vars
  BY <1>1, MembersInvariant, PTL DEF Spec
<1> QED
  BY <1>2 DEF SameActorAgain, SameActor

\* Accounts, actors, invitations and requests implement the roster.
THEOREM RosterImplemented == Spec => ImplementsRoster
<1>1. Init => TheRoster!Init
  BY DEF Init, TheRoster!Init
<1>2. MembersInv /\ [Next]_vars => [TheRoster!Next]_(TheRoster!vars)
  <2>1. MembersInv /\ [Next]_vars => RosterStep
    BY DirectoryStep, DirectoryStutters
  <2> QED
    BY <2>1 DEF RosterStep, RosterStays, TheRoster!vars, Rostered, Owning, Invited
<1> QED
  BY <1>1, <1>2, MembersInvariant, PTL DEF Spec, ImplementsRoster, TheRoster!Spec

=============================================================================

----------------------------- MODULE Membership -----------------------------
(***************************************************************************)
(* Accounts, actors and what links them (internal/httpapi: auth.go,        *)
(* invitations.go, directory.go, service_accounts.go; createWorkspace).    *)
(*                                                                         *)
(* An account is a person's and one for all workspaces.  An actor belongs  *)
(* to a workspace, bears a name and outlives the membership that links an  *)
(* account to it; whoever is invited under the name of an actor without    *)
(* account becomes that actor.  Handlers check in one statement and change *)
(* in another, most of them outside a transaction.                         *)
(***************************************************************************)
EXTENDS Integers, Sequences, FiniteSets

CONSTANTS Person, Name,
          Fold,        \* lower(name)
          OwnerName,   \* the actor of a workspace from before authentication
          Workspace, Existing,
          Request,     \* requests in progress at once
          Scenarios    \* registration mode, actors of the existing workspaces,
                       \* how many requests of each kind there are

ASSUME NameAssumption == Fold \in [Name -> Name] /\ OwnerName \in Name
ASSUME WorkspaceAssumption == Existing \subseteq Workspace
\* Migration 2 gives each existing workspace one actor with has_account.
ASSUME ScenarioAssumption ==
  \A b \in Scenarios :
    /\ b.open \in BOOLEAN
    /\ b.actors \in Seq([name : Name, hasAccount : BOOLEAN, kind : {"person", "service"}])
    /\ \A i, j \in DOMAIN b.actors : b.actors[i].name = b.actors[j].name => i = j
    /\ \E i \in DOMAIN b.actors : \A j \in DOMAIN b.actors : b.actors[j].hasAccount <=> i = j

VARIABLES open,        \* WORK_GRAPH_REGISTRATION_MODE is "open"
          account,     \* accounts: the name of each and how it came about
          actor,       \* actors of each workspace
          members,     \* account_actors
          invitation,  \* workspace_invitations in the order of creation
          request,     \* what each request in progress has read
          before,      \* the last actor a person was in a workspace (history)
          left

vars == <<open, account, actor, members, invitation, request, before, left>>
directory == <<account, actor, members, invitation, before>>

Role == {"owner", "admin", "member"}
Idle == [pc |-> "idle"]
NoAccount == [name |-> OwnerName, by |-> "nobody"]

HasAccount(p) == account[p].by # "nobody"
Of(p, w) == {m \in members : m.person = p /\ m.actor[1] = w}
Actors == UNION {{w} \X DOMAIN actor[w] : w \in Workspace}
At(a) == actor[a[1]][a[2]]
Linked(a) == \E m \in members : m.actor = a

NameIsFree(w, n) == \A i \in DOMAIN actor[w] : actor[w][i].name # n
Pending(i) == ~invitation[i].accepted

Start(q, kind, r) ==
  /\ request[q] = Idle /\ left[kind] > 0
  /\ left' = [left EXCEPT ![kind] = @ - 1]
  /\ request' = [request EXCEPT ![q] = r]

Answer(q) == request' = [request EXCEPT ![q] = Idle] /\ UNCHANGED <<open, left>>
Refuse(q) == Answer(q) /\ UNCHANGED directory

Links(ms) ==
  /\ members' = members \cup ms
  /\ before' = [p \in Person |-> [w \in Workspace |->
       IF \E m \in ms : m.person = p /\ m.actor[1] = w
         THEN (CHOOSE m \in ms : m.person = p /\ m.actor[1] = w).actor[2]
         ELSE before[p][w]]]
-----------------------------------------------------------------------------
(* registerAccount and createWorkspace. *)

\* Seeded fault: the setup is not locked.
NoLock == TRUE

SetupLock == \A q \in Request : request[q].pc # "counted"

Register(q) ==
  \E p \in Person, n \in Name :
    LET first == \A x \in Person : ~HasAccount(x)
    IN  /\ SetupLock
        /\ first \/ open
        /\ Start(q, "register", [pc |-> "counted", person |-> p, name |-> n, first |-> first])
        /\ UNCHANGED <<open, directory>>

\* The first account takes the actors from before and gives them its name, which
\* has to be free in each of their workspaces.
CompleteRegister(q) ==
  LET r == request[q]
      claimed == IF r.first THEN {a \in Actors : At(a).hasAccount /\ ~Linked(a)} ELSE {}
  IN  /\ r.pc = "counted"
      /\ IF HasAccount(r.person) \/ \E a \in claimed :
               At(a).name # r.name /\ ~NameIsFree(a[1], r.name)
           THEN Refuse(q)
           ELSE /\ account' = [account EXCEPT ![r.person] =
                                 [name |-> r.name, by |-> "registration"]]
                /\ Links({[actor |-> a, person |-> r.person, role |-> "owner"] : a \in claimed})
                /\ actor' = [w \in Workspace |-> [i \in DOMAIN actor[w] |->
                     IF <<w, i>> \in claimed THEN [actor[w][i] EXCEPT !.name = r.name]
                                             ELSE actor[w][i]]]
                /\ Answer(q)
                /\ UNCHANGED invitation

CreateWorkspace ==
  /\ left.found > 0 /\ left' = [left EXCEPT !.found = @ - 1]
  /\ \E p \in Person, w \in Workspace \ Existing :
       /\ HasAccount(p) /\ actor[w] = <<>>
       /\ actor' = [actor EXCEPT ![w] =
            <<[name |-> account[p].name, hasAccount |-> TRUE, kind |-> "person"]>>]
       /\ Links({[actor |-> <<w, 1>>, person |-> p, role |-> "owner"]})
  /\ UNCHANGED <<open, account, invitation, request>>
-----------------------------------------------------------------------------
(* What administrators do: authorizeWorkspaceAdmin, a check, a change.      *)

Commands(w) ==
  [op : {"invite"}, w : {w}, person : Person, name : Name, role : {"admin", "member"}]
  \cup [op : {"actor", "service"}, w : {w}, name : Name]
  \cup [op : {"role"}, w : {w}, actor : {w} \X DOMAIN actor[w], role : {"admin", "member"}]
  \cup [op : {"remove"}, w : {w}, actor : {w} \X DOMAIN actor[w]]

Authorize(q) ==
  \E w \in Workspace, p \in Person :
    /\ \E m \in Of(p, w) : m.role \in {"owner", "admin"}
    /\ \E c \in Commands(w) :
         Start(q, c.op, [pc |-> "authorized", by |-> p, command |-> c])
    /\ UNCHANGED <<open, directory>>

Manages(mine, theirs) ==
  theirs.role # "owner" /\ (theirs.role = "admin" => mine.role = "owner")

Acceptable(p, c) ==
  CASE c.op = "invite"  -> Of(c.person, c.w) = {}
    [] c.op = "service" -> \A i \in DOMAIN actor[c.w] :
                             actor[c.w][i].kind = "service" =>
                               Fold[actor[c.w][i].name] # Fold[c.name]
    [] c.op = "role"    -> \E mine \in Of(p, c.w), theirs \in members :
                             /\ theirs.actor = c.actor /\ Manages(mine, theirs)
                             /\ c.role = "admin" => mine.role = "owner"

Check(q) ==
  LET r == request[q]
  IN  /\ r.pc = "authorized" /\ r.command.op \in {"invite", "service", "role"}
      /\ IF Acceptable(r.by, r.command)
           THEN /\ request' = [request EXCEPT ![q].pc = "checked"]
                /\ UNCHANGED <<open, directory, left>>
           ELSE Refuse(q)

Checked(q, op) == request[q].pc = "checked" /\ request[q].command.op = op
Authorized(q, op) == request[q].pc = "authorized" /\ request[q].command.op = op

\* One invitation may be pending for each e-mail and workspace, expired or not.
SaveInvitation(q) ==
  LET c == request[q].command
  IN  /\ Checked(q, "invite")
      /\ IF \E i \in DOMAIN invitation :
              Pending(i) /\ invitation[i].w = c.w /\ invitation[i].person = c.person
           THEN Refuse(q)
           ELSE /\ invitation' = Append(invitation,
                     [w |-> c.w, person |-> c.person, name |-> c.name, role |-> c.role,
                      accepted |-> FALSE, expired |-> FALSE])
                /\ Answer(q)
                /\ UNCHANGED <<account, actor, members, before>>

AddActor(q, kind) ==
  LET c == request[q].command
  IN  IF NameIsFree(c.w, c.name)
        THEN /\ actor' = [actor EXCEPT ![c.w] =
                  Append(@, [name |-> c.name, hasAccount |-> FALSE, kind |-> kind])]
             /\ Answer(q)
             /\ UNCHANGED <<account, members, invitation, before>>
        ELSE Refuse(q)

CreateActor(q) == Authorized(q, "actor") /\ AddActor(q, "person")
CreateServiceAccount(q) == Checked(q, "service") /\ AddActor(q, "service")

\* The membership that is there now gets the role, if one is.
ChangeRole(q) ==
  LET c == request[q].command
  IN  /\ Checked(q, "role")
      /\ members' = {IF m.actor = c.actor THEN [m EXCEPT !.role = c.role] ELSE m : m \in members}
      /\ Answer(q)
      /\ UNCHANGED <<account, actor, invitation, before>>

RemoveMember(q) ==
  LET r == request[q]
      a == r.command.actor
      gone == {theirs \in members :
                 /\ theirs.actor = a /\ theirs.person # r.by
                 /\ \E mine \in Of(r.by, r.command.w) : Manages(mine, theirs)}
  IN  /\ Authorized(q, "remove")
      /\ IF gone = {} THEN Refuse(q)
         ELSE /\ members' = members \ gone
              /\ actor' = [actor EXCEPT ![a[1]][a[2]].hasAccount = FALSE]
              /\ Answer(q)
              /\ UNCHANGED <<account, invitation, before>>
-----------------------------------------------------------------------------
(* acceptInvitation. *)

\* Seeded fault: a link that was used is good for another time.
UsedOrNot(i) == ~invitation[i].expired

Valid(i) == Pending(i) /\ ~invitation[i].expired

\* The row of the invitation is locked from here to the end of the request.
Accept(q) ==
  \E i \in DOMAIN invitation :
    /\ \A x \in Request : request[x].pc = "accepting" => request[x].invitation # i
    /\ Valid(i)
    /\ Start(q, "join", [pc |-> "accepting", invitation |-> i,
                         known |-> HasAccount(invitation[i].person)])
    /\ UNCHANGED <<open, directory>>

\* Seeded fault: nobody asks whether the account belongs to the workspace.
AnyAccount(p, w) == FALSE

\* Seeded fault: the name in the invitation counts.
InvitedName(r, v) == v.name

AlreadyMember(p, w) == Of(p, w) # {}

\* Actors of that name without account; there are several when their names
\* differ in case only.
Restored(w, n) ==
  {i \in DOMAIN actor[w] : ~actor[w][i].hasAccount /\ Fold[actor[w][i].name] = Fold[n]}

\* An account keeps the name it has.
NameOf(r, v) == IF r.known THEN account[v.person].name ELSE v.name

\* The account, unless it was there; the actor that is restored or created; the
\* membership; the invitation.
CompleteAccept(q) ==
  LET r == request[q]
      i == r.invitation
      v == invitation[i]
      n == NameOf(r, v)
      restored == Restored(v.w, n)
      Becomes(j) ==
        /\ Links({[actor |-> <<v.w, j>>, person |-> v.person, role |-> v.role]})
        /\ account' = IF r.known THEN account
                      ELSE [account EXCEPT ![v.person] = [name |-> n, by |-> "invitation"]]
        /\ invitation' = [invitation EXCEPT ![i].accepted = TRUE]
        /\ Answer(q)
  IN  /\ r.pc = "accepting"
      /\ IF \/ ~r.known /\ HasAccount(v.person)
            \/ AlreadyMember(v.person, v.w)
            \/ restored = {} /\ ~NameIsFree(v.w, n)
           THEN Refuse(q)
           ELSE IF restored # {}
           THEN /\ actor' = [actor EXCEPT ![v.w] = [j \in DOMAIN @ |->
                     IF j \in restored THEN [@[j] EXCEPT !.hasAccount = TRUE] ELSE @[j]]]
                /\ \E j \in restored : Becomes(j)
           ELSE /\ actor' = [actor EXCEPT ![v.w] = Append(@,
                     [name |-> n, hasAccount |-> TRUE, kind |-> "person"])]
                /\ Becomes(Len(actor[v.w]) + 1)

Expire(i) ==
  /\ ~invitation[i].expired /\ Pending(i)
  /\ left.expire > 0 /\ left' = [left EXCEPT !.expire = @ - 1]
  /\ invitation' = [invitation EXCEPT ![i].expired = TRUE]
  /\ UNCHANGED <<open, account, actor, members, request, before>>

\* The caller is gone or a statement fails; an open transaction is rolled back.
Abandon(q) == request[q] # Idle /\ Refuse(q)
-----------------------------------------------------------------------------
Init ==
  /\ \E b \in Scenarios :
       /\ open = b.open
       /\ actor = [w \in Workspace |-> IF w \in Existing THEN b.actors ELSE <<>>]
       /\ left = b.left
  /\ account = [p \in Person |-> NoAccount]
  /\ members = {}
  /\ invitation = <<>>
  /\ request = [q \in Request |-> Idle]
  /\ before = [p \in Person |-> [w \in Workspace |-> 0]]

Handler(q) ==
  \/ Register(q) \/ CompleteRegister(q)
  \/ Authorize(q) \/ Check(q)
  \/ SaveInvitation(q) \/ CreateActor(q) \/ CreateServiceAccount(q)
  \/ ChangeRole(q) \/ RemoveMember(q)
  \/ Accept(q) \/ CompleteAccept(q)
  \/ Abandon(q)

Next ==
  \/ \E q \in Request : Handler(q)
  \/ CreateWorkspace
  \/ \E i \in DOMAIN invitation : Expire(i)

Spec == Init /\ [][Next]_vars
-----------------------------------------------------------------------------
TypeOK ==
  /\ account \in [Person -> [name : Name, by : {"nobody", "registration", "invitation"}]]
  /\ actor \in [Workspace -> Seq([name : Name, hasAccount : BOOLEAN,
                                  kind : {"person", "service"}])]
  /\ \A m \in members : m.actor \in Actors /\ m.person \in Person /\ m.role \in Role
  /\ \A m1, m2 \in members : m1.actor = m2.actor => m1 = m2
  /\ \A w \in Workspace : \A i, j \in DOMAIN actor[w] :
       actor[w][i].name = actor[w][j].name => i = j

\* currentActorID reads the one actor a caller has in a workspace: no account has
\* two there, although invitations are checked, saved and accepted by requests
\* that overlap, and no constraint of the database says so.
OneActorEach == \A p \in Person, w \in Workspace : Cardinality(Of(p, w)) <= 1

\* auth.go:103: "The first account claims workspaces that existed before": while
\* registration is closed nobody but the first registers, and nobody else owns
\* what was there.
OneSetup ==
  /\ ~open => Cardinality({p \in Person : account[p].by = "registration"}) <= 1
  /\ \A m1, m2 \in members :
       /\ m1.role = "owner" /\ m1.actor[1] \in Existing
       /\ m2.role = "owner" /\ m2.actor[1] \in Existing
       => m1.person = m2.person

\* has_account repeats in the actor what account_actors says, before and after
\* joining, leaving and coming back; an acceptance that finds two actors whose
\* names differ in case only marks both and links one.
FlagAgrees ==
  \A a \in Actors :
    /\ Linked(a) => At(a).hasAccount
    /\ At(a).hasAccount =>
         \/ Linked(a)
         \/ \A p \in Person : ~HasAccount(p)
         \/ \E b \in Actors \ {a} : b[1] = a[1] /\ Fold[At(b).name] = Fold[At(a).name]

\* Types, the one setup, and the flag beside the link.
MembershipInv == TypeOK /\ OneSetup /\ FlagAgrees

\* directory.go:180 retains the actor of a former member: who comes back is the
\* actor he was, with the work it requested, unless somebody else has become it
\* meanwhile or the workspace has another one of his name in other case.
SameActorAgain ==
  [][\A m \in members' \ members : \A w \in Workspace :
       LET old == before[m.person][w]
       IN  m.actor[1] = w /\ old # 0 /\ Of(m.person, w) = {} =>
             \/ m.actor[2] = old
             \/ Linked(<<w, old>>)
             \/ \E i \in DOMAIN actor[w] \ {old} :
                  Fold[actor[w][i].name] = Fold[actor[w][old].name]]_vars

TheRoster == INSTANCE Roster WITH
  roster <- {<<m.actor[1], m.person>> : m \in members},
  owners <- {<<m.actor[1], m.person>> : m \in {x \in members : x.role = "owner"}},
  invited <- {<<invitation[i].w, invitation[i].person>> :
                i \in {j \in DOMAIN invitation : Pending(j)}}

\* Whatever the requests read and when they change it: joining takes an
\* invitation that was not used, and owners stay.
ImplementsRoster == TheRoster!Spec
=============================================================================

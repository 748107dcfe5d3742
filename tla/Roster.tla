------------------------------- MODULE Roster -------------------------------
(***************************************************************************)
(* What the directory promises about who belongs to a workspace, with no   *)
(* actors, accounts or requests: one joins with an invitation, which is    *)
(* used up, and whoever founded a workspace stays.                         *)
(***************************************************************************)
CONSTANTS Person, Workspace,
          Existing   \* workspaces from the time before there were accounts

VARIABLES
  roster,    \* who belongs to which workspace: pairs of workspace and person
  owners,    \* those of them who own it
  invited    \* invitations that have not been used, also expired ones

vars == <<roster, owners, invited>>

Init == roster = {} /\ owners = {} /\ invited = {}

\* The first person takes the workspaces that are there.
SetUp(p) ==
  /\ roster = {} /\ owners = {}
  /\ roster' = Existing \X {p} /\ owners' = Existing \X {p}
  /\ UNCHANGED invited

Found(w, p) ==
  /\ w \notin Existing /\ \A x \in Person : <<w, x>> \notin roster
  /\ roster' = roster \cup {<<w, p>>} /\ owners' = owners \cup {<<w, p>>}
  /\ UNCHANGED invited

Invite(w, p) ==
  /\ <<w, p>> \notin invited /\ \E x \in Person : <<w, x>> \in owners
  /\ invited' = invited \cup {<<w, p>>}
  /\ UNCHANGED <<roster, owners>>

Join(w, p) ==
  /\ <<w, p>> \in invited /\ <<w, p>> \notin roster
  /\ roster' = roster \cup {<<w, p>>}
  /\ invited' = invited \ {<<w, p>>}
  /\ UNCHANGED owners

Leave(w, p) ==
  /\ <<w, p>> \in roster \ owners
  /\ roster' = roster \ {<<w, p>>}
  /\ UNCHANGED <<owners, invited>>

Next ==
  \E p \in Person :
    \/ SetUp(p)
    \/ \E w \in Workspace : Found(w, p) \/ Invite(w, p) \/ Join(w, p) \/ Leave(w, p)

Spec == Init /\ [][Next]_vars
=============================================================================

--------------------------- MODULE IdempotentCreate ---------------------------
(***************************************************************************)
(* What the server promises to a service account that creates nodes under  *)
(* idempotency keys: every request is answered as if it were executed in   *)
(* one step, and a key takes effect once, for the content it was first     *)
(* used with.  A node is named by the request that created it.             *)
(***************************************************************************)
CONSTANTS Requests, Keys, Contents, Nothing

VARIABLES
  command,  \* the key and content of a request, Nothing before it is sent
  effect,   \* for each key the content and the node, or Nothing
  answer    \* what the account was told, "none" before it was told anything

vars == <<command, effect, answer>>

Init ==
  /\ command = [r \in Requests |-> Nothing]
  /\ effect = [k \in Keys |-> Nothing]
  /\ answer = [r \in Requests |-> "none"]

Send(r, k, c) ==
  /\ command[r] = Nothing
  /\ command' = [command EXCEPT ![r] = [key |-> k, content |-> c]]
  /\ UNCHANGED <<effect, answer>>

Open(r) == command[r] # Nothing /\ answer[r] = "none"

\* The answer may be lost, the effect may not.
Create(r) ==
  /\ Open(r)
  /\ effect[command[r].key] = Nothing
  /\ effect' = [effect EXCEPT ![command[r].key] = [content |-> command[r].content, node |-> r]]
  /\ \E a \in {"created", "lost"} : answer' = [answer EXCEPT ![r] = a]
  /\ UNCHANGED command

\* A used key is answered from its effect, whatever changed in between.
Repeat(r) ==
  /\ Open(r)
  /\ effect[command[r].key] # Nothing
  /\ answer' = [answer EXCEPT ![r] =
       IF effect[command[r].key].content = command[r].content THEN "replayed" ELSE "reused"]
  /\ UNCHANGED <<command, effect>>

\* Only a command that has not taken effect is refused for its revision or
\* for its parent.
Refuse(r) ==
  /\ Open(r)
  /\ effect[command[r].key] = Nothing
  /\ \E a \in {"stale", "notFound"} : answer' = [answer EXCEPT ![r] = a]
  /\ UNCHANGED <<command, effect>>

\* A request that fails tells the account nothing.
Fail(r) ==
  /\ Open(r)
  /\ answer' = [answer EXCEPT ![r] = "failed"]
  /\ UNCHANGED <<command, effect>>

Next ==
  \/ \E r \in Requests, k \in Keys, c \in Contents : Send(r, k, c)
  \/ \E r \in Requests : Create(r) \/ Repeat(r) \/ Refuse(r) \/ Fail(r)

Spec == Init /\ [][Next]_vars
=============================================================================

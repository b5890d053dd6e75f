--------------------------- MODULE DecisionRegister ---------------------------
(***************************************************************************)
(* What the backend promises about an access request, whatever the         *)
(* interleaving of its handlers: a request is opened once, closed at most  *)
(* once, and the server that asked is told only about a closed request,    *)
(* and only what it was closed with.                                       *)
(***************************************************************************)
CONSTANT Reqs

VARIABLES
  decision,  \* "absent", "pending", or how the request was closed
  told       \* "none", or the verdict the server was given

ByRule  == {"blocked_ip", "blocked_geo", "whitelisted", "notified"}
ByAdmin == {"approved", "denied"}
Closed  == ByRule \cup ByAdmin \cup {"timeout"}

\* The outcomes that let a user in; every other one keeps the user out.
Granting == {"approved", "whitelisted", "notified"}

Init ==
  /\ decision = [r \in Reqs |-> "absent"]
  /\ told = [r \in Reqs |-> "none"]

\* A request arrives; a rule may close it on the spot.
Open(r) ==
  /\ decision[r] = "absent"
  /\ \E d \in ByRule \cup {"pending"} : decision' = [decision EXCEPT ![r] = d]
  /\ UNCHANGED told

\* An admin, or the passing of time, closes it.
Close(r) ==
  /\ decision[r] = "pending"
  /\ \E d \in ByAdmin \cup {"timeout"} : decision' = [decision EXCEPT ![r] = d]
  /\ UNCHANGED told

\* The server is told the outcome.
Tell(r) ==
  /\ decision[r] \in Closed
  /\ told[r] = "none"
  /\ told' = [told EXCEPT ![r] = IF decision[r] \in Granting THEN "approve" ELSE "deny"]
  /\ UNCHANGED decision

Next == \E r \in Reqs : Open(r) \/ Close(r) \/ Tell(r)

vars == <<decision, told>>

Spec == Init /\ [][Next]_vars
===============================================================================

---------------------------- MODULE ReloadService ----------------------------
(***************************************************************************)
(* What the proxy promises about NGINX reloads, with no queues, no manager *)
(* process and no failures in sight.  A request stands for one change to   *)
(* the proxy's configuration directory; the service makes changes live and *)
(* answers requests, and it never answers Success for a change that NGINX  *)
(* has not loaded.                                                         *)
(***************************************************************************)
CONSTANT Requests

VARIABLES
    applied,   \* changes present in the configuration directory
    live,      \* changes NGINX serves
    answer     \* what a reader of the status key of a request sees

serviceVars == <<applied, live, answer>>

Answers == {"None", "Queued", "Success", "Failure"}

ServiceInit ==
    /\ applied = {}
    /\ live = {}
    /\ answer = [r \in Requests |-> "None"]

Apply(r) ==
    /\ r \notin applied
    /\ applied' = applied \cup {r}
    /\ UNCHANGED <<live, answer>>

\* The request has been accepted; the acknowledgement may arrive late.
Acknowledge(r) ==
    /\ r \in applied
    /\ answer' = [answer EXCEPT ![r] = "Queued"]
    /\ UNCHANGED <<applied, live>>

\* NGINX starts to serve a later state of the configuration directory.
Load(S) ==
    /\ live \subseteq S
    /\ S \subseteq applied
    /\ live' = S
    /\ UNCHANGED <<applied, answer>>

Answer(r, outcome) ==
    /\ r \in applied
    /\ outcome = "Success" => r \in live
    /\ answer' = [answer EXCEPT ![r] = outcome]
    /\ UNCHANGED <<applied, live>>

ServiceNext ==
    \/ \E r \in Requests :
          \/ Apply(r)
          \/ Acknowledge(r)
          \/ \E outcome \in {"Success", "Failure"} : Answer(r, outcome)
    \/ \E S \in SUBSET Requests : Load(S)

ServiceSpec == ServiceInit /\ [][ServiceNext]_serviceVars
=============================================================================

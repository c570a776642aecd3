--------------------------- MODULE MCSessionFiles ---------------------------
(***************************************************************************)
(* The deletion of a session, and the templates that its connections copy  *)
(* and its prompts read: one run checks both.  A behaviour is one of the   *)
(* deletion, with failures and one message or with two messages and one    *)
(* request that no store fails, or one of two connections and a prompt     *)
(* while templates are edited, refreshed and deleted, or one of three      *)
(* prompts, the first of them after a connection is established.           *)
(***************************************************************************)
EXTENDS MCSessionDeletion, SessionPrompts

CONSTANTS k1, k2, p1, p2, p3

TwoConnections == {k1, k2}
ThreePrompts == {p1, p2, p3}

VARIABLE part   \* the part that moves

\* One prompt, as far as its templates matter, and two changes at most.
Copies ==
    /\ \A p \in {p2, p3} : turn'[p] = turn[p]
    /\ turn'[p1] \notin {"tools", "answered"}
    /\ version' + refreshes' + deletions' <= 2

\* The templates are there and, from the first prompt on, in the cache.
Talk ==
    /\ <<version, refreshes, deletions>>' = <<version, refreshes, deletions>>
    /\ visit'[k2] = visit[k2]
    /\ turn'[p1] # turn[p1] => ready
    /\ \A p \in {p2, p3} : turn'[p] # turn[p] => turn[p1] \notin {"none", "row", "show", "build"}

\* One request, and every store answers it.
Smooth == answer'[r2] = "none" /\ failures' = 0

EitherNext ==
    \/ part = "deletion" /\ Next /\ pc'[m2] = "idle" /\ UNCHANGED <<part, promptVars>>
    \/ part = "pair" /\ Next /\ Smooth /\ UNCHANGED <<part, promptVars>>
    \/ part = "copies" /\ PromptsNext /\ Copies /\ UNCHANGED <<part, vars>>
    \/ part = "talk" /\ PromptsNext /\ Talk /\ UNCHANGED <<part, vars>>

EitherInit == Init /\ PromptsInit /\ part \in {"deletion", "pair", "copies", "talk"}

EitherSpec ==
    /\ EitherInit
    /\ [][EitherNext]_<<part, vars, promptVars>>
    /\ Fairness
=============================================================================

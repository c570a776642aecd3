---------------------------- MODULE MCMcpClient ----------------------------
(***************************************************************************)
(* Instances of McpClient and of McpServers.  They share no state: one run *)
(* checks both, each behaviour is one of the client or one of the manager. *)
(***************************************************************************)
EXTENDS McpClient, McpServers

CONSTANTS c1, c2, c3

TwoCallers == {c1, c2}
ThreeCallers == {c1, c2, c3}

VARIABLE part   \* the part that moves

AllOff == [n \in McpNames |-> [enabled |-> FALSE, sort |-> "http"]]

EitherInit ==
    /\ part \in {"client", "manager"}
    /\ Init /\ (part = "manager" => transport = "http" /\ op = [c \in Callers |-> "call"])
    /\ ServersInit /\ (part = "client" => config = AllOff)

EitherNext ==
    \/ part = "client" /\ Next /\ UNCHANGED <<part, serverVars>>
    \/ part = "manager" /\ ServersNext /\ UNCHANGED <<part, vars>>

EitherSpec ==
    /\ EitherInit
    /\ [][EitherNext]_<<part, vars, serverVars>>
    /\ ClientFairness /\ WF_vars(Server)
=============================================================================

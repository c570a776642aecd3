--------------------------- MODULE SessionManager ---------------------------
(***************************************************************************)
(* The SessionManager class (session.manager.ts): which connected clients  *)
(* are in which session, in three maps that its methods keep in step.  A   *)
(* manager is a record, the operators are its methods.                     *)
(*                                                                         *)
(*   open     keys of the map sessions                                     *)
(*   members  sessions.get(s).clients, empty where s is no key             *)
(*   clients  keys of the map clients                                      *)
(*   of       clientSessionMap, NoSession where the client is no key       *)
(***************************************************************************)
CONSTANTS Sessions, Clients, NoSession

Managers ==
    [open : SUBSET Sessions, members : [Sessions -> SUBSET Clients],
     clients : SUBSET Clients, of : [Clients -> Sessions \union {NoSession}]]

NewManager ==
    [open |-> {}, members |-> [s \in Sessions |-> {}],
     clients |-> {}, of |-> [c \in Clients |-> NoSession]]

AddClient(m, s, c) ==
    [m EXCEPT !.open = @ \union {s}, !.members[s] = @ \union {c},
              !.clients = @ \union {c}, !.of[c] = s]

\* An empty session is deleted from the map with its last client.
RemoveClient(m, c) ==
    LET s == m.of[c]
    IN  IF s = NoSession THEN m
        ELSE [m EXCEPT !.open = IF m.members[s] \subseteq {c} THEN @ \ {s} ELSE @,
                       !.members[s] = @ \ {c}, !.clients = @ \ {c},
                       !.of[c] = NoSession]

GetSessionClients(m, s) == IF s \in m.open THEN m.members[s] \intersect m.clients ELSE {}

\* removeClient of each client of out, all of them clients of s, in any order.
RemoveClients(m, s, out) ==
    [m EXCEPT !.open = IF m.members[s] \subseteq out THEN @ \ {s} ELSE @,
              !.members[s] = @ \ out, !.clients = @ \ out,
              !.of = [c \in Clients |-> IF c \in out THEN NoSession ELSE @[c]]]
=============================================================================

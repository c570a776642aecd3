---------------------------- MODULE ClientSession ----------------------------
(***************************************************************************)
(* A page of the Vue client and the gateway it talks to: the chat store    *)
(* (Frontend/src/stores/chat.ts) with its one socket, the links that its   *)
(* sockets make, and the gateway's handleConnection and handleDisconnect   *)
(* with the SessionManager.  The page enters a session (the first of the   *)
(* session list, or a new one when the 6 s timer fires first), switches    *)
(* between sessions, loses its network and is reloaded; sessions are       *)
(* deleted, which disconnects their clients.                               *)
(*                                                                         *)
(* A link is a socket of the page: io() makes one, socket.io keeps it      *)
(* connected, each time with a new client on the server.  Between a client *)
(* and its page are the events in flight, which arrive in order or, when   *)
(* the wire is cut, not at all.                                            *)
(***************************************************************************)
EXTENDS Integers, Sequences

CONSTANTS
    Sessions,    \* session ids: those in lists and those randomUUID returns
    NoSession,   \* ''
    Lists,       \* session lists a backend sends on a connection
    Silent,      \* ... or this, when it sends none
    MaxLinks,    \* bound: sockets the page makes
    MaxClients,  \* bound: connections the server accepts
    MaxFaults,   \* bound: cut wires, refused connections, reloads, deletions
    MaxItems     \* bound: messages and replies

ASSUME ClientSessionAssumption ==
    /\ NoSession \notin Sessions
    /\ Lists \subseteq Seq(Sessions)
    /\ Silent \notin Lists
    /\ MaxLinks \in Nat /\ MaxClients \in Nat /\ MaxFaults \in Nat /\ MaxItems \in Nat

Links == 1 .. MaxLinks
Clients == 1 .. MaxClients
Items == 1 .. MaxItems

VARIABLES
    page,      \* the store and its sockets
    client,    \* client[c]: the c-th connection the server accepted
    peer,      \* peer[i]: the client that link i is connected with, or 0
    inbox,     \* inbox[c]: events on their way to the page of c
    manager,   \* the SessionManager
    said,      \* said[k]: the k-th message or reply, and its session
    faults,    \* how many faults there were
    panelled   \* history: the debug panel has been used to connect

vars == <<page, client, peer, inbox, manager, said, faults, panelled>>

M == INSTANCE SessionManager

Event == [type : {"connect", "bye"}]
         \union [type : {"list"}, list : Lists]
         \union [type : {"received", "stream"}, item : Items]
         \union [type : {"end"}, item : Items, blank : BOOLEAN]

NoDraft == [text |-> <<>>, finalized |-> FALSE]
NoLink == [session |-> NoSession, state |-> "unused", heard |-> FALSE]

NewPage ==
    [session |-> NoSession, status |-> "disconnected", messages |-> {},
     draft |-> NoDraft, entered |-> FALSE, entering |-> FALSE,
     pending |-> NoSession, listLoaded |-> FALSE, resolved |-> FALSE,
     timer |-> FALSE, history |-> <<>>, socket |-> 0, made |-> 0,
     link |-> [i \in Links |-> NoLink]]

\* A link is waiting between two attempts, kicked when the server has closed
\* it (socket.io makes no attempt then) and closed when the page has.
TypeOK ==
    /\ page \in [session : Sessions \union {NoSession},
                 status : {"disconnected", "connecting", "connected", "reconnecting", "error"},
                 messages : SUBSET Items,
                 draft : [text : Seq(Items), finalized : BOOLEAN],
                 entered : BOOLEAN, entering : BOOLEAN,
                 pending : Sessions \union {NoSession},
                 listLoaded : BOOLEAN, resolved : BOOLEAN, timer : BOOLEAN,
                 history : Lists \union {<<>>}, socket : 0 .. MaxLinks, made : 0 .. MaxLinks,
                 link : [Links -> [session : Sessions \union {NoSession},
                                   state : {"unused", "opening", "open", "waiting", "kicked", "closed"},
                                   heard : BOOLEAN]]]
    /\ client \in [Clients -> [link : 0 .. MaxLinks, session : Sessions \union {NoSession},
                               stage : {"unused", "live", "gone"},
                               preparing : BOOLEAN, cut : BOOLEAN]]
    /\ peer \in [Links -> 0 .. MaxClients]
    /\ inbox \in [Clients -> Seq(Event)]
    /\ manager \in M!Managers
    /\ said \in Seq([session : Sessions, state : {"sent", "streaming", "done"}])
    /\ faults \in 0 .. MaxFaults
    /\ panelled \in BOOLEAN

Init ==
    /\ page = NewPage
    /\ client = [c \in Clients |-> [link |-> 0, session |-> NoSession, stage |-> "unused",
                                    preparing |-> FALSE, cut |-> FALSE]]
    /\ peer = [i \in Links |-> 0]
    /\ inbox = [c \in Clients |-> <<>>]
    /\ manager = M!NewManager
    /\ said = <<>>
    /\ faults = 0
    /\ panelled = FALSE

(***************************************************************************)
(* The store's functions, as operators on the page.                        *)
(***************************************************************************)
IsOpen(p) == p.socket # 0 /\ p.link[p.socket].state = "open"

\* Mutant: the old socket keeps its listeners and its connection.
CloseSocketNot(p) == [p EXCEPT !.socket = 0]

\* removeAllListeners, disconnect, socketRef = null.
CloseSocket(p) ==
    IF p.socket = 0 THEN p
    ELSE [p EXCEPT !.link[p.socket] = [@ EXCEPT !.state = "closed", !.heard = FALSE],
                   !.socket = 0]

\* io() and registerSocketEvents.  The session of the query is the link's for
\* good, reconnections included.
OpenSocket(p) ==
    LET i == p.made + 1
    IN  [p EXCEPT !.made = i, !.socket = i, !.status = "connecting",
                  !.link = [j \in Links |->
                              IF j = i THEN [session |-> p.session, state |-> "opening", heard |-> TRUE]
                              ELSE @[j]]]

Connect(p, forceReconnect) ==
    IF p.session = NoSession THEN [p EXCEPT !.status = "disconnected"]
    ELSE IF IsOpen(p) /\ ~forceReconnect THEN p
    ELSE OpenSocket(CloseSocket(p))

Disconnect(p) ==
    LET q == [p EXCEPT !.timer = FALSE, !.entering = FALSE]
    IN  IF q.socket = 0 THEN q
        ELSE [CloseSocket(q) EXCEPT !.status = "disconnected", !.draft = NoDraft]

\* Mutant: what is shown stays when the session changes.
ChangeSessionOnly(p, s) ==
    IF p.session = s THEN p ELSE Connect([p EXCEPT !.session = s], TRUE)

ChangeSession(p, s) ==
    IF p.session = s THEN p
    ELSE Connect([p EXCEPT !.session = s, !.messages = {}, !.draft = NoDraft], TRUE)

FinalizeEnterChatMode(p, s) ==
    [ChangeSession([p EXCEPT !.timer = FALSE, !.resolved = TRUE, !.pending = NoSession], s)
        EXCEPT !.entered = TRUE, !.entering = FALSE]

\* Mutant: any list that comes decides.
ResolveAlways(p) ==
    IF p.history # <<>> THEN FinalizeEnterChatMode(p, Head(p.history)) ELSE p

\* While the page is entering and nothing is resolved, pending is the id that
\* enterChatMode made, so the ids it falls back on are never needed.
ResolveInitialSessionOnEnter(p) ==
    IF ~p.entering \/ p.resolved THEN p
    ELSE IF p.history # <<>> THEN FinalizeEnterChatMode(p, Head(p.history))
    ELSE IF p.listLoaded THEN FinalizeEnterChatMode(p, p.pending)
    ELSE p

\* The page's sockets are numbered and there are at most MaxLinks.  What was
\* on its way to a socket that the page closes is lost.
Becomes(p, box) ==
    /\ p.made <= MaxLinks
    /\ page' = p
    /\ inbox' = [c \in Clients |->
                    IF client[c].link # 0 /\ p.link[client[c].link].state = "closed"
                    THEN <<>> ELSE box[c]]

(***************************************************************************)
(* What the user and the page's timer do.                                  *)
(***************************************************************************)
\* Mutant: the entry timer is not started.
EnterUntimed(s) ==
    /\ ~page.entered /\ ~page.entering
    /\ Becomes(ResolveInitialSessionOnEnter(Connect(
          [page EXCEPT !.pending = s, !.entering = TRUE, !.listLoaded = FALSE,
                       !.resolved = FALSE, !.session = s, !.messages = {},
                       !.draft = NoDraft], TRUE)), inbox)
    /\ UNCHANGED <<client, peer, manager, said, faults, panelled>>

\* s is what randomUUID returns.
EnterChatMode(s) ==
    /\ ~page.entered /\ ~page.entering
    /\ LET p == Connect([page EXCEPT !.pending = s, !.entering = TRUE, !.listLoaded = FALSE,
                                     !.resolved = FALSE, !.session = s, !.messages = {},
                                     !.draft = NoDraft], TRUE)
       IN  Becomes(ResolveInitialSessionOnEnter([p EXCEPT !.timer = TRUE]), inbox)
    /\ UNCHANGED <<client, peer, manager, said, faults, panelled>>

TimerFires ==
    /\ page.timer
    /\ Becomes(IF ~page.entering \/ page.resolved THEN [page EXCEPT !.timer = FALSE]
               ELSE FinalizeEnterChatMode(page, page.pending), inbox)
    /\ UNCHANGED <<client, peer, manager, said, faults, panelled>>

\* A click in the list of sessions, or a new conversation.
PickSession(s) ==
    /\ page.entered
    /\ Becomes(ChangeSession(page, s), inbox)
    /\ UNCHANGED <<client, peer, manager, said, faults, panelled>>

\* The debug panel: any session may be typed in, and connect is not forced.
HandleConnect(s) ==
    /\ page.entered
    /\ Becomes(Connect([page EXCEPT !.session = s], FALSE), inbox)
    /\ panelled' = TRUE
    /\ UNCHANGED <<client, peer, manager, said, faults>>

PanelDisconnect ==
    /\ page.entered
    /\ Becomes(Disconnect(page), inbox)
    /\ UNCHANGED <<client, peer, manager, said, faults, panelled>>

\* The page is left (onUnmounted) and loaded again.
Reload ==
    /\ faults < MaxFaults /\ page.made > 0
    /\ Becomes([NewPage EXCEPT !.made = page.made, !.link = Disconnect(page).link], inbox)
    /\ faults' = faults + 1
    /\ panelled' = FALSE
    /\ UNCHANGED <<client, peer, manager, said>>

\* The message goes to the session of the config, over whatever link there is.
SendMessage ==
    /\ page.entered /\ IsOpen(page) /\ Len(said) < MaxItems
    /\ page.session # NoSession
    /\ said' = Append(said, [session |-> page.session, state |-> "sent"])
    /\ UNCHANGED <<page, client, peer, inbox, manager, faults, panelled>>

(***************************************************************************)
(* Links.  socket.io delivers in order, notices a cut wire on either side  *)
(* in its own time, and tries again unless the server has said goodbye.    *)
(***************************************************************************)
Wired(c) ==
    /\ ~client[c].cut /\ client[c].link # 0
    /\ peer[client[c].link] = c
    /\ page.link[client[c].link].state \in {"opening", "open"}

Cut(c) ==
    /\ faults < MaxFaults /\ Wired(c)
    /\ client' = [client EXCEPT ![c].cut = TRUE]
    /\ inbox' = [inbox EXCEPT ![c] = <<>>]
    /\ faults' = faults + 1
    /\ UNCHANGED <<page, peer, manager, said, panelled>>

\* What a handler registered on link i does to the store.
Heard(i, p, q) == IF page.link[i].heard THEN q ELSE p

Moves(i, state) == [page EXCEPT !.link[i].state = state]

\* connect_error: the server does not answer, or is gone before it did.
ConnectError(i) ==
    /\ page.link[i].state = "opening"
    /\ \/ peer[i] = 0 /\ faults < MaxFaults /\ faults' = faults + 1
       \/ peer[i] # 0 /\ client[peer[i]].cut /\ UNCHANGED faults
    /\ LET p == Moves(i, "waiting") IN page' = Heard(i, p, [p EXCEPT !.status = "error"])
    /\ peer' = [peer EXCEPT ![i] = 0]
    /\ UNCHANGED <<client, inbox, manager, said, panelled>>

\* disconnect, for a reason after which socket.io reconnects.
Drop(i) ==
    /\ page.link[i].state = "open" /\ client[peer[i]].cut
    /\ LET p == Moves(i, "waiting") IN page' = Heard(i, p, [p EXCEPT !.status = "disconnected"])
    /\ peer' = [peer EXCEPT ![i] = 0]
    /\ UNCHANGED <<client, inbox, manager, said, faults, panelled>>

\* reconnect_attempt, whose listener is the manager's and survives
\* removeAllListeners; disconnect stops the manager.
Attempt(i) ==
    /\ page.link[i].state = "waiting"
    /\ page' = [Moves(i, "opening") EXCEPT !.status = "reconnecting"]
    /\ UNCHANGED <<client, peer, inbox, manager, said, faults, panelled>>

\* What the handlers of the events do to the store.
Handle(p, e) ==
    CASE e.type = "connect" -> [p EXCEPT !.status = "connected"]
      [] e.type = "bye" -> [p EXCEPT !.status = "disconnected"]
      [] e.type = "list" ->
            ResolveInitialSessionOnEnter([p EXCEPT !.history = e.list, !.listLoaded = TRUE])
      [] e.type = "received" -> [p EXCEPT !.messages = @ \union {e.item}]
      [] e.type = "stream" ->
            [p EXCEPT !.draft = [text |-> Append(@.text, e.item), finalized |-> FALSE]]
      [] e.type = "end" ->
            [p EXCEPT !.draft = [text |-> IF e.blank THEN @.text ELSE <<e.item>>, finalized |-> TRUE]]

Deliver(c) ==
    /\ Wired(c) /\ inbox[c] # <<>>
    /\ LET i == client[c].link
           e == Head(inbox[c])
           p == CASE e.type = "connect" -> Moves(i, "open")
                  [] e.type = "bye" -> Moves(i, "kicked")
                  [] OTHER -> page
       IN  /\ Becomes(Heard(i, p, Handle(p, e)), [inbox EXCEPT ![c] = Tail(@)])
           /\ peer' = [peer EXCEPT ![i] = IF e.type = "bye" THEN 0 ELSE @]
    /\ UNCHANGED <<client, manager, said, faults, panelled>>

(***************************************************************************)
(* The gateway.                                                            *)
(***************************************************************************)
Live(c) == client[c].stage = "live"
Room(s) == {c \in Clients : Live(c) /\ client[c].session = s}

Broadcast(s, e) ==
    inbox' = [c \in Clients |-> IF c \in Room(s) /\ Wired(c) THEN Append(inbox[c], e) ELSE inbox[c]]

\* handleConnection up to its await: the room and the manager know the client
\* before any other event of it can be handled.
HandleConnection(i, c, l) ==
    /\ page.link[i].state = "opening" /\ peer[i] = 0
    /\ \A d \in 1 .. c : client[d].stage = "unused" <=> d = c
    /\ client' = [client EXCEPT ![c] = [link |-> i, session |-> page.link[i].session, stage |-> "live",
                                        preparing |-> TRUE, cut |-> FALSE]]
    /\ peer' = [peer EXCEPT ![i] = c]
    /\ manager' = M!AddClient(manager, page.link[i].session, c)
    /\ inbox' = [inbox EXCEPT ![c] = IF l = Silent THEN <<[type |-> "connect"]>>
                                     ELSE <<[type |-> "connect"], [type |-> "list", list |-> l]>>]
    /\ UNCHANGED <<page, said, faults, panelled>>

\* Mutant: the client is added when its prompts are there, gone or not.
EstablishLate(c) ==
    /\ client[c].preparing
    /\ client' = [client EXCEPT ![c].preparing = FALSE]
    /\ manager' = M!AddClient(manager, client[c].session, c)
    /\ UNCHANGED <<page, peer, inbox, said, faults, panelled>>

\* The rest, whether the client is still there or not: connection:established
\* and user:joined, which the page only logs.
Establish(c) ==
    /\ client[c].preparing
    /\ client' = [client EXCEPT ![c].preparing = FALSE]
    /\ UNCHANGED <<page, peer, inbox, manager, said, faults, panelled>>

HandleDisconnect(c) ==
    /\ Live(c) /\ ~Wired(c)
    /\ client' = [client EXCEPT ![c].stage = "gone"]
    /\ manager' = M!RemoveClient(manager, c)
    /\ inbox' = [inbox EXCEPT ![c] = <<>>]
    /\ UNCHANGED <<page, peer, said, faults, panelled>>

\* The end of handleSessionDelete: disconnect() runs handleDisconnect.
SessionDeleted(s) ==
    /\ faults < MaxFaults
    /\ LET out == M!GetSessionClients(manager, s)
       IN  /\ client' = [c \in Clients |-> IF c \in out THEN [client[c] EXCEPT !.stage = "gone"]
                                           ELSE client[c]]
           /\ manager' = M!RemoveClients(manager, s, out)
           /\ inbox' = [c \in Clients |-> IF c \in out /\ Wired(c)
                                          THEN Append(inbox[c], [type |-> "bye"]) ELSE inbox[c]]
    /\ faults' = faults + 1
    /\ UNCHANGED <<page, peer, said, panelled>>

\* handleMessage up to message:received.
HandleMessage(k) ==
    /\ said[k].state = "sent"
    /\ said' = [said EXCEPT ![k].state = "done"]
    /\ Broadcast(said[k].session, [type |-> "received", item |-> k])
    /\ UNCHANGED <<page, client, peer, manager, faults, panelled>>

\* A turn of the agent in session s: a chunk, if it says anything, and the end,
\* which carries the whole text.
AgentStreams(s) ==
    /\ Len(said) < MaxItems
    /\ said' = Append(said, [session |-> s, state |-> "streaming"])
    /\ Broadcast(s, [type |-> "stream", item |-> Len(said) + 1])
    /\ UNCHANGED <<page, client, peer, manager, faults, panelled>>

AgentEnds(k) ==
    /\ said[k].state = "streaming"
    /\ said' = [said EXCEPT ![k].state = "done"]
    /\ Broadcast(said[k].session, [type |-> "end", item |-> k, blank |-> FALSE])
    /\ UNCHANGED <<page, client, peer, manager, faults, panelled>>

AgentIsSilent(s) ==
    /\ Len(said) < MaxItems
    /\ said' = Append(said, [session |-> s, state |-> "done"])
    /\ Broadcast(s, [type |-> "end", item |-> Len(said) + 1, blank |-> TRUE])
    /\ UNCHANGED <<page, client, peer, manager, faults, panelled>>

User ==
    \/ \E s \in Sessions : EnterChatMode(s) \/ PickSession(s)
    \/ \E s \in Sessions \union {NoSession} : HandleConnect(s)
    \/ PanelDisconnect \/ Reload \/ SendMessage

Network ==
    \/ \E i \in Links : ConnectError(i) \/ Drop(i) \/ Attempt(i)
    \/ \E c \in Clients : Cut(c) \/ Deliver(c)

Gateway ==
    \/ \E i \in Links, c \in Clients, l \in Lists \union {Silent} : HandleConnection(i, c, l)
    \/ \E c \in Clients : Establish(c) \/ HandleDisconnect(c)
    \/ \E s \in Sessions : SessionDeleted(s) \/ AgentStreams(s) \/ AgentIsSilent(s)
    \/ \E k \in DOMAIN said : HandleMessage(k) \/ AgentEnds(k)

Next == User \/ TimerFires \/ Network \/ Gateway

\* Timers fire.  Nothing else is assumed: neither users nor networks nor
\* servers have to do anything.
Spec == Init /\ [][Next]_vars /\ WF_vars(TimerFires)

(***************************************************************************)
(* Properties                                                              *)
(***************************************************************************)
\* However the page switches, reconnects, reloads or is kicked: it has at most
\* one socket that is not closed, no other has listeners, and "connected" is
\* shown exactly when that socket is open, but for what the panel may do.
OneSocket ==
    /\ \A i \in Links :
          /\ page.link[i].state \notin {"unused", "closed"} => i = page.socket
          /\ page.link[i].heard <=> i = page.socket
    /\ page.status = "connected" => IsOpen(page)
    /\ ~panelled /\ IsOpen(page) => page.status = "connected"

\* Unless the panel has changed it under a link, whatever the page shows
\* belongs to its session: nothing that was in flight, or on screen, when the
\* session changed is shown in the new one.
ViewOfSession ==
    ~panelled =>
        \A k \in page.messages \union {page.draft.text[j] : j \in DOMAIN page.draft.text} :
            said[k].session = page.session

\* The manager's three maps agree with each other and with the connections the
\* server has: no ghost of a client that is gone, none missing, no empty
\* session, so that a deletion disconnects everyone.
ManagerAgrees ==
    /\ manager.clients = {c \in Clients : Live(c)}
    /\ manager.open = {client[c].session : c \in manager.clients}
    /\ \A s \in Sessions : manager.members[s] = Room(s)
    /\ \A c \in Clients : manager.of[c] = IF Live(c) THEN client[c].session ELSE NoSession

\* The page enters the first session of the list, if one has come, and the new
\* one otherwise; after that neither the timer nor a list that comes late, or
\* again with a reconnection, moves the user to another session.
EntrySettles ==
    [][/\ ~page.entered /\ page'.entered =>
            page'.session = IF page'.history # <<>> THEN Head(page'.history) ELSE page.pending
       /\ page.entered /\ page'.entered /\ page'.session # page.session =>
            \E s \in Sessions \union {NoSession} : PickSession(s) \/ HandleConnect(s)]_vars

\* Entering ends, with or without a list, a server or a network.
EntryEnds == page.entering ~> ~page.entering
=============================================================================

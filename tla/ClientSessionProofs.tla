------------------------ MODULE ClientSessionProofs ------------------------
(***************************************************************************)
(* The SessionManager agrees with the connections, the page has one socket *)
(* and shows one session, and its entry is final, for any number of        *)
(* sessions, sockets, clients, faults and messages.  Each function of the  *)
(* store has a lemma for each part of the invariant.                       *)
(***************************************************************************)
EXTENDS ClientSession, TLAPS

SessionOrNone == Sessions \union {NoSession}
LinkRecords ==
    [session : SessionOrNone,
     state : {"unused", "opening", "open", "waiting", "kicked", "closed"}, heard : BOOLEAN]
Drafts == [text : Seq(Items), finalized : BOOLEAN]
Statuses == {"disconnected", "connecting", "connected", "reconnecting", "error"}
Pages ==
    [session : SessionOrNone, status : Statuses, messages : SUBSET Items, draft : Drafts,
     entered : BOOLEAN, entering : BOOLEAN, pending : SessionOrNone,
     listLoaded : BOOLEAN, resolved : BOOLEAN, timer : BOOLEAN,
     history : Lists \union {<<>>}, socket : Nat, made : Nat, link : [Links -> LinkRecords]]

Trying == {"opening", "open", "waiting"}
PageOK(p) ==
    /\ p \in Pages
    /\ p.socket <= p.made
    /\ \A i \in Links : p.link[i].state \in Trying => p.link[i].session \in Sessions

\* A change that leaves the sockets alone.
LEMMA SocketsUntouched ==
    ASSUME NEW p, PageOK(p), NEW q \in Pages,
           q.socket = p.socket, q.made = p.made, q.link = p.link
    PROVE  PageOK(q)
  BY DEF PageOK

LEMMA CloseSocketOK ==
    ASSUME NEW p, PageOK(p)
    PROVE  PageOK(CloseSocket(p)) /\ CloseSocket(p).session = p.session
<1>1. CASE p.socket = 0
  BY <1>1 DEF CloseSocket
<1>2. CASE p.socket # 0
  <2>1. CloseSocket(p) \in Pages
    <3> DEFINE l == [p.link EXCEPT ![p.socket] = [@ EXCEPT !.state = "closed", !.heard = FALSE]]
    <3>1. p \in Pages /\ l \in [Links -> LinkRecords]
      BY DEF PageOK, Pages, LinkRecords
    <3>2. CloseSocket(p) = [p EXCEPT !.link = l, !.socket = 0]
      BY <1>2 DEF CloseSocket
    <3> HIDE DEF l
    <3>3. [p EXCEPT !.link = l, !.socket = 0] \in Pages
      BY <3>1 DEF Pages
    <3> QED
      BY <3>2, <3>3
  <2>2. CloseSocket(p).socket <= CloseSocket(p).made
    BY <1>2 DEF CloseSocket, PageOK, Pages
  <2>3. ASSUME NEW i \in Links
        PROVE  /\ CloseSocket(p).link[i].session = p.link[i].session
               /\ CloseSocket(p).link[i].state \in {p.link[i].state, "closed"}
    BY <1>2 DEF CloseSocket, PageOK, Pages, LinkRecords
  <2>4. CloseSocket(p).session = p.session
    BY <1>2 DEF CloseSocket, PageOK, Pages
  <2> QED
    BY <2>1, <2>2, <2>3, <2>4 DEF PageOK, Trying
<1> QED
  BY <1>1, <1>2

LEMMA OpenSocketOK ==
    ASSUME NEW p, PageOK(p), p.session \in Sessions
    PROVE  PageOK(OpenSocket(p))
<1>1. OpenSocket(p) \in Pages
  <2> DEFINE n == p.made + 1
             l == [j \in Links |-> IF j = n THEN [session |-> p.session, state |-> "opening", heard |-> TRUE]
                                   ELSE p.link[j]]
  <2>1. p \in Pages /\ n \in Nat /\ l \in [Links -> LinkRecords]
    BY DEF PageOK, Pages, LinkRecords, SessionOrNone
  <2>2. OpenSocket(p) = [p EXCEPT !.made = n, !.socket = n, !.status = "connecting", !.link = l]
    BY DEF OpenSocket, PageOK, Pages
  <2> HIDE DEF n, l
  <2> QED
    BY <2>1, <2>2 DEF Pages, Statuses
<1>2. OpenSocket(p).socket <= OpenSocket(p).made
  BY DEF OpenSocket, PageOK, Pages
<1>3. ASSUME NEW i \in Links
      PROVE \/ OpenSocket(p).link[i] = p.link[i]
            \/ OpenSocket(p).link[i].session \in Sessions
  BY DEF OpenSocket, PageOK, Pages
<1> QED
  BY <1>1, <1>2, <1>3 DEF PageOK

\* connect() opens a socket only for a session.
LEMMA ConnectOK ==
    ASSUME NEW p, PageOK(p), NEW forceReconnect \in BOOLEAN
    PROVE  PageOK(Connect(p, forceReconnect))
<1>1. CASE p.session = NoSession
  <2> DEFINE q == [p EXCEPT !.status = "disconnected"]
  <2>1. q \in Pages /\ q.socket = p.socket /\ q.made = p.made /\ q.link = p.link
    BY DEF PageOK, Pages, Statuses
  <2> QED
    BY <1>1, <2>1, SocketsUntouched DEF Connect
<1>2. CASE p.session # NoSession
  <2>1. p.session \in Sessions
    BY <1>2 DEF PageOK, Pages, SessionOrNone
  <2> QED
    BY <1>2, <2>1, CloseSocketOK, OpenSocketOK DEF Connect
<1> QED
  BY <1>1, <1>2

LEMMA DisconnectOK ==
    ASSUME NEW p, PageOK(p)
    PROVE  PageOK(Disconnect(p))
<1> DEFINE q == [p EXCEPT !.timer = FALSE, !.entering = FALSE]
           r == CloseSocket(q)
           s == [r EXCEPT !.status = "disconnected", !.draft = NoDraft]
<1>1. q \in Pages /\ q.socket = p.socket /\ q.made = p.made /\ q.link = p.link
  BY DEF PageOK, Pages
<1>2. PageOK(q)
  BY <1>1, SocketsUntouched
<1>3. PageOK(r)
  BY <1>2, CloseSocketOK
<1>4. NoDraft \in Drafts
  BY DEF NoDraft, Drafts
<1>5. Disconnect(p) \in {q, s}
  BY DEF Disconnect
<1> HIDE DEF r
<1>6. s \in Pages /\ s.socket = r.socket /\ s.made = r.made /\ s.link = r.link
  BY <1>3, <1>4 DEF PageOK, Pages, Statuses
<1>7. PageOK(s)
  BY <1>3, <1>6, SocketsUntouched
<1> HIDE DEF q, s
<1> QED
  BY <1>2, <1>5, <1>7

LEMMA ChangeSessionOK ==
    ASSUME NEW p, PageOK(p), NEW s \in SessionOrNone
    PROVE  PageOK(ChangeSession(p, s))
<1> DEFINE q == [p EXCEPT !.session = s, !.messages = {}, !.draft = NoDraft]
<1>1. NoDraft \in Drafts
  BY DEF NoDraft, Drafts
<1>2. q \in Pages /\ q.socket = p.socket /\ q.made = p.made /\ q.link = p.link
  BY <1>1 DEF PageOK, Pages
<1>3. PageOK(Connect(q, TRUE))
  BY <1>2, SocketsUntouched, ConnectOK
<1> QED
  BY <1>3 DEF ChangeSession

LEMMA FinalizeOK ==
    ASSUME NEW p, PageOK(p), NEW s \in SessionOrNone
    PROVE  PageOK(FinalizeEnterChatMode(p, s))
<1> DEFINE q == [p EXCEPT !.timer = FALSE, !.resolved = TRUE, !.pending = NoSession]
           r == ChangeSession(q, s)
           t == [r EXCEPT !.entered = TRUE, !.entering = FALSE]
<1>1. q \in Pages /\ q.socket = p.socket /\ q.made = p.made /\ q.link = p.link
  BY DEF PageOK, Pages, SessionOrNone
<1>2. PageOK(r)
  BY <1>1, SocketsUntouched, ChangeSessionOK
<1>3. FinalizeEnterChatMode(p, s) = t
  BY DEF FinalizeEnterChatMode
<1> HIDE DEF r
<1>4. t \in Pages /\ t.socket = r.socket /\ t.made = r.made /\ t.link = r.link
  BY <1>2 DEF PageOK, Pages
<1> HIDE DEF t
<1> QED
  BY <1>2, <1>3, <1>4, SocketsUntouched

LEMMA ResolveOK ==
    ASSUME NEW p, PageOK(p)
    PROVE  PageOK(ResolveInitialSessionOnEnter(p))
<1>1. p.pending \in SessionOrNone /\ (p.history # <<>> => Head(p.history) \in Sessions)
  BY ClientSessionAssumption DEF PageOK, Pages
<1>2. p.history # <<>> => Head(p.history) \in SessionOrNone
  BY <1>1 DEF SessionOrNone
<1> QED
  BY <1>1, <1>2, FinalizeOK DEF ResolveInitialSessionOnEnter

LEMMA EnterOK ==
    ASSUME NEW p, PageOK(p), NEW s \in Sessions
    PROVE  LET q == [p EXCEPT !.pending = s, !.entering = TRUE, !.listLoaded = FALSE,
                              !.resolved = FALSE, !.session = s, !.messages = {},
                              !.draft = NoDraft]
           IN  PageOK(ResolveInitialSessionOnEnter([Connect(q, TRUE) EXCEPT !.timer = TRUE]))
<1> DEFINE q == [p EXCEPT !.pending = s, !.entering = TRUE, !.listLoaded = FALSE,
                          !.resolved = FALSE, !.session = s, !.messages = {},
                          !.draft = NoDraft]
           r == Connect(q, TRUE)
           t == [r EXCEPT !.timer = TRUE]
<1>1. NoDraft \in Drafts /\ s \in SessionOrNone
  BY DEF NoDraft, Drafts, SessionOrNone
<1>2. q \in Pages /\ q.socket = p.socket /\ q.made = p.made /\ q.link = p.link
  BY <1>1 DEF PageOK, Pages
<1>3. PageOK(r)
  BY <1>2, SocketsUntouched, ConnectOK
<1> HIDE DEF r
<1>4. t \in Pages /\ t.socket = r.socket /\ t.made = r.made /\ t.link = r.link
  BY <1>3 DEF PageOK, Pages
<1>5. PageOK(t)
  BY <1>3, <1>4, SocketsUntouched
<1> HIDE DEF t
<1>6. PageOK(ResolveInitialSessionOnEnter(t))
  BY <1>5, ResolveOK
<1> QED
  BY <1>6 DEF t, r

\* What the handlers of the page make of an event.
LEMMA HandleOK ==
    ASSUME NEW p, PageOK(p), NEW e \in Event
    PROVE  PageOK(Handle(p, e))
<1>1. CASE e.type = "connect"
  <2> DEFINE q == [p EXCEPT !.status = "connected"]
  <2>1. q \in Pages /\ q.socket = p.socket /\ q.made = p.made /\ q.link = p.link
    BY DEF PageOK, Pages, Statuses
  <2> QED
    BY <1>1, <2>1, SocketsUntouched DEF Handle
<1>2. CASE e.type = "bye"
  <2> DEFINE q == [p EXCEPT !.status = "disconnected"]
  <2>1. q \in Pages /\ q.socket = p.socket /\ q.made = p.made /\ q.link = p.link
    BY DEF PageOK, Pages, Statuses
  <2> QED
    BY <1>2, <2>1, SocketsUntouched DEF Handle
<1>3. CASE e.type = "list"
  <2> DEFINE q == [p EXCEPT !.history = e.list, !.listLoaded = TRUE]
  <2>1. e.list \in Lists
    BY <1>3 DEF Event
  <2>2. q \in Pages /\ q.socket = p.socket /\ q.made = p.made /\ q.link = p.link
    BY <2>1 DEF PageOK, Pages
  <2> QED
    BY <1>3, <2>2, SocketsUntouched, ResolveOK DEF Handle
<1>4. CASE e.type = "received"
  <2> DEFINE q == [p EXCEPT !.messages = @ \union {e.item}]
  <2>1. e.item \in Items
    BY <1>4 DEF Event
  <2>2. q \in Pages /\ q.socket = p.socket /\ q.made = p.made /\ q.link = p.link
    BY <2>1 DEF PageOK, Pages
  <2> QED
    BY <1>4, <2>2, SocketsUntouched DEF Handle
<1>5. CASE e.type = "stream"
  <2> DEFINE d == [text |-> Append(p.draft.text, e.item), finalized |-> FALSE]
             q == [p EXCEPT !.draft = d]
  <2>1. e.item \in Items
    BY <1>5 DEF Event
  <2>2. d \in Drafts
    BY <2>1 DEF PageOK, Pages, Drafts
  <2>3. q \in Pages /\ q.socket = p.socket /\ q.made = p.made /\ q.link = p.link
    BY <2>2 DEF PageOK, Pages
  <2>4. Handle(p, e) = q
    BY <1>5 DEF Handle
  <2> QED
    BY <2>3, <2>4, SocketsUntouched
<1>6. CASE e.type = "end"
  <2> DEFINE d == [text |-> IF e.blank THEN p.draft.text ELSE <<e.item>>, finalized |-> TRUE]
             q == [p EXCEPT !.draft = d]
  <2>1. e.item \in Items
    BY <1>6 DEF Event
  <2>2. d \in Drafts
    BY <2>1 DEF PageOK, Pages, Drafts
  <2>3. q \in Pages /\ q.socket = p.socket /\ q.made = p.made /\ q.link = p.link
    BY <2>2 DEF PageOK, Pages
  <2>4. Handle(p, e) = q
    BY <1>6 DEF Handle
  <2> QED
    BY <2>3, <2>4, SocketsUntouched
<1>7. e.type \in {"connect", "bye", "list", "received", "stream", "end"}
  BY DEF Event
<1> QED
  BY <1>1, <1>2, <1>3, <1>4, <1>5, <1>6, <1>7
-----------------------------------------------------------------------------
ClientRecords ==
    [link : 0 .. MaxLinks, session : SessionOrNone, stage : {"unused", "live", "gone"},
     preparing : BOOLEAN, cut : BOOLEAN]
SaidRecords == [session : Sessions, state : {"sent", "streaming", "done"}]

Types ==
    /\ PageOK(page) /\ page.made <= MaxLinks
    /\ client \in [Clients -> ClientRecords]
    /\ peer \in [Links -> 0 .. MaxClients]
    /\ inbox \in [Clients -> Seq(Event)]
    /\ said \in Seq(SaidRecords) /\ Len(said) <= MaxItems
    /\ faults \in 0 .. MaxFaults
    /\ panelled \in BOOLEAN
    /\ \A c \in Clients : Live(c) => client[c].session \in Sessions

LEMMA BecomesOK ==
    ASSUME NEW p, PageOK(p), NEW box \in [Clients -> Seq(Event)], Becomes(p, box)
    PROVE  PageOK(page') /\ page'.made <= MaxLinks /\ inbox' \in [Clients -> Seq(Event)]
  BY DEF Becomes

\* A link that changes its state: to a trying one only from a trying one.
LEMMA MovesOK ==
    ASSUME PageOK(page), NEW i \in Links,
           NEW state \in {"open", "waiting", "kicked", "opening"},
           state \in Trying => page.link[i].state \in Trying
    PROVE  PageOK(Moves(i, state)) /\ Moves(i, state).made = page.made
<1> DEFINE l == [page.link EXCEPT ![i] = [@ EXCEPT !.state = state]]
<1>1. Moves(i, state) = [page EXCEPT !.link = l]
  BY DEF Moves, PageOK, Pages
<1>2. l \in [Links -> LinkRecords]
  BY DEF PageOK, Pages, LinkRecords
<1>3. \A j \in Links : l[j].session = page.link[j].session /\ (l[j].state \in Trying => page.link[j].state \in Trying)
  BY DEF PageOK, Pages, LinkRecords
<1> HIDE DEF l
<1>4. [page EXCEPT !.link = l] \in Pages
  BY <1>2 DEF PageOK, Pages
<1>5. /\ [page EXCEPT !.link = l].link = l /\ [page EXCEPT !.link = l].made = page.made
      /\ [page EXCEPT !.link = l].socket = page.socket
  BY DEF PageOK, Pages
<1> QED
  BY <1>1, <1>3, <1>4, <1>5 DEF PageOK

\* An event to the room of a session.
LEMMA BroadcastOK ==
    ASSUME Types, NEW s, NEW e \in Event, Broadcast(s, e)
    PROVE  inbox' \in [Clients -> Seq(Event)]
  BY DEF Types, Broadcast

LEMMA TypesInit == Init => Types
<1> SUFFICES ASSUME Init PROVE Types
  OBVIOUS
<1>1. page \in Pages /\ page.socket = 0 /\ page.made = 0 /\ \A i \in Links : page.link[i].state = "unused"
  BY DEF Init, NewPage, NoLink, NoDraft, Pages, LinkRecords, SessionOrNone, Drafts, Statuses
<1>2. PageOK(page) /\ page.made <= MaxLinks
  BY <1>1, ClientSessionAssumption DEF PageOK, Trying
<1>3. client \in [Clients -> ClientRecords] /\ \A c \in Clients : client[c].stage = "unused"
  BY ClientSessionAssumption DEF Init, ClientRecords, SessionOrNone
<1>4. /\ said = <<>> /\ faults = 0 /\ panelled = FALSE
      /\ peer = [i \in Links |-> 0] /\ inbox = [c \in Clients |-> <<>>]
  BY DEF Init
<1>5. said \in Seq(SaidRecords) /\ Len(said) <= MaxItems /\ faults \in 0 .. MaxFaults
  BY <1>4, ClientSessionAssumption
<1>6. 0 \in 0 .. MaxClients
  BY ClientSessionAssumption
<1>7. peer \in [Links -> 0 .. MaxClients] /\ panelled \in BOOLEAN
  BY <1>4, <1>6
<1>8. inbox \in [Clients -> Seq(Event)]
  BY <1>4
<1> QED
  BY <1>2, <1>3, <1>5, <1>7, <1>8 DEF Types, Live

\* What the user does changes the page, or sends a message.
LEMMA TypesUser ==
    ASSUME Types, User \/ TimerFires
    PROVE  Types'
<1>0. PageOK(page) /\ inbox \in [Clients -> Seq(Event)]
  BY DEF Types
<1> DEFINE Pag == PageOK(page') /\ page'.made <= MaxLinks /\ inbox' \in [Clients -> Seq(Event)]
<1>1. ASSUME NEW s \in Sessions, EnterChatMode(s) PROVE Pag /\ UNCHANGED <<client, peer, said, faults, panelled>>
  BY <1>0, <1>1, EnterOK, BecomesOK DEF EnterChatMode
<1>2. ASSUME NEW s \in Sessions, PickSession(s) PROVE Pag /\ UNCHANGED <<client, peer, said, faults, panelled>>
  BY <1>0, <1>2, ChangeSessionOK, BecomesOK DEF PickSession, SessionOrNone
<1>3. ASSUME NEW s \in SessionOrNone, HandleConnect(s)
      PROVE Pag /\ panelled' = TRUE /\ UNCHANGED <<client, peer, said, faults>>
  <2> DEFINE q == [page EXCEPT !.session = s]
  <2>1. q \in Pages /\ q.socket = page.socket /\ q.made = page.made /\ q.link = page.link
    BY <1>0 DEF PageOK, Pages
  <2>2. PageOK(Connect(q, FALSE))
    BY <1>0, <2>1, SocketsUntouched, ConnectOK
  <2> QED
    BY <1>0, <1>3, <2>2, BecomesOK DEF HandleConnect
<1>4. ASSUME PanelDisconnect PROVE Pag /\ UNCHANGED <<client, peer, said, faults, panelled>>
  BY <1>0, <1>4, DisconnectOK, BecomesOK DEF PanelDisconnect
<1>5. ASSUME Reload PROVE Pag /\ panelled' = FALSE /\ faults' \in 0 .. MaxFaults /\ UNCHANGED <<client, peer, said>>
  <2> DEFINE l == Disconnect(page).link
             q == [NewPage EXCEPT !.made = page.made, !.link = l]
  <2>1. PageOK(Disconnect(page))
    BY <1>0, DisconnectOK
  <2>2. NewPage \in Pages /\ NewPage.socket = 0
    BY DEF NewPage, NoLink, NoDraft, Pages, LinkRecords, SessionOrNone, Drafts, Statuses
  <2>3. l \in [Links -> LinkRecords] /\ page.made \in Nat
    BY <1>0, <2>1 DEF PageOK, Pages
  <2> HIDE DEF l
  <2>4. q \in Pages /\ q.socket = 0 /\ q.made = page.made /\ q.link = l
    BY <2>2, <2>3 DEF Pages
  <2>5. PageOK(q)
    BY <2>1, <2>3, <2>4 DEF PageOK, l
  <2>6. Becomes(q, inbox) /\ faults < MaxFaults /\ faults' = faults + 1 /\ panelled' = FALSE
        /\ UNCHANGED <<client, peer, said>>
    BY <1>5 DEF Reload, l
  <2> HIDE DEF q
  <2>7. Pag
    BY <1>0, <2>5, <2>6, BecomesOK
  <2> QED
    BY <2>6, <2>7, ClientSessionAssumption DEF Types
<1>6. ASSUME SendMessage PROVE Types'
  <2>1. page.session \in Sessions
    BY <1>0, <1>6 DEF SendMessage, PageOK, Pages, SessionOrNone
  <2> QED
    BY <1>6, <2>1, ClientSessionAssumption DEF SendMessage, Types, SaidRecords, Live
<1>7. ASSUME TimerFires PROVE Pag /\ UNCHANGED <<client, peer, said, faults, panelled>>
  <2> DEFINE q == [page EXCEPT !.timer = FALSE]
  <2>1. q \in Pages /\ q.socket = page.socket /\ q.made = page.made /\ q.link = page.link
    BY <1>0 DEF PageOK, Pages
  <2>2. PageOK(q)
    BY <1>0, <2>1, SocketsUntouched
  <2>3. page.pending \in SessionOrNone
    BY <1>0 DEF PageOK, Pages
  <2> QED
    BY <1>0, <1>7, <2>2, <2>3, FinalizeOK, BecomesOK DEF TimerFires
<1> QED
  <2>1. CASE SendMessage
    BY <2>1, <1>6
  <2>2. CASE Reload
    BY <2>2, <1>5 DEF Types, Live
  <2>3. CASE \E s \in SessionOrNone : HandleConnect(s)
    BY <2>3, <1>3 DEF Types, Live
  <2>4. CASE PanelDisconnect \/ TimerFires \/ \E s \in Sessions : EnterChatMode(s) \/ PickSession(s)
    BY <2>4, <1>1, <1>2, <1>4, <1>7 DEF Types, Live
  <2> QED
    BY <2>1, <2>2, <2>3, <2>4 DEF User, SessionOrNone

LEMMA StatusOK ==
    ASSUME NEW p, PageOK(p), NEW status \in Statuses
    PROVE  PageOK([p EXCEPT !.status = status]) /\ [p EXCEPT !.status = status].made = p.made
<1> DEFINE q == [p EXCEPT !.status = status]
<1>1. q \in Pages /\ q.socket = p.socket /\ q.made = p.made /\ q.link = p.link
  BY DEF PageOK, Pages
<1> QED
  BY <1>1, SocketsUntouched

\* What the links do.
LEMMA TypesNetwork ==
    ASSUME Types, Network
    PROVE  Types'
<1>0. /\ PageOK(page) /\ page.made <= MaxLinks
      /\ inbox \in [Clients -> Seq(Event)] /\ client \in [Clients -> ClientRecords]
      /\ peer \in [Links -> 0 .. MaxClients] /\ faults \in 0 .. MaxFaults
  BY DEF Types
<1>a. {"error", "disconnected", "reconnecting"} \subseteq Statuses
  BY DEF Statuses
<1>b. /\ 0 \in 0 .. MaxClients
      /\ faults < MaxFaults => faults + 1 \in 0 .. MaxFaults
  BY <1>0, ClientSessionAssumption
<1>1. ASSUME NEW i \in Links, ConnectError(i) PROVE Types'
  <2>1. PageOK(Moves(i, "waiting")) /\ Moves(i, "waiting").made = page.made
    BY <1>0, <1>1, MovesOK DEF ConnectError, Trying
  <2>2. PageOK(page') /\ page'.made <= MaxLinks
    BY <1>0, <1>a, <1>1, <2>1, StatusOK DEF ConnectError, Heard
  <2>3. peer' \in [Links -> 0 .. MaxClients] /\ faults' \in 0 .. MaxFaults
    BY <1>0, <1>b, <1>1 DEF ConnectError
  <2> QED
    BY <1>1, <2>2, <2>3 DEF ConnectError, Types, Live
<1>2. ASSUME NEW i \in Links, Drop(i) PROVE Types'
  <2>1. PageOK(Moves(i, "waiting")) /\ Moves(i, "waiting").made = page.made
    BY <1>0, <1>2, MovesOK DEF Drop, Trying
  <2>2. PageOK(page') /\ page'.made <= MaxLinks
    BY <1>0, <1>a, <1>2, <2>1, StatusOK DEF Drop, Heard
  <2>3. peer' \in [Links -> 0 .. MaxClients]
    BY <1>0, <1>b, <1>2 DEF Drop
  <2> QED
    BY <1>2, <2>2, <2>3 DEF Drop, Types, Live
<1>3. ASSUME NEW i \in Links, Attempt(i) PROVE Types'
  <2>1. PageOK(Moves(i, "opening")) /\ Moves(i, "opening").made = page.made
    BY <1>0, <1>3, MovesOK DEF Attempt, Trying
  <2>2. PageOK(page') /\ page'.made <= MaxLinks
    BY <1>0, <1>a, <1>3, <2>1, StatusOK DEF Attempt
  <2> QED
    BY <1>3, <2>2 DEF Attempt, Types, Live
<1>4. ASSUME NEW c \in Clients, Cut(c) PROVE Types'
  <2>1. client' \in [Clients -> ClientRecords]
        /\ \A d \in Clients : client'[d].session = client[d].session /\ client'[d].stage = client[d].stage
    BY <1>0, <1>4 DEF Cut, ClientRecords
  <2>2. inbox' \in [Clients -> Seq(Event)] /\ faults' \in 0 .. MaxFaults
    BY <1>0, <1>b, <1>4 DEF Cut
  <2> QED
    BY <1>4, <2>1, <2>2 DEF Cut, Types, Live
<1>5. ASSUME NEW c \in Clients, Deliver(c) PROVE Types'
  <2> DEFINE i == client[c].link
             e == Head(inbox[c])
             p == CASE e.type = "connect" -> Moves(i, "open")
                    [] e.type = "bye" -> Moves(i, "kicked")
                    [] OTHER -> page
             box == [inbox EXCEPT ![c] = Tail(@)]
  <2>1. i \in Links /\ page.link[i].state \in {"opening", "open"}
    BY <1>0, <1>5 DEF Deliver, Wired, ClientRecords, Links
  <2>2. e \in Event /\ box \in [Clients -> Seq(Event)]
    BY <1>0, <1>5 DEF Deliver
  <2>3. PageOK(Moves(i, "open")) /\ PageOK(Moves(i, "kicked"))
    BY <1>0, <2>1, MovesOK DEF Trying
  <2>4. PageOK(p)
    BY <1>0, <2>3
  <2>5. /\ Becomes(Heard(i, p, Handle(p, e)), box)
        /\ peer' = [peer EXCEPT ![i] = IF e.type = "bye" THEN 0 ELSE @]
        /\ UNCHANGED <<client, manager, said, faults, panelled>>
    BY <1>5 DEF Deliver
  <2> HIDE DEF i, e, p, box
  <2>6. PageOK(Heard(i, p, Handle(p, e)))
    BY <2>2, <2>4, HandleOK DEF Heard
  <2>7. PageOK(page') /\ page'.made <= MaxLinks /\ inbox' \in [Clients -> Seq(Event)]
    BY <2>2, <2>5, <2>6, BecomesOK
  <2>8. peer' \in [Links -> 0 .. MaxClients]
    BY <1>0, <1>b, <2>5
  <2> QED
    BY <2>5, <2>7, <2>8 DEF Types, Live
<1> QED
  BY <1>1, <1>2, <1>3, <1>4, <1>5 DEF Network

\* The gateway's messages and replies.
LEMMA TypesReplies ==
    ASSUME Types,
           \/ \E s \in Sessions : AgentStreams(s) \/ AgentIsSilent(s)
           \/ \E k \in DOMAIN said : HandleMessage(k) \/ AgentEnds(k)
    PROVE  Types' /\ UNCHANGED <<client, manager>>
<1>0. said \in Seq(SaidRecords) /\ Len(said) <= MaxItems /\ MaxItems \in Nat
  BY ClientSessionAssumption DEF Types
<1>1. ASSUME NEW s, NEW e \in Event, Broadcast(s, e),
             said' \in Seq(SaidRecords), Len(said') <= MaxItems,
             UNCHANGED <<page, client, peer, manager, faults, panelled>>
      PROVE  Types' /\ UNCHANGED <<client, manager>>
  BY <1>1, BroadcastOK DEF Types, Live
<1>2. ASSUME NEW k \in DOMAIN said
      PROVE  /\ [said EXCEPT ![k].state = "done"] \in Seq(SaidRecords)
             /\ Len([said EXCEPT ![k].state = "done"]) = Len(said)
             /\ k \in Items
  <2>1. said[k] \in SaidRecords /\ k \in 1 .. Len(said)
    BY <1>0
  <2>2. [said[k] EXCEPT !.state = "done"] \in SaidRecords
    BY <2>1 DEF SaidRecords
  <2> QED
    BY <1>0, <2>1, <2>2 DEF Items
<1>3. ASSUME NEW s \in Sessions, NEW state \in {"streaming", "done"}, Len(said) < MaxItems
      PROVE  /\ Append(said, [session |-> s, state |-> state]) \in Seq(SaidRecords)
             /\ Len(Append(said, [session |-> s, state |-> state])) <= MaxItems
             /\ Len(said) + 1 \in Items
  BY <1>0, <1>3 DEF SaidRecords, Items
<1>4. ASSUME NEW k \in Items, NEW b \in BOOLEAN
      PROVE  /\ [type |-> "received", item |-> k] \in Event
             /\ [type |-> "stream", item |-> k] \in Event
             /\ [type |-> "end", item |-> k, blank |-> b] \in Event
  BY DEF Event
<1>5. ASSUME NEW s \in Sessions, AgentStreams(s) PROVE Types' /\ UNCHANGED <<client, manager>>
  BY <1>0, <1>1, <1>3, <1>4, <1>5 DEF AgentStreams
<1>6. ASSUME NEW s \in Sessions, AgentIsSilent(s) PROVE Types' /\ UNCHANGED <<client, manager>>
  BY <1>0, <1>1, <1>3, <1>4, <1>6 DEF AgentIsSilent
<1>7. ASSUME NEW k \in DOMAIN said, HandleMessage(k) PROVE Types' /\ UNCHANGED <<client, manager>>
  BY <1>0, <1>1, <1>2, <1>4, <1>7 DEF HandleMessage
<1>8. ASSUME NEW k \in DOMAIN said, AgentEnds(k) PROVE Types' /\ UNCHANGED <<client, manager>>
  BY <1>0, <1>1, <1>2, <1>4, <1>8 DEF AgentEnds
<1> QED
  BY <1>5, <1>6, <1>7, <1>8

\* Clients come and go.
LEMMA TypesConnection ==
    ASSUME Types, NEW i \in Links, NEW c \in Clients, NEW l \in Lists \union {Silent},
           HandleConnection(i, c, l)
    PROVE  Types' /\ client[c].stage = "unused" /\ page.link[i].session \in Sessions
<1>1. page.link[i].session \in Sessions
  BY DEF Types, PageOK, HandleConnection, Trying
<1>2. client[c].stage = "unused"
  BY DEF HandleConnection, Clients
<1>3. client' \in [Clients -> ClientRecords]
  BY <1>1 DEF HandleConnection, Types, ClientRecords, SessionOrNone, Links
<1>4. \A d \in Clients : Live(d)' => client'[d].session \in Sessions
  BY <1>1 DEF HandleConnection, Types, ClientRecords, Live
<1>5. peer' \in [Links -> 0 .. MaxClients]
  BY DEF HandleConnection, Types, Clients
<1>6. inbox' \in [Clients -> Seq(Event)]
  <2>1. [type |-> "connect"] \in Event /\ (l # Silent => [type |-> "list", list |-> l] \in Event)
    BY DEF Event
  <2> QED
    BY <2>1 DEF HandleConnection, Types
<1> QED
  BY <1>1, <1>2, <1>3, <1>4, <1>5, <1>6 DEF HandleConnection, Types

LEMMA TypesEstablish ==
    ASSUME Types, NEW c \in Clients, Establish(c)
    PROVE  Types' /\ manager' = manager
           /\ \A d \in Clients : client'[d].session = client[d].session /\ client'[d].stage = client[d].stage
<1>1. client' \in [Clients -> ClientRecords]
      /\ \A d \in Clients : client'[d].session = client[d].session /\ client'[d].stage = client[d].stage
  BY DEF Establish, Types, ClientRecords
<1> QED
  BY <1>1 DEF Establish, Types, Live

LEMMA TypesDisconnect ==
    ASSUME Types, NEW c \in Clients, HandleDisconnect(c)
    PROVE  Types'
           /\ \A d \in Clients : /\ client'[d].session = client[d].session
                                 /\ client'[d].stage = IF d = c THEN "gone" ELSE client[d].stage
<1>1. client' \in [Clients -> ClientRecords]
      /\ \A d \in Clients : /\ client'[d].session = client[d].session
                            /\ client'[d].stage = IF d = c THEN "gone" ELSE client[d].stage
  BY DEF HandleDisconnect, Types, ClientRecords
<1>2. inbox' \in [Clients -> Seq(Event)]
  BY DEF HandleDisconnect, Types
<1> QED
  BY <1>1, <1>2 DEF HandleDisconnect, Types, Live

LEMMA TypesDeleted ==
    ASSUME Types, NEW s \in Sessions, SessionDeleted(s)
    PROVE  LET out == M!GetSessionClients(manager, s)
           IN  /\ Types'
               /\ \A d \in Clients : /\ client'[d].session = client[d].session
                                     /\ client'[d].stage = IF d \in out THEN "gone" ELSE client[d].stage
<1> DEFINE out == M!GetSessionClients(manager, s)
<1>1. /\ client' = [c \in Clients |-> IF c \in out THEN [client[c] EXCEPT !.stage = "gone"]
                                      ELSE client[c]]
      /\ inbox' = [c \in Clients |-> IF c \in out /\ Wired(c)
                                     THEN Append(inbox[c], [type |-> "bye"]) ELSE inbox[c]]
      /\ faults < MaxFaults /\ faults' = faults + 1 /\ UNCHANGED <<page, peer, said, panelled>>
  BY DEF SessionDeleted
<1> HIDE DEF out
<1>2. client' \in [Clients -> ClientRecords]
      /\ \A d \in Clients : /\ client'[d].session = client[d].session
                            /\ client'[d].stage = IF d \in out THEN "gone" ELSE client[d].stage
  BY <1>1 DEF Types, ClientRecords
<1>3. inbox' \in [Clients -> Seq(Event)]
  <2>1. [type |-> "bye"] \in Event
    BY DEF Event
  <2> QED
    BY <1>1, <2>1 DEF Types
<1>4. faults' \in 0 .. MaxFaults
  BY <1>1, ClientSessionAssumption DEF Types
<1>5. Types'
  BY <1>1, <1>2, <1>3, <1>4 DEF Types, Live
<1> QED
  BY <1>2, <1>5 DEF out
-----------------------------------------------------------------------------
(***************************************************************************)
(* The manager's methods, field by field.                                  *)
(***************************************************************************)
Added(m, s, c, n) ==
    /\ n \in M!Managers
    /\ n.open = m.open \union {s} /\ n.clients = m.clients \union {c}
    /\ \A x \in Sessions : n.members[x] = IF x = s THEN m.members[x] \union {c} ELSE m.members[x]
    /\ \A d \in Clients : n.of[d] = IF d = c THEN s ELSE m.of[d]

Removed(m, s, out, n) ==
    /\ n \in M!Managers
    /\ n.open = IF m.members[s] \subseteq out THEN m.open \ {s} ELSE m.open
    /\ n.clients = m.clients \ out
    /\ \A x \in Sessions : n.members[x] = IF x = s THEN m.members[x] \ out ELSE m.members[x]
    /\ \A d \in Clients : n.of[d] = IF d \in out THEN NoSession ELSE m.of[d]

LEMMA AddFields ==
    ASSUME NEW m \in M!Managers, NEW s \in Sessions, NEW c \in Clients
    PROVE  Added(m, s, c, M!AddClient(m, s, c))
<1> DEFINE o == m.open \union {s}
           b == [m.members EXCEPT ![s] = @ \union {c}]
           k == m.clients \union {c}
           f == [m.of EXCEPT ![c] = s]
<1>1. /\ o \in SUBSET Sessions /\ b \in [Sessions -> SUBSET Clients]
      /\ k \in SUBSET Clients /\ f \in [Clients -> Sessions \union {NoSession}]
  BY DEF M!Managers
<1>2. /\ \A x \in Sessions : b[x] = IF x = s THEN m.members[x] \union {c} ELSE m.members[x]
      /\ \A d \in Clients : f[d] = IF d = c THEN s ELSE m.of[d]
  BY DEF M!Managers
<1>3. M!AddClient(m, s, c) = [m EXCEPT !.open = o, !.members = b, !.clients = k, !.of = f]
  BY DEF M!AddClient
<1>4. o = m.open \union {s} /\ k = m.clients \union {c}
  OBVIOUS
<1> HIDE DEF o, b, k, f
<1> QED
  BY <1>1, <1>2, <1>3, <1>4 DEF M!Managers, Added

\* RemoveClients, of which RemoveClient is the case of one client.
LEMMA RemoveFields ==
    ASSUME NEW m \in M!Managers, NEW s \in Sessions, NEW out \in SUBSET Clients
    PROVE  Removed(m, s, out, M!RemoveClients(m, s, out))
<1> DEFINE o == IF m.members[s] \subseteq out THEN m.open \ {s} ELSE m.open
           b == [m.members EXCEPT ![s] = @ \ out]
           k == m.clients \ out
           f == [d \in Clients |-> IF d \in out THEN NoSession ELSE m.of[d]]
<1>1. /\ o \in SUBSET Sessions /\ b \in [Sessions -> SUBSET Clients]
      /\ k \in SUBSET Clients /\ f \in [Clients -> Sessions \union {NoSession}]
  BY DEF M!Managers
<1>2. /\ \A x \in Sessions : b[x] = IF x = s THEN m.members[x] \ out ELSE m.members[x]
      /\ \A d \in Clients : f[d] = IF d \in out THEN NoSession ELSE m.of[d]
  BY DEF M!Managers
<1>3. M!RemoveClients(m, s, out) = [m EXCEPT !.open = o, !.members = b, !.clients = k, !.of = f]
  BY DEF M!RemoveClients
<1>4. /\ o = IF m.members[s] \subseteq out THEN m.open \ {s} ELSE m.open
      /\ k = m.clients \ out
  OBVIOUS
<1> HIDE DEF o, b, k, f
<1> QED
  BY <1>1, <1>2, <1>3, <1>4 DEF M!Managers, Removed

LEMMA RemoveOneFields ==
    ASSUME NEW m \in M!Managers, NEW c \in Clients, m.of[c] \in Sessions
    PROVE  Removed(m, m.of[c], {c}, M!RemoveClient(m, c))
<1> DEFINE s == m.of[c]
           o == IF m.members[s] \subseteq {c} THEN m.open \ {s} ELSE m.open
           b == [m.members EXCEPT ![s] = @ \ {c}]
           k == m.clients \ {c}
           f == [m.of EXCEPT ![c] = NoSession]
<1>1. /\ o \in SUBSET Sessions /\ b \in [Sessions -> SUBSET Clients]
      /\ k \in SUBSET Clients /\ f \in [Clients -> Sessions \union {NoSession}]
  BY DEF M!Managers
<1>2. /\ \A x \in Sessions : b[x] = IF x = s THEN m.members[x] \ {c} ELSE m.members[x]
      /\ \A d \in Clients : f[d] = IF d \in {c} THEN NoSession ELSE m.of[d]
  BY DEF M!Managers
<1>3. M!RemoveClient(m, c) = [m EXCEPT !.open = o, !.members = b, !.clients = k, !.of = f]
  BY ClientSessionAssumption DEF M!RemoveClient
<1>4. /\ o = IF m.members[s] \subseteq {c} THEN m.open \ {s} ELSE m.open
      /\ k = m.clients \ {c}
  OBVIOUS
<1> HIDE DEF o, b, k, f
<1> QED
  BY <1>1, <1>2, <1>3, <1>4 DEF M!Managers, Removed

Managed == manager \in M!Managers /\ ManagerAgrees

\* Nobody comes or goes.
LEMMA ManagedKept ==
    ASSUME Managed, manager' = manager,
           \A d \in Clients : client'[d].session = client[d].session /\ client'[d].stage = client[d].stage
    PROVE  Managed'
  BY DEF Managed, ManagerAgrees, Live, Room

LEMMA ManagedConnection ==
    ASSUME Managed, Types, NEW i \in Links, NEW c \in Clients, NEW l \in Lists \union {Silent},
           HandleConnection(i, c, l)
    PROVE  Managed'
<1> DEFINE s == page.link[i].session
<1>1. client[c].stage = "unused" /\ s \in Sessions
  BY TypesConnection
<1>2. \A d \in Clients : client'[d].stage = (IF d = c THEN "live" ELSE client[d].stage)
                         /\ client'[d].session = (IF d = c THEN s ELSE client[d].session)
  BY DEF HandleConnection, Types
<1>3. manager' = M!AddClient(manager, s, c)
  BY DEF HandleConnection
<1> HIDE DEF s
<1>4. Added(manager, s, c, manager')
  BY <1>1, <1>3, AddFields DEF Managed
<1>5. manager'.clients = {d \in Clients : Live(d)'}
  BY <1>2, <1>4 DEF Added, Managed, ManagerAgrees, Live
<1>6. manager'.open = {client'[d].session : d \in manager'.clients}
  BY <1>1, <1>2, <1>4 DEF Added, Managed, ManagerAgrees, Live
<1>7. ASSUME NEW x \in Sessions PROVE manager'.members[x] = Room(x)'
  <2>1. \A d \in Clients : d \in manager.members[x] <=> client[d].stage = "live" /\ client[d].session = x
    BY DEF Managed, ManagerAgrees, Room, Live
  <2>2. manager.members[x] \subseteq Clients
    BY DEF Managed, ManagerAgrees, Room
  <2>3. \A d \in Clients : d \in manager'.members[x] <=> client'[d].stage = "live" /\ client'[d].session = x
    <3>1. manager'.members[x] = IF x = s THEN manager.members[x] \union {c} ELSE manager.members[x]
      BY <1>4 DEF Added
    <3>2. ASSUME NEW d \in Clients
          PROVE  d \in manager'.members[x] <=> client'[d].stage = "live" /\ client'[d].session = x
      <4>1. CASE d = c
        BY <1>1, <1>2, <2>1, <3>1, <4>1
      <4>2. CASE d # c
        BY <1>2, <2>1, <3>1, <4>2
      <4> QED
        BY <4>1, <4>2
    <3> QED
      BY <3>2
  <2>4. manager'.members[x] \subseteq Clients
    BY <1>4, <2>2 DEF Added
  <2> QED
    BY <2>3, <2>4 DEF Room, Live
<1>8. \A d \in Clients : manager'.of[d] = IF Live(d)' THEN client'[d].session ELSE NoSession
  BY <1>2, <1>4 DEF Added, Managed, ManagerAgrees, Live
<1> QED
  BY <1>4, <1>5, <1>6, <1>7, <1>8 DEF Added, Managed, ManagerAgrees

\* Clients of session s go.
LEMMA ManagedRemoval ==
    ASSUME Managed, NEW s \in Sessions, NEW out \in SUBSET Room(s),
           \A d \in Clients : /\ client'[d].session = client[d].session
                              /\ client'[d].stage = IF d \in out THEN "gone" ELSE client[d].stage,
           Removed(manager, s, out, manager')
    PROVE  Managed'
<1>0. /\ manager' \in M!Managers
      /\ manager'.open = IF manager.members[s] \subseteq out THEN manager.open \ {s} ELSE manager.open
      /\ manager'.clients = manager.clients \ out
      /\ \A x \in Sessions : manager'.members[x] = IF x = s THEN manager.members[x] \ out ELSE manager.members[x]
      /\ \A d \in Clients : manager'.of[d] = IF d \in out THEN NoSession ELSE manager.of[d]
  BY DEF Removed
<1>1. \A d \in Clients : Live(d)' <=> Live(d) /\ d \notin out
  BY DEF Live
<1>2. out \subseteq Clients /\ \A d \in out : Live(d) /\ client[d].session = s
  BY DEF Room
<1>3. manager'.clients = {d \in Clients : Live(d)'}
  BY <1>0, <1>1 DEF Managed, ManagerAgrees
<1>4. manager'.open = {client'[d].session : d \in manager'.clients}
  <2>1. \A x : x \in manager.open <=> \E d \in Clients : Live(d) /\ client[d].session = x
    BY DEF Managed, ManagerAgrees
  <2>2. manager.members[s] \subseteq out <=> ~ \E d \in Clients \ out : Live(d) /\ client[d].session = s
    BY DEF Managed, ManagerAgrees, Room
  <2>3. \A x : x \in manager'.open <=> \E d \in Clients \ out : Live(d) /\ client[d].session = x
    BY <1>0, <1>2, <2>1, <2>2
  <2> QED
    BY <1>1, <1>3, <2>3
<1>5. ASSUME NEW x \in Sessions PROVE manager'.members[x] = Room(x)'
  <2>1. manager.members[x] = Room(x)
    BY DEF Managed, ManagerAgrees
  <2>2. Room(x)' = {d \in Clients : Live(d) /\ d \notin out /\ client[d].session = x}
    BY <1>1 DEF Room
  <2>3. manager'.members[x] = Room(x) \ out
    BY <1>0, <1>2, <2>1 DEF Room
  <2> QED
    BY <2>2, <2>3 DEF Room
<1>6. \A d \in Clients : manager'.of[d] = IF Live(d)' THEN client'[d].session ELSE NoSession
  BY <1>0, <1>1 DEF Managed, ManagerAgrees
<1> QED
  BY <1>0, <1>3, <1>4, <1>5, <1>6 DEF Managed, ManagerAgrees

LEMMA ManagedDisconnect ==
    ASSUME Managed, Types, NEW c \in Clients, HandleDisconnect(c)
    PROVE  Managed'
<1> DEFINE s == client[c].session
<1>1. Live(c) /\ s \in Sessions /\ manager.of[c] = s
  BY DEF HandleDisconnect, Types, Managed, ManagerAgrees
<1>2. Removed(manager, s, {c}, manager')
  <2>1. manager \in M!Managers /\ manager' = M!RemoveClient(manager, c)
    BY DEF Managed, HandleDisconnect
  <2> QED
    BY <1>1, <2>1, RemoveOneFields
<1>3. {c} \in SUBSET Room(s)
  BY <1>1 DEF Room
<1>4. \A d \in Clients : /\ client'[d].session = client[d].session
                         /\ client'[d].stage = IF d \in {c} THEN "gone" ELSE client[d].stage
  BY TypesDisconnect
<1> HIDE DEF s
<1> QED
  BY <1>1, <1>2, <1>3, <1>4, ManagedRemoval

LEMMA ManagedDeleted ==
    ASSUME Managed, Types, NEW s \in Sessions, SessionDeleted(s)
    PROVE  Managed'
<1> DEFINE out == M!GetSessionClients(manager, s)
<1>1. out \in SUBSET Room(s)
  BY DEF M!GetSessionClients, Managed, ManagerAgrees
<1>2. manager \in M!Managers /\ manager' = M!RemoveClients(manager, s, out)
  BY DEF Managed, SessionDeleted
<1>3. \A d \in Clients : /\ client'[d].session = client[d].session
                         /\ client'[d].stage = IF d \in out THEN "gone" ELSE client[d].stage
  BY TypesDeleted
<1> HIDE DEF out
<1>4. Removed(manager, s, out, manager')
  BY <1>1, <1>2, RemoveFields DEF Room
<1> QED
  BY <1>1, <1>3, <1>4, ManagedRemoval

LEMMA ManagedInit == Init => Managed
<1> SUFFICES ASSUME Init PROVE Managed
  OBVIOUS
<1>1. manager = M!NewManager /\ \A c \in Clients : client[c].stage = "unused"
  BY DEF Init
<1>2. manager \in M!Managers
  BY <1>1 DEF M!NewManager, M!Managers
<1>3. ManagerAgrees
  BY <1>1 DEF M!NewManager, ManagerAgrees, Live, Room
<1> QED
  BY <1>2, <1>3 DEF Managed

LEMMA ManagedStep ==
    ASSUME Types, Managed, [Next]_vars
    PROVE  Types' /\ Managed'
<1>1. CASE User \/ TimerFires
  <2>1. UNCHANGED <<client, manager>>
    BY <1>1 DEF User, TimerFires, EnterChatMode, PickSession, HandleConnect, PanelDisconnect,
                Reload, SendMessage
  <2> QED
    BY <1>1, <2>1, TypesUser, ManagedKept
<1>2. CASE Network
  <2>1. manager' = manager
    BY <1>2 DEF Network, ConnectError, Drop, Attempt, Cut, Deliver
  <2>2. \A d \in Clients : client'[d].session = client[d].session /\ client'[d].stage = client[d].stage
    <3>1. ASSUME NEW c \in Clients, Cut(c)
          PROVE  \A d \in Clients : client'[d].session = client[d].session /\ client'[d].stage = client[d].stage
      BY <3>1 DEF Cut, Types, ClientRecords
    <3>2. CASE \E i \in Links : ConnectError(i) \/ Drop(i) \/ Attempt(i)
      BY <3>2 DEF ConnectError, Drop, Attempt
    <3>3. CASE \E c \in Clients : Deliver(c)
      BY <3>3 DEF Deliver
    <3> QED
      BY <1>2, <3>1, <3>2, <3>3 DEF Network
  <2> QED
    BY <1>2, <2>1, <2>2, TypesNetwork, ManagedKept
<1>3. CASE \/ \E s \in Sessions : AgentStreams(s) \/ AgentIsSilent(s)
           \/ \E k \in DOMAIN said : HandleMessage(k) \/ AgentEnds(k)
  BY <1>3, TypesReplies, ManagedKept
<1>4. ASSUME NEW i \in Links, NEW c \in Clients, NEW l \in Lists \union {Silent}, HandleConnection(i, c, l)
      PROVE  Types' /\ Managed'
  BY <1>4, TypesConnection, ManagedConnection
<1>5. ASSUME NEW c \in Clients, Establish(c) PROVE Types' /\ Managed'
  BY <1>5, TypesEstablish, ManagedKept
<1>6. ASSUME NEW c \in Clients, HandleDisconnect(c) PROVE Types' /\ Managed'
  BY <1>6, TypesDisconnect, ManagedDisconnect
<1>7. ASSUME NEW s \in Sessions, SessionDeleted(s) PROVE Types' /\ Managed'
  BY <1>7, TypesDeleted, ManagedDeleted
<1>8. CASE UNCHANGED vars
  <2>1. Managed'
    BY <1>8, ManagedKept DEF vars
  <2> QED
    BY <1>8, <2>1 DEF vars, Types, Live
<1> QED
  BY <1>1, <1>2, <1>3, <1>4, <1>5, <1>6, <1>7, <1>8 DEF Next, Gateway

\* However pages connect, reconnect, reload and lose their network, and whatever
\* sessions are deleted, the three maps of the SessionManager agree with the
\* clients that are connected: nobody is forgotten, nobody stays (ManagerAgrees).
THEOREM Agreement == Spec => []ManagerAgrees
<1>1. Init => Types /\ Managed
  BY TypesInit, ManagedInit
<1>2. Types /\ Managed /\ [Next]_vars => (Types /\ Managed)'
  BY ManagedStep
<1>3. Types /\ Managed => ManagerAgrees
  BY DEF Managed
<1> QED
  BY <1>1, <1>2, <1>3, PTL DEF Spec
-----------------------------------------------------------------------------
(***************************************************************************)
(* The page has one socket.                                                *)
(***************************************************************************)
\* told: what is shown follows the socket, since the panel was not used.
Sockets(p, told) ==
    /\ \A i \in Links :
          /\ p.link[i].state \notin {"unused", "closed"} => i = p.socket
          /\ p.link[i].heard <=> i = p.socket
    /\ p.status = "connected" => IsOpen(p)
    /\ told /\ p.socket \in Links /\ IsOpen(p) => p.status = "connected"

Entering(p) == p.entering => p.pending \in Sessions

LEMMA SameSockets ==
    ASSUME NEW p, NEW told \in BOOLEAN, Sockets(p, told),
           NEW q, q.socket = p.socket, q.link = p.link, q.status = p.status
    PROVE  Sockets(q, told)
  BY DEF Sockets, IsOpen

LEMMA Unplugged ==
    ASSUME NEW p, PageOK(p), NEW told \in BOOLEAN, Sockets(p, told)
    PROVE  /\ CloseSocket(p).socket = 0
           /\ \A i \in Links : /\ CloseSocket(p).link[i].state \in {"unused", "closed"}
                               /\ ~CloseSocket(p).link[i].heard
<1>1. 0 \notin Links
  BY DEF Links
<1>2. CASE p.socket = 0
  BY <1>1, <1>2 DEF CloseSocket, Sockets
<1>3. CASE p.socket # 0
  <2> DEFINE l == [p.link EXCEPT ![p.socket] = [@ EXCEPT !.state = "closed", !.heard = FALSE]]
  <2>1. CloseSocket(p).link = l /\ CloseSocket(p).socket = 0
    BY <1>3 DEF CloseSocket, PageOK, Pages
  <2>2. \A i \in Links : l[i] = IF i = p.socket THEN [p.link[i] EXCEPT !.state = "closed", !.heard = FALSE]
                                ELSE p.link[i]
    BY DEF PageOK, Pages
  <2>3. \A i \in Links : p.link[i] \in LinkRecords
    BY DEF PageOK, Pages
  <2> HIDE DEF l
  <2>4. \A i \in Links : l[i].state \in {"unused", "closed"} /\ ~l[i].heard
    BY <2>2, <2>3 DEF Sockets, LinkRecords
  <2> QED
    BY <2>1, <2>4
<1> QED
  BY <1>2, <1>3

\* connect() for a session, forced: whatever there was is closed.
LEMMA ConnectPlugs ==
    ASSUME NEW p, PageOK(p), NEW told \in BOOLEAN, Sockets(p, told), p.session \in Sessions,
           NEW now \in BOOLEAN
    PROVE  LET q == Connect(p, TRUE)
           IN  Sockets(q, now) /\ q.session = p.session /\ q.entering = p.entering /\ q.pending = p.pending
<1> DEFINE c == CloseSocket(p)
           n == c.made + 1
           l == [j \in Links |-> IF j = n THEN [session |-> c.session, state |-> "opening", heard |-> TRUE]
                                 ELSE c.link[j]]
           q == [c EXCEPT !.made = n, !.socket = n, !.status = "connecting", !.link = l]
<1>1. PageOK(c) /\ c.session = p.session
  BY CloseSocketOK
<1>2. c.entering = p.entering /\ c.pending = p.pending
  BY DEF CloseSocket, PageOK, Pages
<1>3. \A i \in Links : c.link[i].state \in {"unused", "closed"} /\ ~c.link[i].heard
  BY Unplugged
<1>4. p.session # NoSession
  BY ClientSessionAssumption
<1> HIDE DEF c
<1>5. OpenSocket(c) = q
  BY <1>1 DEF OpenSocket, PageOK, Pages
<1>6. Connect(p, TRUE) = q
  BY <1>4, <1>5 DEF Connect, c
<1>7. n \in Nat /\ \A i \in Links : l[i] = IF i = n THEN [session |-> c.session, state |-> "opening", heard |-> TRUE]
                                           ELSE c.link[i]
  BY <1>1 DEF PageOK, Pages
<1> HIDE DEF n, l
<1>8. /\ q.socket = n /\ q.link = l /\ q.status = "connecting"
      /\ q.session = c.session /\ q.entering = c.entering /\ q.pending = c.pending
  BY <1>1 DEF PageOK, Pages
<1> HIDE DEF q
<1>9. n \in Links => l[n].state = "opening"
  BY <1>7
<1>10. Sockets(q, now)
  BY <1>3, <1>7, <1>8, <1>9 DEF Sockets, IsOpen
<1> QED
  BY <1>1, <1>2, <1>6, <1>8, <1>10

LEMMA DisconnectUnplugs ==
    ASSUME NEW p, PageOK(p), NEW told \in BOOLEAN, Sockets(p, told)
    PROVE  LET q == Disconnect(p)
           IN /\ Sockets(q, told) /\ ~q.entering
              /\ \A i \in Links : q.link[i].state \in {"unused", "closed"} /\ ~q.link[i].heard
<1> DEFINE q == [p EXCEPT !.timer = FALSE, !.entering = FALSE]
           c == CloseSocket(q)
           d == [c EXCEPT !.status = "disconnected", !.draft = NoDraft]
<1>1. /\ q \in Pages /\ q.socket = p.socket /\ q.made = p.made /\ q.link = p.link
      /\ q.status = p.status /\ q.entering = FALSE
  BY DEF PageOK, Pages
<1>2. Disconnect(p) = IF q.socket = 0 THEN q ELSE d
  BY DEF Disconnect
<1> HIDE DEF q
<1>3. PageOK(q) /\ Sockets(q, told)
  BY <1>1, SocketsUntouched, SameSockets
<1>4. PageOK(c) /\ c.entering = FALSE
  BY <1>1, <1>3, CloseSocketOK DEF CloseSocket, PageOK, Pages
<1>5. c.socket = 0 /\ \A i \in Links : c.link[i].state \in {"unused", "closed"} /\ ~c.link[i].heard
  BY <1>3, Unplugged
<1>6. q.socket = 0 => c = q
  BY DEF CloseSocket
<1> HIDE DEF c
<1>7. d.socket = 0 /\ d.link = c.link /\ d.status = "disconnected" /\ d.entering = FALSE
  BY <1>4, <1>5 DEF PageOK, Pages
<1> HIDE DEF d
<1>8. 0 \notin Links
  BY DEF Links
<1>9. Sockets(d, told)
  BY <1>5, <1>7, <1>8 DEF Sockets
<1>10. CASE q.socket = 0
  BY <1>1, <1>2, <1>3, <1>5, <1>6, <1>10
<1>11. CASE q.socket # 0
  BY <1>2, <1>5, <1>7, <1>9, <1>11
<1> QED
  BY <1>10, <1>11

LEMMA ChangePlugs ==
    ASSUME NEW p, PageOK(p), NEW told \in BOOLEAN, Sockets(p, told), NEW s \in Sessions
    PROVE  LET q == ChangeSession(p, s)
           IN Sockets(q, told) /\ q.entering = p.entering /\ q.pending = p.pending
<1> DEFINE q == [p EXCEPT !.session = s, !.messages = {}, !.draft = NoDraft]
<1>1. NoDraft \in Drafts
  BY DEF NoDraft, Drafts
<1>2. /\ q \in Pages /\ q.socket = p.socket /\ q.made = p.made /\ q.link = p.link /\ q.status = p.status
      /\ q.session = s /\ q.entering = p.entering /\ q.pending = p.pending
  BY <1>1 DEF PageOK, Pages, SessionOrNone
<1>3. ChangeSession(p, s) = IF p.session = s THEN p ELSE Connect(q, TRUE)
  BY DEF ChangeSession
<1> HIDE DEF q
<1>4. PageOK(q) /\ Sockets(q, told)
  BY <1>2, SocketsUntouched, SameSockets
<1>5. Sockets(Connect(q, TRUE), told) /\ Connect(q, TRUE).entering = q.entering /\ Connect(q, TRUE).pending = q.pending
  BY <1>2, <1>4, ConnectPlugs
<1> QED
  BY <1>2, <1>3, <1>5

LEMMA FinalizePlugs ==
    ASSUME NEW p, PageOK(p), NEW told \in BOOLEAN, Sockets(p, told), NEW s \in Sessions
    PROVE  LET q == FinalizeEnterChatMode(p, s) IN Sockets(q, told) /\ ~q.entering
<1> DEFINE q == [p EXCEPT !.timer = FALSE, !.resolved = TRUE, !.pending = NoSession]
           r == ChangeSession(q, s)
           t == [r EXCEPT !.entered = TRUE, !.entering = FALSE]
<1>1. q \in Pages /\ q.socket = p.socket /\ q.made = p.made /\ q.link = p.link /\ q.status = p.status
  BY DEF PageOK, Pages, SessionOrNone
<1>2. FinalizeEnterChatMode(p, s) = t
  BY DEF FinalizeEnterChatMode
<1> HIDE DEF q
<1>3. PageOK(q) /\ Sockets(q, told)
  BY <1>1, SocketsUntouched, SameSockets
<1>4. PageOK(r) /\ Sockets(r, told)
  BY <1>3, ChangeSessionOK, ChangePlugs DEF SessionOrNone
<1> HIDE DEF r
<1>5. t.socket = r.socket /\ t.link = r.link /\ t.status = r.status /\ t.entering = FALSE
  BY <1>4 DEF PageOK, Pages
<1> HIDE DEF t
<1> QED
  BY <1>2, <1>4, <1>5, SameSockets

LEMMA ResolvePlugs ==
    ASSUME NEW p, PageOK(p), NEW told \in BOOLEAN, Sockets(p, told), Entering(p)
    PROVE  LET q == ResolveInitialSessionOnEnter(p) IN Sockets(q, told) /\ Entering(q)
<1>1. p.history # <<>> => Head(p.history) \in Sessions
  BY ClientSessionAssumption DEF PageOK, Pages
<1>2. p.entering => p.pending \in Sessions
  BY DEF Entering
<1>3. CASE ~p.entering \/ p.resolved
  BY <1>3 DEF ResolveInitialSessionOnEnter
<1>4. CASE p.entering /\ ~p.resolved
  <2>1. ResolveInitialSessionOnEnter(p) = IF p.history # <<>> THEN FinalizeEnterChatMode(p, Head(p.history))
                                          ELSE IF p.listLoaded THEN FinalizeEnterChatMode(p, p.pending) ELSE p
    BY <1>4 DEF ResolveInitialSessionOnEnter
  <2>2. ASSUME NEW s \in Sessions
        PROVE  Sockets(FinalizeEnterChatMode(p, s), told) /\ Entering(FinalizeEnterChatMode(p, s))
    BY FinalizePlugs DEF Entering
  <2> QED
    BY <1>1, <1>2, <1>4, <2>1, <2>2
<1>5. p.entering \in BOOLEAN /\ p.resolved \in BOOLEAN
  BY DEF PageOK, Pages
<1> QED
  BY <1>3, <1>4, <1>5

\* Any event but those that tell of the link.
LEMMA HandlePlugs ==
    ASSUME NEW p, PageOK(p), NEW told \in BOOLEAN, Sockets(p, told), Entering(p),
           NEW e \in Event, e.type \notin {"connect", "bye"}
    PROVE  Sockets(Handle(p, e), told) /\ Entering(Handle(p, e))
<1>1. CASE e.type = "list"
  <2> DEFINE q == [p EXCEPT !.history = e.list, !.listLoaded = TRUE]
  <2>1. e.list \in Lists
    BY <1>1 DEF Event
  <2>2. /\ q \in Pages /\ q.socket = p.socket /\ q.made = p.made /\ q.link = p.link /\ q.status = p.status
        /\ q.entering = p.entering /\ q.pending = p.pending
    BY <2>1 DEF PageOK, Pages
  <2>3. Handle(p, e) = ResolveInitialSessionOnEnter(q)
    BY <1>1 DEF Handle
  <2> HIDE DEF q
  <2>4. PageOK(q) /\ Sockets(q, told) /\ Entering(q)
    BY <2>2, SocketsUntouched, SameSockets DEF Entering
  <2> QED
    BY <2>3, <2>4, ResolvePlugs
<1>2. CASE e.type # "list"
  <2> DEFINE q == Handle(p, e)
  <2>1. e.type \in {"received", "stream", "end"}
    BY <1>2 DEF Event
  <2>2. /\ q.socket = p.socket /\ q.link = p.link /\ q.status = p.status
        /\ q.entering = p.entering /\ q.pending = p.pending
    BY <2>1 DEF Handle, PageOK, Pages
  <2> HIDE DEF q
  <2>3. Sockets(q, told) /\ Entering(q)
    BY <2>2, SameSockets DEF Entering
  <2> QED
    BY <2>3 DEF q
<1> QED
  BY <1>1, <1>2

Plugged == Sockets(page, ~panelled) /\ Entering(page)

LEMMA PluggedUser ==
    ASSUME Types, Plugged, User \/ TimerFires
    PROVE  Plugged'
<1>0. PageOK(page) /\ Sockets(page, ~panelled) /\ Entering(page) /\ (~panelled) \in BOOLEAN
  BY DEF Types, Plugged
<1>1. ASSUME NEW s \in Sessions, EnterChatMode(s) PROVE Plugged'
  <2> DEFINE q == [page EXCEPT !.pending = s, !.entering = TRUE, !.listLoaded = FALSE,
                               !.resolved = FALSE, !.session = s, !.messages = {},
                               !.draft = NoDraft]
             r == Connect(q, TRUE)
             t == [r EXCEPT !.timer = TRUE]
  <2>1. NoDraft \in Drafts /\ s \in SessionOrNone
    BY DEF NoDraft, Drafts, SessionOrNone
  <2>2. /\ q \in Pages /\ q.socket = page.socket /\ q.made = page.made /\ q.link = page.link
        /\ q.status = page.status /\ q.session = s /\ q.entering /\ q.pending = s
    BY <1>0, <2>1 DEF PageOK, Pages
  <2>3. page' = ResolveInitialSessionOnEnter(t) /\ panelled' = panelled
    BY <1>1 DEF EnterChatMode, Becomes
  <2> HIDE DEF q
  <2>4. PageOK(q) /\ Sockets(q, ~panelled)
    BY <1>0, <2>2, SocketsUntouched, SameSockets
  <2>5. PageOK(r) /\ Sockets(r, ~panelled) /\ r.pending = s
    BY <1>0, <2>2, <2>4, ConnectOK, ConnectPlugs
  <2> HIDE DEF r
  <2>6. /\ t \in Pages /\ t.socket = r.socket /\ t.made = r.made /\ t.link = r.link
        /\ t.status = r.status /\ t.pending = s
    BY <2>5 DEF PageOK, Pages
  <2> HIDE DEF t
  <2>7. PageOK(t) /\ Sockets(t, ~panelled) /\ Entering(t)
    BY <1>0, <2>5, <2>6, SocketsUntouched, SameSockets DEF Entering
  <2> QED
    BY <1>0, <2>3, <2>7, ResolvePlugs DEF Plugged
<1>2. ASSUME NEW s \in Sessions, PickSession(s) PROVE Plugged'
  <2>1. page' = ChangeSession(page, s) /\ panelled' = panelled
    BY <1>2 DEF PickSession, Becomes
  <2> QED
    BY <1>0, <2>1, ChangePlugs DEF Plugged, Entering
<1>3. ASSUME NEW s \in SessionOrNone, HandleConnect(s) PROVE Plugged'
  <2> DEFINE q == [page EXCEPT !.session = s]
             n == [q EXCEPT !.status = "disconnected"]
  <2>1. /\ q \in Pages /\ q.socket = page.socket /\ q.made = page.made /\ q.link = page.link
        /\ q.status = page.status /\ q.session = s /\ q.entering = page.entering /\ q.pending = page.pending
    BY <1>0 DEF PageOK, Pages
  <2>2. page' = Connect(q, FALSE) /\ panelled' = TRUE
    BY <1>3 DEF HandleConnect, Becomes
  <2> HIDE DEF q
  <2>3. PageOK(q) /\ Sockets(q, ~panelled) /\ Sockets(q, FALSE) /\ Entering(q)
    <3>1. PageOK(q) /\ Sockets(q, ~panelled)
      BY <1>0, <2>1, SocketsUntouched, SameSockets
    <3> QED
      BY <1>0, <2>1, <3>1 DEF Sockets, Entering
  <2>4. CASE s = NoSession
    <3>1. page' = n
      BY <2>1, <2>2, <2>4 DEF Connect
    <3>2. n.socket = q.socket /\ n.link = q.link /\ n.status = "disconnected"
          /\ n.entering = q.entering /\ n.pending = q.pending
      BY <2>3 DEF PageOK, Pages
    <3> HIDE DEF n
    <3> QED
      BY <2>2, <2>3, <3>1, <3>2 DEF Plugged, Sockets, Entering
  <2>5. CASE s # NoSession /\ IsOpen(q)
    <3>1. page' = q
      BY <2>1, <2>2, <2>5 DEF Connect
    <3> QED
      BY <2>2, <2>3, <3>1 DEF Plugged
  <2>6. CASE s # NoSession /\ ~IsOpen(q)
    <3>1. page' = Connect(q, TRUE) /\ q.session \in Sessions
      BY <2>1, <2>2, <2>6 DEF Connect, SessionOrNone
    <3>2. Sockets(Connect(q, TRUE), FALSE) /\ Entering(Connect(q, TRUE))
      BY <1>0, <2>3, <3>1, ConnectPlugs DEF Entering
    <3> QED
      BY <2>2, <3>1, <3>2 DEF Plugged
  <2> QED
    BY <2>4, <2>5, <2>6
<1>4. ASSUME PanelDisconnect PROVE Plugged'
  <2>1. page' = Disconnect(page) /\ panelled' = panelled
    BY <1>4 DEF PanelDisconnect, Becomes
  <2> QED
    BY <1>0, <2>1, DisconnectUnplugs DEF Plugged, Entering
<1>5. ASSUME Reload PROVE Plugged'
  <2> DEFINE l == Disconnect(page).link
             q == [NewPage EXCEPT !.made = page.made, !.link = l]
  <2>1. \A i \in Links : l[i].state \in {"unused", "closed"} /\ ~l[i].heard
    BY <1>0, DisconnectUnplugs
  <2>2. page' = q
    BY <1>5 DEF Reload, Becomes
  <2> HIDE DEF l
  <2>3. q.socket = 0 /\ q.link = l /\ q.status = "disconnected" /\ ~q.entering
    BY DEF NewPage
  <2>4. 0 \notin Links
    BY DEF Links
  <2> HIDE DEF q
  <2> QED
    BY <2>1, <2>2, <2>3, <2>4 DEF Plugged, Sockets, Entering
<1>6. ASSUME TimerFires PROVE Plugged'
  <2> DEFINE q == [page EXCEPT !.timer = FALSE]
  <2>1. /\ q.socket = page.socket /\ q.link = page.link /\ q.status = page.status
        /\ q.entering = page.entering /\ q.pending = page.pending
    BY <1>0 DEF PageOK, Pages
  <2>2. Sockets(q, ~panelled) /\ Entering(q)
    BY <1>0, <2>1, SameSockets DEF Entering
  <2>3. panelled' = panelled
        /\ page' = IF ~page.entering \/ page.resolved THEN q ELSE FinalizeEnterChatMode(page, page.pending)
    BY <1>6 DEF TimerFires, Becomes
  <2> HIDE DEF q
  <2>4. CASE ~page.entering \/ page.resolved
    BY <2>2, <2>3, <2>4 DEF Plugged
  <2>5. CASE ~(~page.entering \/ page.resolved)
    <3>1. page.entering /\ page.pending \in Sessions
      BY <1>0, <2>5 DEF Entering
    <3>2. Sockets(page', ~panelled) /\ ~page'.entering
      BY <1>0, <2>3, <2>5, <3>1, FinalizePlugs
    <3> QED
      BY <2>3, <3>2 DEF Plugged, Entering
  <2> QED
    BY <2>4, <2>5
<1>7. CASE SendMessage
  BY <1>7 DEF SendMessage, Plugged
<1> QED
  BY <1>1, <1>2, <1>3, <1>4, <1>5, <1>6, <1>7 DEF User, SessionOrNone

\* The socket of the page opens or is lost, and the page shows it.
LEMMA SocketMoves ==
    ASSUME Types, Plugged, NEW i \in Links, i = page.socket,
           NEW state \in {"open", "waiting", "kicked", "opening"},
           NEW status \in Statuses, status = "connected" <=> state = "open"
    PROVE  LET q == [Moves(i, state) EXCEPT !.status = status]
           IN Sockets(q, ~panelled) /\ Entering(q)
<1> DEFINE l == [page.link EXCEPT ![i] = [@ EXCEPT !.state = state]]
           m == [page EXCEPT !.link = l]
           q == [m EXCEPT !.status = status]
<1>1. PageOK(page) /\ Sockets(page, ~panelled) /\ Entering(page)
  BY DEF Types, Plugged
<1>2. Moves(i, state) = m
  BY DEF Moves
<1>3. \A j \in Links : l[j].heard = page.link[j].heard /\ l[j].state = IF j = i THEN state ELSE page.link[j].state
  BY <1>1 DEF PageOK, Pages, LinkRecords
<1> HIDE DEF l
<1>4. /\ q.socket = i /\ q.link = l /\ q.status = status
      /\ q.entering = page.entering /\ q.pending = page.pending
  BY <1>1 DEF PageOK, Pages
<1> HIDE DEF q
<1>5. i # 0
  BY DEF Links
<1>6. Sockets(q, ~panelled) /\ Entering(q)
  BY <1>1, <1>3, <1>4, <1>5 DEF Sockets, IsOpen, Entering
<1> QED
  BY <1>2, <1>6 DEF q

LEMMA PluggedNetwork ==
    ASSUME Types, Plugged, Network
    PROVE  Plugged'
<1>0. /\ PageOK(page) /\ Sockets(page, ~panelled) /\ Entering(page) /\ (~panelled) \in BOOLEAN
      /\ client \in [Clients -> ClientRecords] /\ inbox \in [Clients -> Seq(Event)]
  BY DEF Types, Plugged
\* A link that is not closed is that of the socket, and is listened to.
<1>a. ASSUME NEW i \in Links, page.link[i].state \in Trying PROVE i = page.socket /\ page.link[i].heard
  BY <1>0, <1>a DEF Sockets, Trying
<1>1. ASSUME NEW i \in Links, ConnectError(i) PROVE Plugged'
  <2>1. i = page.socket /\ page.link[i].heard /\ panelled' = panelled
    BY <1>1, <1>a DEF ConnectError, Trying
  <2>2. page' = [Moves(i, "waiting") EXCEPT !.status = "error"]
    BY <1>1, <2>1 DEF ConnectError, Heard
  <2> QED
    BY <2>1, <2>2, SocketMoves DEF Plugged, Statuses
<1>2. ASSUME NEW i \in Links, Drop(i) PROVE Plugged'
  <2>1. i = page.socket /\ page.link[i].heard /\ panelled' = panelled
    BY <1>2, <1>a DEF Drop, Trying
  <2>2. page' = [Moves(i, "waiting") EXCEPT !.status = "disconnected"]
    BY <1>2, <2>1 DEF Drop, Heard
  <2> QED
    BY <2>1, <2>2, SocketMoves DEF Plugged, Statuses
<1>3. ASSUME NEW i \in Links, Attempt(i) PROVE Plugged'
  <2>1. i = page.socket /\ panelled' = panelled /\ page' = [Moves(i, "opening") EXCEPT !.status = "reconnecting"]
    BY <1>3, <1>a DEF Attempt, Trying
  <2> QED
    BY <2>1, SocketMoves DEF Plugged, Statuses
<1>4. ASSUME NEW c \in Clients, Cut(c) PROVE Plugged'
  BY <1>4 DEF Cut, Plugged
<1>5. ASSUME NEW c \in Clients, Deliver(c) PROVE Plugged'
  <2> DEFINE i == client[c].link
             e == Head(inbox[c])
  <2>1. i \in Links /\ page.link[i].state \in Trying
    BY <1>0, <1>5 DEF Deliver, Wired, ClientRecords, Links, Trying
  <2>2. e \in Event
    BY <1>0, <1>5 DEF Deliver
  <2>3. i = page.socket /\ page.link[i].heard
    BY <1>a, <2>1
  <2>4. panelled' = panelled /\
        page' = Handle(CASE e.type = "connect" -> Moves(i, "open")
                         [] e.type = "bye" -> Moves(i, "kicked")
                         [] OTHER -> page, e)
    BY <1>5, <2>3 DEF Deliver, Becomes, Heard
  <2> HIDE DEF i, e
  <2>5. CASE e.type = "connect"
    <3>1. page' = [Moves(i, "open") EXCEPT !.status = "connected"]
      BY <2>4, <2>5 DEF Handle
    <3> QED
      BY <2>1, <2>3, <2>4, <3>1, SocketMoves DEF Plugged, Statuses
  <2>6. CASE e.type = "bye"
    <3>1. page' = [Moves(i, "kicked") EXCEPT !.status = "disconnected"]
      BY <2>4, <2>6 DEF Handle
    <3> QED
      BY <2>1, <2>3, <2>4, <3>1, SocketMoves DEF Plugged, Statuses
  <2>7. CASE e.type \notin {"connect", "bye"}
    <3>1. page' = Handle(page, e)
      BY <2>4, <2>7
    <3> QED
      BY <1>0, <2>2, <2>4, <2>7, <3>1, HandlePlugs DEF Plugged
  <2> QED
    BY <2>5, <2>6, <2>7
<1> QED
  BY <1>1, <1>2, <1>3, <1>4, <1>5 DEF Network

LEMMA PluggedInit == Init => Plugged
<1> SUFFICES ASSUME Init PROVE Plugged
  OBVIOUS
<1>1. page.socket = 0 /\ page.status = "disconnected" /\ ~page.entering
      /\ \A i \in Links : page.link[i].state = "unused" /\ ~page.link[i].heard
  BY DEF Init, NewPage, NoLink
<1>2. 0 \notin Links
  BY DEF Links
<1> QED
  BY <1>1, <1>2 DEF Plugged, Sockets, Entering

LEMMA PluggedStep ==
    ASSUME Types, Plugged, [Next]_vars
    PROVE  Plugged'
<1>1. CASE Gateway \/ UNCHANGED vars
  <2>1. UNCHANGED <<page, panelled>>
    BY <1>1 DEF Gateway, HandleConnection, Establish, HandleDisconnect, SessionDeleted,
                AgentStreams, AgentIsSilent, HandleMessage, AgentEnds, vars
  <2> QED
    BY <2>1 DEF Plugged
<1> QED
  BY <1>1, PluggedUser, PluggedNetwork DEF Next

\* However the page switches sessions, reconnects, is disconnected or loaded
\* again: one socket that is not closed, listeners on no other, and "connected"
\* shown when that socket is open (OneSocket).
THEOREM SingleSocket == Spec => []OneSocket
<1>1. Init => Types /\ Managed /\ Plugged
  BY TypesInit, ManagedInit, PluggedInit
<1>2. Types /\ Managed /\ Plugged /\ [Next]_vars => (Types /\ Managed /\ Plugged)'
  BY ManagedStep, PluggedStep
<1>3. Types /\ Plugged => OneSocket
  <2> SUFFICES ASSUME Types, Plugged PROVE OneSocket
    OBVIOUS
  <2>1. page.socket \in 0 .. MaxLinks
    BY ClientSessionAssumption DEF Types, PageOK, Pages
  <2>2. IsOpen(page) => page.socket \in Links
    BY <2>1, ClientSessionAssumption DEF IsOpen, Links
  <2> QED
    BY <2>2 DEF Plugged, Sockets, OneSocket
<1> QED
  BY <1>1, <1>2, <1>3, PTL DEF Spec
-----------------------------------------------------------------------------
(***************************************************************************)
(* What the page shows, and how it is entered.                             *)
(***************************************************************************)
\* What the store's socket functions leave alone.
SameView(p, q) ==
    /\ q.session = p.session /\ q.messages = p.messages /\ q.draft = p.draft
    /\ q.entered = p.entered /\ q.entering = p.entering /\ q.resolved = p.resolved
    /\ q.pending = p.pending /\ q.listLoaded = p.listLoaded /\ q.history = p.history

\* The links that were made keep the session of their query.
Keeps(p, q) ==
    p.made <= q.made /\ \A i \in Links : i <= p.made => q.link[i].session = p.link[i].session

LEMMA KeepsOn ==
    ASSUME NEW p, NEW q, NEW r, p.made \in Nat, q.made \in Nat, r.made \in Nat,
           Keeps(p, q), Keeps(q, r)
    PROVE  Keeps(p, r)
<1>1. ASSUME NEW i \in Links, i <= p.made PROVE i <= q.made
  BY <1>1 DEF Keeps, Links
<1> QED
  BY <1>1 DEF Keeps

LEMMA CloseSocketKeeps ==
    ASSUME NEW p, PageOK(p)
    PROVE  SameView(p, CloseSocket(p)) /\ Keeps(p, CloseSocket(p)) /\ CloseSocket(p).socket = 0
<1>1. CASE p.socket = 0
  BY <1>1 DEF CloseSocket, SameView, Keeps, PageOK, Pages
<1>2. CASE p.socket # 0
  <2> DEFINE l == [p.link EXCEPT ![p.socket] = [@ EXCEPT !.state = "closed", !.heard = FALSE]]
             q == [p EXCEPT !.link = l, !.socket = 0]
  <2>1. CloseSocket(p) = q
    BY <1>2 DEF CloseSocket
  <2>2. \A i \in Links : l[i].session = p.link[i].session
    BY DEF PageOK, Pages, LinkRecords
  <2> HIDE DEF l
  <2>3. SameView(p, q) /\ q.made = p.made /\ q.link = l /\ q.socket = 0 /\ p.made \in Nat
    BY DEF SameView, PageOK, Pages
  <2> HIDE DEF q
  <2> QED
    BY <2>1, <2>2, <2>3 DEF Keeps
<1> QED
  BY <1>1, <1>2

Bound(p) == p.socket \in Links => p.link[p.socket].session = p.session

LEMMA OpenSocketKeeps ==
    ASSUME NEW p, PageOK(p)
    PROVE  SameView(p, OpenSocket(p)) /\ Keeps(p, OpenSocket(p)) /\ Bound(OpenSocket(p))
<1> DEFINE n == p.made + 1
           l == [j \in Links |-> IF j = n THEN [session |-> p.session, state |-> "opening", heard |-> TRUE]
                                 ELSE p.link[j]]
           q == [p EXCEPT !.made = n, !.socket = n, !.status = "connecting", !.link = l]
<1>1. OpenSocket(p) = q
  BY DEF OpenSocket, PageOK, Pages
<1>2. p.made \in Nat /\ n \in Nat /\ n > p.made
  BY DEF PageOK, Pages
<1>3. \A i \in Links : l[i].session = IF i = n THEN p.session ELSE p.link[i].session
  OBVIOUS
<1> HIDE DEF n, l
<1>4. SameView(p, q) /\ q.made = n /\ q.socket = n /\ q.link = l
  BY DEF SameView, PageOK, Pages
<1> HIDE DEF q
<1>5. Keeps(p, q)
  BY <1>2, <1>3, <1>4 DEF Keeps, Links
<1>6. Bound(q)
  BY <1>3, <1>4 DEF Bound, SameView
<1> QED
  BY <1>1, <1>4, <1>5, <1>6

LEMMA ConnectKeeps ==
    ASSUME NEW p, PageOK(p), NEW forceReconnect \in BOOLEAN
    PROVE  LET q == Connect(p, forceReconnect)
           IN  /\ SameView(p, q) /\ Keeps(p, q)
               /\ forceReconnect /\ p.session # NoSession => Bound(q)
<1>1. CASE p.session = NoSession
  <2> DEFINE q == [p EXCEPT !.status = "disconnected"]
  <2>1. SameView(p, q) /\ q.made = p.made /\ q.link = p.link /\ p.made \in Nat
    BY DEF SameView, PageOK, Pages
  <2> QED
    BY <1>1, <2>1 DEF Connect, Keeps
<1>2. CASE p.session # NoSession /\ IsOpen(p) /\ ~forceReconnect
  <2>1. Connect(p, forceReconnect) = p /\ p.made \in Nat
    BY <1>2 DEF Connect, PageOK, Pages
  <2> QED
    BY <1>2, <2>1 DEF SameView, Keeps
<1>3. CASE p.session # NoSession /\ ~(IsOpen(p) /\ ~forceReconnect)
  <2> DEFINE c == CloseSocket(p)
             q == OpenSocket(c)
  <2>1. Connect(p, forceReconnect) = q
    BY <1>3 DEF Connect
  <2>2. PageOK(c) /\ SameView(p, c) /\ Keeps(p, c)
    BY CloseSocketOK, CloseSocketKeeps
  <2>3. c.session \in Sessions
    BY <1>3, <2>2 DEF SameView, PageOK, Pages, SessionOrNone
  <2> HIDE DEF c
  <2>4. PageOK(q) /\ SameView(c, q) /\ Keeps(c, q) /\ Bound(q)
    BY <2>2, <2>3, OpenSocketOK, OpenSocketKeeps
  <2> HIDE DEF q
  <2>5. SameView(p, q)
    BY <2>2, <2>4 DEF SameView
  <2>6. p.made \in Nat /\ c.made \in Nat /\ q.made \in Nat
    BY <2>2, <2>4 DEF PageOK, Pages
  <2>7. Keeps(p, q)
    BY <2>2, <2>4, <2>6, KeepsOn
  <2> QED
    BY <2>1, <2>4, <2>5, <2>7
<1> QED
  BY <1>1, <1>2, <1>3

LEMMA DisconnectKeeps ==
    ASSUME NEW p, PageOK(p)
    PROVE  LET q == Disconnect(p)
           IN  /\ q.session = p.session /\ q.messages = p.messages /\ q.draft \in {p.draft, NoDraft}
               /\ q.entered = p.entered /\ q.history = p.history /\ ~q.entering
               /\ Keeps(p, q) /\ q.socket = 0
<1> DEFINE q == [p EXCEPT !.timer = FALSE, !.entering = FALSE]
           c == CloseSocket(q)
           d == [c EXCEPT !.status = "disconnected", !.draft = NoDraft]
<1>1. /\ q \in Pages /\ q.socket = p.socket /\ q.made = p.made /\ q.link = p.link
      /\ q.session = p.session /\ q.messages = p.messages /\ q.draft = p.draft
      /\ q.entered = p.entered /\ q.history = p.history /\ q.entering = FALSE
  BY DEF PageOK, Pages
<1>2. Disconnect(p) = IF q.socket = 0 THEN q ELSE d
  BY DEF Disconnect
<1> HIDE DEF q
<1>3. PageOK(q) /\ p.made \in Nat
  BY <1>1, SocketsUntouched DEF PageOK, Pages
<1>4. PageOK(c) /\ SameView(q, c) /\ Keeps(q, c) /\ c.socket = 0
  BY <1>3, CloseSocketOK, CloseSocketKeeps
<1> HIDE DEF c
<1>5. /\ d.socket = 0 /\ d.made = c.made /\ d.link = c.link /\ d.draft = NoDraft
      /\ d.session = c.session /\ d.messages = c.messages
      /\ d.entered = c.entered /\ d.history = c.history /\ d.entering = c.entering
  BY <1>4 DEF PageOK, Pages
<1> HIDE DEF d
<1>6. Keeps(p, q)
  BY <1>1, <1>3 DEF Keeps
<1>7. Keeps(p, d)
  BY <1>1, <1>4, <1>5 DEF Keeps
<1>8. CASE q.socket = 0
  BY <1>1, <1>2, <1>6, <1>8
<1>9. CASE q.socket # 0
  <2>1. SameView(q, c)
    BY <1>4
  <2> QED
    BY <1>1, <1>2, <1>5, <1>7, <1>9, <2>1 DEF SameView
<1> QED
  BY <1>8, <1>9

\* The items of a session, which keep it.
SaidIn(s) == {k \in DOMAIN said : said[k].session = s}

\* Unless the panel was used, what is shown and the link are of the session.
Shown(p) ==
    /\ p.messages \subseteq SaidIn(p.session)
    /\ \A j \in DOMAIN p.draft.text : p.draft.text[j] \in SaidIn(p.session)
Fits(p, told) == told => Shown(p) /\ Bound(p)

LEMMA NothingShown ==
    ASSUME NEW p, p.messages = {}, p.draft = NoDraft
    PROVE  Shown(p)
  BY DEF Shown, NoDraft

LEMMA SameShown ==
    ASSUME NEW p, Shown(p), NEW q,
           q.session = p.session, q.messages = p.messages, q.draft = p.draft
    PROVE  Shown(q)
  BY DEF Shown

LEMMA SameFits ==
    ASSUME NEW p, NEW told \in BOOLEAN, Fits(p, told), NEW q,
           q.session = p.session, q.messages = p.messages, q.draft = p.draft,
           q.socket = p.socket, q.link = p.link
    PROVE  Fits(q, told)
  BY SameShown DEF Fits, Bound

LEMMA ChangeFits ==
    ASSUME NEW p, PageOK(p), NEW told \in BOOLEAN, Fits(p, told), NEW s \in Sessions
    PROVE  LET q == ChangeSession(p, s)
           IN  /\ Fits(q, told) /\ Keeps(p, q)
               /\ q.session = s /\ q.history = p.history /\ q.resolved = p.resolved
               /\ q.entered = p.entered /\ q.entering = p.entering
<1> DEFINE m == [p EXCEPT !.session = s, !.messages = {}, !.draft = NoDraft]
           q == Connect(m, TRUE)
<1>1. NoDraft \in Drafts
  BY DEF NoDraft, Drafts
<1>2. /\ m \in Pages /\ m.socket = p.socket /\ m.made = p.made /\ m.link = p.link
      /\ m.session = s /\ m.messages = {} /\ m.draft = NoDraft /\ m.history = p.history
      /\ m.resolved = p.resolved /\ m.entered = p.entered /\ m.entering = p.entering
  BY <1>1 DEF PageOK, Pages, SessionOrNone
<1>3. ChangeSession(p, s) = IF p.session = s THEN p ELSE q
  BY DEF ChangeSession
<1> HIDE DEF m
<1>4. PageOK(m) /\ Shown(m)
  BY <1>2, SocketsUntouched, NothingShown
<1>5. SameView(m, q) /\ Keeps(m, q) /\ Bound(q)
  BY <1>2, <1>4, ConnectKeeps, ClientSessionAssumption
<1> HIDE DEF q
<1>6. Shown(q)
  BY <1>4, <1>5, SameShown DEF SameView
<1>7. Keeps(p, q)
  BY <1>2, <1>5 DEF Keeps
<1>8. CASE p.session = s
  <2>1. ChangeSession(p, s) = p /\ p.made \in Nat
    BY <1>3, <1>8 DEF PageOK, Pages
  <2> QED
    BY <1>8, <2>1 DEF Keeps
<1>9. CASE p.session # s
  BY <1>2, <1>3, <1>5, <1>6, <1>7, <1>9 DEF SameView, Fits
<1> QED
  BY <1>8, <1>9

LEMMA FinalizeFits ==
    ASSUME NEW p, PageOK(p), NEW told \in BOOLEAN, Fits(p, told), NEW s \in Sessions
    PROVE  LET q == FinalizeEnterChatMode(p, s)
           IN  /\ Fits(q, told) /\ Keeps(p, q)
               /\ q.session = s /\ q.history = p.history
               /\ q.entered /\ ~q.entering
<1> DEFINE m == [p EXCEPT !.timer = FALSE, !.resolved = TRUE, !.pending = NoSession]
           r == ChangeSession(m, s)
           t == [r EXCEPT !.entered = TRUE, !.entering = FALSE]
<1>1. /\ m \in Pages /\ m.socket = p.socket /\ m.made = p.made /\ m.link = p.link
      /\ m.session = p.session /\ m.messages = p.messages /\ m.draft = p.draft
      /\ m.history = p.history
  BY DEF PageOK, Pages, SessionOrNone
<1>2. FinalizeEnterChatMode(p, s) = t
  BY DEF FinalizeEnterChatMode
<1> HIDE DEF m
<1>3. PageOK(m) /\ Fits(m, told)
  BY <1>1, SocketsUntouched, SameFits
<1>4. PageOK(r) /\ Fits(r, told) /\ Keeps(m, r) /\ r.session = s /\ r.history = m.history
  BY <1>3, ChangeSessionOK, ChangeFits DEF SessionOrNone
<1> HIDE DEF r
<1>5. /\ t.socket = r.socket /\ t.made = r.made /\ t.link = r.link
      /\ t.session = r.session /\ t.messages = r.messages /\ t.draft = r.draft
      /\ t.history = r.history /\ t.entered = TRUE /\ t.entering = FALSE
  BY <1>4 DEF PageOK, Pages
<1> HIDE DEF t
<1>6. Fits(t, told)
  BY <1>4, <1>5, SameFits
<1>7. Keeps(p, t)
  BY <1>1, <1>4, <1>5 DEF Keeps
<1> QED
  BY <1>1, <1>2, <1>4, <1>5, <1>6, <1>7

\* The list decides if it holds a session, and the session that was made for
\* the entry if it is empty.
LEMMA ResolveFits ==
    ASSUME NEW p, PageOK(p), NEW told \in BOOLEAN, Fits(p, told), Entering(p)
    PROVE  LET q == ResolveInitialSessionOnEnter(p)
           IN  /\ Fits(q, told) /\ Keeps(p, q) /\ q.history = p.history
               /\ \/ /\ q = p
                     /\ p.entering /\ ~p.resolved => p.history = <<>> /\ ~p.listLoaded
                  \/ /\ p.entering /\ q.entered /\ ~q.entering
                     /\ q.session = IF p.history # <<>> THEN Head(p.history) ELSE p.pending
<1>1. p.history # <<>> => Head(p.history) \in Sessions
  BY ClientSessionAssumption DEF PageOK, Pages
<1>2. /\ p.entering \in BOOLEAN /\ p.resolved \in BOOLEAN /\ p.listLoaded \in BOOLEAN
      /\ p.made \in Nat
  BY DEF PageOK, Pages
<1>3. Keeps(p, p)
  BY <1>2 DEF Keeps
<1>4. CASE ~p.entering \/ p.resolved
  BY <1>2, <1>3, <1>4 DEF ResolveInitialSessionOnEnter
<1>5. CASE p.entering /\ ~p.resolved /\ p.history # <<>>
  <2>1. ResolveInitialSessionOnEnter(p) = FinalizeEnterChatMode(p, Head(p.history))
    BY <1>5 DEF ResolveInitialSessionOnEnter
  <2> QED
    BY <1>1, <1>5, <2>1, FinalizeFits
<1>6. CASE p.entering /\ ~p.resolved /\ p.history = <<>> /\ p.listLoaded
  <2>1. ResolveInitialSessionOnEnter(p) = FinalizeEnterChatMode(p, p.pending) /\ p.pending \in Sessions
    BY <1>6 DEF ResolveInitialSessionOnEnter, Entering
  <2> QED
    BY <1>6, <2>1, FinalizeFits
<1>7. CASE p.entering /\ ~p.resolved /\ p.history = <<>> /\ ~p.listLoaded
  BY <1>2, <1>3, <1>7 DEF ResolveInitialSessionOnEnter
<1> QED
  BY <1>2, <1>4, <1>5, <1>6, <1>7

Settled(p) ==
    /\ p.entering /\ ~p.resolved => p.history = <<>>
    /\ p.entered => ~p.entering

\* How the page may be entered, or change its session once it is.
Settles(p, q) ==
    /\ ~p.entered /\ q.entered =>
         q.session = IF q.history # <<>> THEN Head(q.history) ELSE p.pending
    /\ p.entered /\ q.entered => q.session = p.session

\* An item that an event carries is of session s.
ItemOf(e, s) == e.type \in {"received", "stream", "end"} => e.item \in SaidIn(s)

\* Any event of a link but its connect and its bye.
LEMMA HandleFits ==
    ASSUME NEW p, PageOK(p), NEW told \in BOOLEAN, Fits(p, told), Entering(p), Settled(p),
           NEW e \in Event, e.type \notin {"connect", "bye"},
           told => ItemOf(e, p.session)
    PROVE  LET q == Handle(p, e)
           IN  Fits(q, told) /\ Keeps(p, q) /\ Settled(q) /\ Settles(p, q)
<1> DEFINE h == Handle(p, e)
<1>0. p.made \in Nat /\ p.entered \in BOOLEAN /\ p.entering \in BOOLEAN
  BY DEF PageOK, Pages
<1>1. CASE e.type = "list"
  <2> DEFINE q == [p EXCEPT !.history = e.list, !.listLoaded = TRUE]
             r == ResolveInitialSessionOnEnter(q)
  <2>1. e.list \in Lists
    BY <1>1 DEF Event
  <2>2. /\ q \in Pages /\ q.socket = p.socket /\ q.made = p.made /\ q.link = p.link
        /\ q.session = p.session /\ q.messages = p.messages /\ q.draft = p.draft
        /\ q.entering = p.entering /\ q.pending = p.pending /\ q.entered = p.entered
        /\ q.resolved = p.resolved /\ q.listLoaded
    BY <2>1 DEF PageOK, Pages
  <2>3. h = r
    BY <1>1 DEF Handle
  <2> HIDE DEF q
  <2>4. PageOK(q) /\ Fits(q, told) /\ Entering(q)
    BY <2>2, SocketsUntouched, SameFits DEF Entering
  <2>5. /\ Fits(r, told) /\ Keeps(q, r) /\ r.history = q.history
        /\ \/ /\ r = q
              /\ q.entering /\ ~q.resolved => q.history = <<>> /\ ~q.listLoaded
           \/ /\ q.entering /\ r.entered /\ ~r.entering
              /\ r.session = IF q.history # <<>> THEN Head(q.history) ELSE q.pending
    BY <2>4, ResolveFits
  <2> HIDE DEF r, h
  <2>6. Keeps(p, r)
    BY <2>2, <2>5 DEF Keeps
  <2>7. CASE r = q
    BY <2>2, <2>3, <2>5, <2>6, <2>7 DEF Settled, Settles, h
  <2>8. CASE /\ q.entering /\ r.entered /\ ~r.entering
             /\ r.session = IF q.history # <<>> THEN Head(q.history) ELSE q.pending
    BY <2>2, <2>3, <2>5, <2>6, <2>8 DEF Settled, Settles, h
  <2> QED
    BY <2>5, <2>7, <2>8
<1>2. CASE e.type # "list"
  <2>1. e.type \in {"received", "stream", "end"}
    BY <1>2 DEF Event
  <2>2. /\ h.socket = p.socket /\ h.link = p.link /\ h.made = p.made /\ h.session = p.session
        /\ h.entering = p.entering /\ h.pending = p.pending /\ h.entered = p.entered
        /\ h.resolved = p.resolved /\ h.history = p.history
    BY <2>1 DEF Handle, PageOK, Pages
  <2>3. p.draft \in Drafts /\ p.draft.text \in Seq(Items)
    BY DEF PageOK, Pages, Drafts
  <2>4. ASSUME told PROVE Shown(h)
    <3>1. Shown(p) /\ e.item \in SaidIn(p.session)
      BY <2>1, <2>4 DEF Fits, ItemOf
    <3>2. CASE e.type = "received"
      <4>1. h.messages = p.messages \union {e.item} /\ h.draft = p.draft
        BY <3>2 DEF Handle, PageOK, Pages
      <4> QED
        BY <2>2, <3>1, <4>1 DEF Shown
    <3>3. CASE e.type = "stream"
      <4>1. h.messages = p.messages /\ h.draft.text = Append(p.draft.text, e.item)
        BY <3>3 DEF Handle, PageOK, Pages
      <4>2. \A j \in DOMAIN h.draft.text : h.draft.text[j] = e.item \/
                (j \in DOMAIN p.draft.text /\ h.draft.text[j] = p.draft.text[j])
        BY <2>3, <4>1
      <4> QED
        BY <2>2, <3>1, <4>1, <4>2 DEF Shown
    <3>4. CASE e.type = "end"
      <4>1. h.messages = p.messages /\ h.draft.text \in {p.draft.text, <<e.item>>}
        BY <3>4 DEF Handle, PageOK, Pages
      <4>2. \A j \in DOMAIN <<e.item>> : <<e.item>>[j] = e.item
        OBVIOUS
      <4> QED
        BY <2>2, <3>1, <4>1, <4>2 DEF Shown
    <3> QED
      BY <2>1, <3>2, <3>3, <3>4
  <2> HIDE DEF h
  <2>5. Fits(h, told)
    BY <2>2, <2>4 DEF Fits, Bound
  <2>6. Keeps(p, h) /\ Settled(h) /\ Settles(p, h)
    BY <1>0, <2>2 DEF Keeps, Settled, Settles
  <2> QED
    BY <2>5, <2>6 DEF h
<1> QED
  BY <1>1, <1>2

\* A client has the session of its link, and what is on its way to it is of
\* that session.
ClientsBound ==
    \A c \in Clients : client[c].link # 0 =>
        client[c].link <= page.made /\ page.link[client[c].link].session = client[c].session
InFlightBound ==
    \A c \in Clients : \A j \in 1 .. Len(inbox[c]) : ItemOf(inbox[c][j], client[c].session)
Viewed == Fits(page, ~panelled) /\ Settled(page) /\ ClientsBound /\ InFlightBound

\* A step that changes the page and nothing but the inboxes, which it may empty.
LEMMA PageSteps ==
    ASSUME Types, Viewed, NEW q, PageOK(q), NEW box \in [Clients -> Seq(Event)], Becomes(q, box),
           \A c \in Clients : box[c] = inbox[c] \/ (inbox[c] # <<>> /\ box[c] = Tail(inbox[c])),
           Fits(q, ~panelled'), Keeps(page, q), Settled(q), UNCHANGED <<client, said>>
    PROVE  Viewed'
<1>1. page' = q
  BY DEF Becomes
<1>2. Fits(page, ~panelled)' /\ Settled(page)'
  BY <1>1 DEF Fits, Shown, Bound, SaidIn, Settled
<1>3. ClientsBound'
  <2> SUFFICES ASSUME NEW c \in Clients, client[c].link # 0
               PROVE  client[c].link <= q.made /\ q.link[client[c].link].session = client[c].session
    BY <1>1 DEF ClientsBound
  <2>1. client[c].link \in Links /\ client[c].link <= page.made
        /\ page.link[client[c].link].session = client[c].session
    BY DEF Viewed, ClientsBound, Types, ClientRecords, Links
  <2>2. page.made \in Nat /\ q.made \in Nat /\ page.made <= q.made
    BY DEF Keeps, Types, PageOK, Pages
  <2>3. q.link[client[c].link].session = client[c].session
    BY <2>1 DEF Keeps
  <2> QED
    BY <2>1, <2>2, <2>3 DEF Links
<1>4. InFlightBound'
  <2> SUFFICES ASSUME NEW c \in Clients, NEW j \in 1 .. Len(inbox'[c])
               PROVE  ItemOf(inbox'[c][j], client[c].session)
    BY DEF InFlightBound, ItemOf, SaidIn
  <2>1. inbox[c] \in Seq(Event) /\ inbox'[c] \in {<<>>, box[c]}
    BY DEF Types, Becomes
  <2>b. \A d \in Seq(Event) : d # <<>> =>
           Len(Tail(d)) = Len(d) - 1 /\ Len(d) \in Nat /\ \A k \in 1 .. Len(Tail(d)) : Tail(d)[k] = d[k + 1]
    OBVIOUS
  <2>2. \E k \in 1 .. Len(inbox[c]) : inbox'[c][j] = inbox[c][k]
    <3>1. CASE inbox'[c] = <<>>
      BY <3>1
    <3>2. CASE inbox'[c] = inbox[c]
      BY <3>2
    <3>3. CASE inbox[c] # <<>> /\ inbox'[c] = Tail(inbox[c])
      <4>1. j \in 1 .. Len(Tail(inbox[c])) /\ j + 1 \in 1 .. Len(inbox[c])
        BY <2>1, <2>b, <3>3
      <4> QED
        BY <2>1, <2>b, <3>3, <4>1
    <3> QED
      BY <2>1, <3>1, <3>2, <3>3
  <2> QED
    BY <2>2 DEF Viewed, InFlightBound, ItemOf, SaidIn
<1> QED
  BY <1>2, <1>3, <1>4 DEF Viewed

\* A step that says something, and leaves the page alone.
LEMMA MoreSaid ==
    ASSUME Viewed, UNCHANGED <<page, client, inbox, panelled>>,
           \A s : SaidIn(s) \subseteq SaidIn(s)'
    PROVE  Viewed'
<1>1. Fits(page, ~panelled)'
  BY DEF Viewed, Fits, Shown, Bound
<1>2. InFlightBound'
  BY DEF Viewed, InFlightBound, ItemOf
<1> QED
  BY <1>1, <1>2 DEF Viewed, ClientsBound, Settled

LEMMA ViewedUser ==
    ASSUME Types, Plugged, Viewed, User \/ TimerFires
    PROVE  Viewed' /\ ((\E s \in SessionOrNone : PickSession(s) \/ HandleConnect(s)) \/ Settles(page, page'))
<1>0. /\ PageOK(page) /\ Fits(page, ~panelled) /\ Settled(page) /\ Entering(page)
      /\ inbox \in [Clients -> Seq(Event)] /\ page.made \in Nat /\ (~panelled) \in BOOLEAN
      /\ page.entered \in BOOLEAN /\ page.entering \in BOOLEAN /\ page.history \in Lists \union {<<>>}
      /\ page.session \in SessionOrNone
  BY DEF Types, Viewed, Plugged, PageOK, Pages
\* A step of the user on the page alone.
<1>a. ASSUME NEW q, PageOK(q), Becomes(q, inbox), Fits(q, ~panelled'), Keeps(page, q), Settled(q),
             UNCHANGED <<client, said>>
      PROVE  Viewed' /\ page' = q
  BY <1>0, <1>a, PageSteps DEF Becomes
<1>1. ASSUME NEW s \in Sessions, EnterChatMode(s) PROVE Viewed' /\ Settles(page, page')
  <2> DEFINE m == [page EXCEPT !.pending = s, !.entering = TRUE, !.listLoaded = FALSE,
                               !.resolved = FALSE, !.session = s, !.messages = {},
                               !.draft = NoDraft]
             r == Connect(m, TRUE)
             t == [r EXCEPT !.timer = TRUE]
             q == ResolveInitialSessionOnEnter(t)
  <2>1. NoDraft \in Drafts /\ s \in SessionOrNone /\ s # NoSession
    BY ClientSessionAssumption DEF NoDraft, Drafts, SessionOrNone
  <2>2. /\ m \in Pages /\ m.socket = page.socket /\ m.made = page.made /\ m.link = page.link
        /\ m.session = s /\ m.messages = {} /\ m.draft = NoDraft /\ m.history = page.history
        /\ m.entered = page.entered /\ m.entering /\ ~m.resolved /\ ~m.listLoaded /\ m.pending = s
        /\ m.status = page.status
    BY <1>0, <2>1 DEF PageOK, Pages
  <2>3. /\ Becomes(q, inbox) /\ panelled' = panelled /\ UNCHANGED <<client, said>>
        /\ ~page.entered
    BY <1>1 DEF EnterChatMode
  <2> HIDE DEF m
  <2>4. PageOK(m) /\ Shown(m)
    BY <1>0, <2>2, SocketsUntouched, NothingShown
  <2>5. PageOK(r) /\ SameView(m, r) /\ Keeps(m, r) /\ Bound(r)
    BY <2>1, <2>2, <2>4, ConnectOK, ConnectKeeps
  <2>6. Fits(r, ~panelled)
    BY <2>4, <2>5, SameShown DEF SameView, Fits
  <2> HIDE DEF r
  <2>7. /\ t \in Pages /\ t.socket = r.socket /\ t.made = r.made /\ t.link = r.link /\ t.status = r.status
        /\ t.session = r.session /\ t.messages = r.messages /\ t.draft = r.draft
        /\ t.entering = r.entering /\ t.pending = r.pending /\ t.history = r.history
        /\ t.resolved = r.resolved /\ t.listLoaded = r.listLoaded /\ t.entered = r.entered
    BY <2>5 DEF PageOK, Pages
  <2> HIDE DEF t
  <2>8. PageOK(t) /\ Fits(t, ~panelled)
    BY <1>0, <2>5, <2>6, <2>7, SocketsUntouched, SameFits
  <2>9. /\ t.history = page.history /\ t.entered = page.entered /\ t.entering /\ ~t.resolved
        /\ ~t.listLoaded /\ t.pending = s /\ Keeps(page, t)
    BY <2>2, <2>5, <2>7 DEF SameView, Keeps
  <2>10. Entering(t)
    BY <2>9 DEF Entering
  <2>11. /\ Fits(q, ~panelled) /\ Keeps(t, q) /\ q.history = t.history
         /\ \/ q = t /\ t.history = <<>>
            \/ /\ q.entered /\ ~q.entering
               /\ q.session = IF t.history # <<>> THEN Head(t.history) ELSE t.pending
    BY <1>0, <2>8, <2>9, <2>10, ResolveFits
  <2>12. PageOK(q)
    BY <2>8, ResolveOK
  <2>13. q # t => t.history # <<>>
    BY <2>9 DEF q, ResolveInitialSessionOnEnter
  <2> HIDE DEF q
  <2>14. Keeps(page, q)
    BY <1>0, <2>8, <2>9, <2>11, <2>12, KeepsOn DEF PageOK, Pages
  <2>15. Settled(q) /\ Settles(page, q)
    BY <1>0, <2>3, <2>9, <2>11, <2>13 DEF Settled, Settles
  <2> QED
    BY <1>a, <2>3, <2>11, <2>12, <2>14, <2>15
<1>2. ASSUME NEW s \in Sessions, PickSession(s) PROVE Viewed'
  <2> DEFINE q == ChangeSession(page, s)
  <2>1. PageOK(q)
    BY <1>0, ChangeSessionOK DEF SessionOrNone
  <2>2. /\ Fits(q, ~panelled) /\ Keeps(page, q)
        /\ q.history = page.history /\ q.resolved = page.resolved
        /\ q.entered = page.entered /\ q.entering = page.entering
    BY <1>0, ChangeFits
  <2>3. Becomes(q, inbox) /\ panelled' = panelled /\ UNCHANGED <<client, said>>
    BY <1>2 DEF PickSession
  <2> HIDE DEF q
  <2>4. Settled(q)
    BY <1>0, <2>2 DEF Settled
  <2> QED
    BY <1>a, <2>1, <2>2, <2>3, <2>4
<1>3. ASSUME NEW s \in SessionOrNone, HandleConnect(s) PROVE Viewed'
  <2> DEFINE m == [page EXCEPT !.session = s]
             q == Connect(m, FALSE)
  <2>1. /\ m \in Pages /\ m.socket = page.socket /\ m.made = page.made /\ m.link = page.link
        /\ m.entered = page.entered /\ m.entering = page.entering
        /\ m.resolved = page.resolved /\ m.history = page.history
    BY <1>0 DEF PageOK, Pages
  <2>2. Becomes(q, inbox) /\ panelled' = TRUE /\ UNCHANGED <<client, said>>
    BY <1>3 DEF HandleConnect
  <2> HIDE DEF m
  <2>3. PageOK(m)
    BY <1>0, <2>1, SocketsUntouched
  <2>4. PageOK(q) /\ SameView(m, q) /\ Keeps(m, q)
    BY <2>3, ConnectOK, ConnectKeeps
  <2> HIDE DEF q
  <2>5. Settled(q) /\ Keeps(page, q)
    BY <1>0, <2>1, <2>4 DEF Settled, SameView, Keeps
  <2> QED
    BY <1>a, <2>2, <2>4, <2>5 DEF Fits
<1>4. ASSUME PanelDisconnect PROVE Viewed' /\ Settles(page, page')
  <2> DEFINE q == Disconnect(page)
  <2>1. PageOK(q) /\ Becomes(q, inbox) /\ panelled' = panelled /\ UNCHANGED <<client, said>>
    BY <1>0, <1>4, DisconnectOK DEF PanelDisconnect
  <2>2. /\ q.session = page.session /\ q.messages = page.messages /\ q.draft \in {page.draft, NoDraft}
        /\ q.entered = page.entered /\ q.history = page.history /\ ~q.entering
        /\ Keeps(page, q) /\ q.socket = 0
    BY <1>0, DisconnectKeeps
  <2> HIDE DEF q
  <2>3. Shown(page) => Shown(q)
    BY <2>2 DEF Shown, NoDraft
  <2>4. Fits(q, ~panelled) /\ Settled(q) /\ Settles(page, q)
    BY <1>0, <2>2, <2>3 DEF Fits, Bound, Links, Settled, Settles
  <2> QED
    BY <1>a, <2>1, <2>2, <2>4
<1>5. ASSUME Reload PROVE Viewed' /\ Settles(page, page')
  <2> DEFINE d == Disconnect(page)
             q == [NewPage EXCEPT !.made = page.made, !.link = d.link]
  <2>1. PageOK(d) /\ Keeps(page, d)
    BY <1>0, DisconnectOK, DisconnectKeeps
  <2>2. Becomes(q, inbox) /\ panelled' = FALSE /\ UNCHANGED <<client, said>>
    BY <1>5 DEF Reload
  <2>3. PageOK(page')
    BY <1>5, TypesUser DEF User, Types
  <2>4. page' = q
    BY <2>2 DEF Becomes
  <2>5. /\ q.made = page.made /\ q.link = d.link /\ q.socket = 0 /\ q.messages = {} /\ q.draft = NoDraft
        /\ ~q.entered /\ ~q.entering /\ q.session = NoSession
    BY DEF NewPage
  <2>6. Keeps(page, q)
    BY <1>0, <2>1, <2>5 DEF Keeps
  <2> HIDE DEF q
  <2>7. Fits(q, ~panelled') /\ Settled(q)
    BY <2>5, NothingShown DEF Fits, Bound, Links, Settled
  <2>8. page.entered => ~q.entered
    BY <2>5
  <2>9. Viewed'
    BY <1>a, <2>2, <2>3, <2>4, <2>6, <2>7
  <2> QED
    BY <2>4, <2>5, <2>9 DEF Settles
<1>6. ASSUME TimerFires PROVE Viewed' /\ Settles(page, page')
  <2> DEFINE n == [page EXCEPT !.timer = FALSE]
             f == FinalizeEnterChatMode(page, page.pending)
  <2>1. /\ n \in Pages /\ n.socket = page.socket /\ n.made = page.made /\ n.link = page.link
        /\ n.session = page.session /\ n.messages = page.messages /\ n.draft = page.draft
        /\ n.entered = page.entered /\ n.entering = page.entering
        /\ n.resolved = page.resolved /\ n.history = page.history
    BY <1>0 DEF PageOK, Pages
  <2>2. /\ page.timer /\ panelled' = panelled /\ UNCHANGED <<client, said>>
        /\ Becomes(IF ~page.entering \/ page.resolved THEN n ELSE f, inbox)
    BY <1>6 DEF TimerFires
  <2> HIDE DEF n
  <2>3. CASE ~page.entering \/ page.resolved
    <3>1. PageOK(n) /\ Fits(n, ~panelled)
      BY <1>0, <2>1, SocketsUntouched, SameFits
    <3>2. Keeps(page, n) /\ Settled(n) /\ Settles(page, n)
      BY <1>0, <2>1 DEF Keeps, Settled, Settles
    <3> QED
      BY <1>a, <2>2, <2>3, <3>1, <3>2
  <2>4. CASE ~(~page.entering \/ page.resolved)
    <3>1. page.entering /\ page.pending \in Sessions /\ page.history = <<>> /\ ~page.entered
      BY <1>0, <2>4 DEF Entering, Settled
    <3>2. /\ Fits(f, ~panelled) /\ Keeps(page, f) /\ PageOK(f)
          /\ f.session = page.pending /\ f.history = page.history /\ f.entered /\ ~f.entering
      BY <1>0, <3>1, FinalizeFits, FinalizeOK DEF SessionOrNone
    <3> HIDE DEF f
    <3>3. Settled(f) /\ Settles(page, f)
      BY <3>1, <3>2 DEF Settled, Settles
    <3> QED
      BY <1>a, <2>2, <2>4, <3>2, <3>3
  <2> QED
    BY <2>3, <2>4
<1>7. ASSUME SendMessage PROVE Viewed' /\ Settles(page, page')
  <2>1. UNCHANGED <<page, client, inbox, panelled>> /\ \E m : said' = Append(said, m)
    BY <1>7 DEF SendMessage
  <2>2. said \in Seq(SaidRecords)
    BY DEF Types
  <2>3. \A s : SaidIn(s) \subseteq SaidIn(s)'
    BY <2>1, <2>2 DEF SaidIn
  <2> QED
    BY <1>0, <2>1, <2>3, MoreSaid DEF Settles
<1> QED
  BY <1>1, <1>2, <1>3, <1>4, <1>5, <1>6, <1>7 DEF User, SessionOrNone

\* A step of a link that tells the page of its state.
LEMMA LinkSteps ==
    ASSUME Types, NEW i \in Links, NEW state \in {"open", "waiting", "kicked", "opening"},
           NEW status \in Statuses, NEW told \in BOOLEAN, Fits(page, told), Settled(page)
    PROVE  LET q == [Moves(i, state) EXCEPT !.status = status]
           IN Fits(q, told) /\ Keeps(page, q) /\ Settled(q) /\ Settles(page, q) /\ q.made = page.made
<1> DEFINE l == [page.link EXCEPT ![i] = [@ EXCEPT !.state = state]]
           m == [page EXCEPT !.link = l]
           q == [m EXCEPT !.status = status]
<1>1. PageOK(page) /\ page.made \in Nat /\ page.entered \in BOOLEAN
  BY DEF Types, PageOK, Pages
<1>2. Moves(i, state) = m
  BY DEF Moves
<1>3. \A j \in Links : l[j].session = page.link[j].session
  BY <1>1 DEF PageOK, Pages, LinkRecords
<1> HIDE DEF l
<1>4. /\ q.socket = page.socket /\ q.link = l /\ q.made = page.made
      /\ q.session = page.session /\ q.messages = page.messages /\ q.draft = page.draft
      /\ q.entered = page.entered /\ q.entering = page.entering
      /\ q.resolved = page.resolved /\ q.history = page.history
  BY <1>1 DEF PageOK, Pages
<1> HIDE DEF q
<1>5. Shown(page) => Shown(q)
  BY <1>4, SameShown
<1>6. Fits(q, told) /\ Keeps(page, q)
  BY <1>1, <1>3, <1>4, <1>5 DEF Fits, Bound, Keeps
<1>7. Settled(q) /\ Settles(page, q)
  BY <1>1, <1>4 DEF Settled, Settles
<1> QED
  BY <1>2, <1>4, <1>6, <1>7 DEF q

\* A step that leaves the page alone, and the sessions and links of clients.
LEMMA ClientSteps ==
    ASSUME Viewed, UNCHANGED <<page, panelled>>,
           \A s : SaidIn(s) \subseteq SaidIn(s)',
           \A c \in Clients : client'[c].link = client[c].link /\ client'[c].session = client[c].session,
           \A c \in Clients : \A j \in 1 .. Len(inbox'[c]) :
              \/ j \in 1 .. Len(inbox[c]) /\ inbox'[c][j] = inbox[c][j]
              \/ inbox'[c][j].type \notin {"received", "stream", "end"}
              \/ inbox'[c][j].item \in SaidIn(client[c].session)'
    PROVE  Viewed'
<1>1. Fits(page, ~panelled)' /\ Settled(page)'
  BY DEF Viewed, Fits, Shown, Bound, Settled
<1>2. ClientsBound'
  BY DEF Viewed, ClientsBound
<1>3. InFlightBound'
  BY DEF Viewed, InFlightBound, ItemOf, SaidIn
<1> QED
  BY <1>1, <1>2, <1>3 DEF Viewed

LEMMA ViewedNetwork ==
    ASSUME Types, Plugged, Viewed, Network
    PROVE  Viewed' /\ Settles(page, page')
<1>0. /\ PageOK(page) /\ Fits(page, ~panelled) /\ Settled(page) /\ Entering(page)
      /\ inbox \in [Clients -> Seq(Event)] /\ client \in [Clients -> ClientRecords]
      /\ page.made \in Nat /\ page.made <= MaxLinks /\ (~panelled) \in BOOLEAN /\ page.entered \in BOOLEAN
  BY DEF Types, Viewed, Plugged, PageOK, Pages
\* A link that is not closed is that of the socket, and is listened to.
<1>a. ASSUME NEW i \in Links, page.link[i].state \in Trying PROVE i = page.socket /\ page.link[i].heard
  BY <1>a DEF Plugged, Sockets, Trying
<1>b. ASSUME NEW i \in Links, NEW state \in {"open", "waiting", "kicked", "opening"},
             NEW status \in Statuses, page' = [Moves(i, state) EXCEPT !.status = status],
             UNCHANGED <<client, inbox, said, panelled>>
      PROVE  Viewed' /\ Settles(page, page')
  <2>1. Fits(page', ~panelled) /\ Keeps(page, page') /\ Settled(page') /\ Settles(page, page')
        /\ page'.made = page.made
    BY <1>0, <1>b, LinkSteps
  <2>2. Fits(page, ~panelled)' /\ Settled(page)' /\ InFlightBound'
    BY <1>b, <2>1 DEF Viewed, Fits, Shown, Bound, SaidIn, Settled, InFlightBound, ItemOf
  <2>3. ASSUME NEW c \in Clients, client[c].link # 0
        PROVE  client[c].link <= page'.made /\ page'.link[client[c].link].session = client[c].session
    <3>1. client[c].link \in Links
      BY <1>0, <2>3 DEF ClientRecords, Links
    <3> QED
      BY <2>1, <2>3, <3>1 DEF Viewed, ClientsBound, Keeps
  <2> QED
    BY <1>b, <2>1, <2>2, <2>3 DEF Viewed, ClientsBound
<1>1. ASSUME NEW i \in Links, ConnectError(i) PROVE Viewed' /\ Settles(page, page')
  <2>1. i = page.socket /\ page.link[i].heard
    BY <1>1, <1>a DEF ConnectError, Trying
  <2>2. page' = [Moves(i, "waiting") EXCEPT !.status = "error"] /\ UNCHANGED <<client, inbox, said, panelled>>
    BY <1>1, <2>1 DEF ConnectError, Heard
  <2> QED
    BY <1>b, <2>2 DEF Statuses
<1>2. ASSUME NEW i \in Links, Drop(i) PROVE Viewed' /\ Settles(page, page')
  <2>1. i = page.socket /\ page.link[i].heard
    BY <1>2, <1>a DEF Drop, Trying
  <2>2. page' = [Moves(i, "waiting") EXCEPT !.status = "disconnected"] /\ UNCHANGED <<client, inbox, said, panelled>>
    BY <1>2, <2>1 DEF Drop, Heard
  <2> QED
    BY <1>b, <2>2 DEF Statuses
<1>3. ASSUME NEW i \in Links, Attempt(i) PROVE Viewed' /\ Settles(page, page')
  <2>1. page' = [Moves(i, "opening") EXCEPT !.status = "reconnecting"] /\ UNCHANGED <<client, inbox, said, panelled>>
    BY <1>3 DEF Attempt
  <2> QED
    BY <1>b, <2>1 DEF Statuses
<1>4. ASSUME NEW c \in Clients, Cut(c) PROVE Viewed' /\ Settles(page, page')
  <2>1. UNCHANGED <<page, said, panelled>> /\ inbox' = [inbox EXCEPT ![c] = <<>>]
        /\ client' = [client EXCEPT ![c].cut = TRUE]
    BY <1>4 DEF Cut
  <2>2. \A d \in Clients : client'[d].link = client[d].link /\ client'[d].session = client[d].session
    BY <1>0, <2>1 DEF ClientRecords
  <2>3. \A d \in Clients : inbox'[d] = inbox[d] \/ inbox'[d] = <<>>
    BY <1>0, <2>1
  <2>4. \A s : SaidIn(s) \subseteq SaidIn(s)'
    BY <2>1 DEF SaidIn
  <2>5. \A d \in Clients : \A j \in 1 .. Len(inbox'[d]) : j \in 1 .. Len(inbox[d]) /\ inbox'[d][j] = inbox[d][j]
    BY <2>3
  <2>6. Viewed'
    BY <2>1, <2>2, <2>4, <2>5, ClientSteps
  <2> QED
    BY <1>0, <2>1, <2>6 DEF Settles, Settled
<1>5. ASSUME NEW c \in Clients, Deliver(c) PROVE Viewed' /\ Settles(page, page')
  <2> DEFINE i == client[c].link
             e == Head(inbox[c])
             p == CASE e.type = "connect" -> Moves(i, "open")
                    [] e.type = "bye" -> Moves(i, "kicked")
                    [] OTHER -> page
             q == Handle(p, e)
             box == [inbox EXCEPT ![c] = Tail(@)]
  <2>1. i \in Links /\ i # 0 /\ page.link[i].state \in Trying /\ inbox[c] # <<>>
    BY <1>0, <1>5 DEF Deliver, Wired, ClientRecords, Links, Trying
  <2>2. /\ e \in Event /\ box \in [Clients -> Seq(Event)]
        /\ \A d \in Clients : box[d] = inbox[d] \/ (inbox[d] # <<>> /\ box[d] = Tail(inbox[d]))
    BY <1>0, <2>1
  <2>3. i = page.socket /\ page.link[i].heard
    BY <1>a, <2>1
  <2>4. Becomes(q, box) /\ UNCHANGED <<client, said, panelled>>
    BY <1>5, <2>3 DEF Deliver, Heard
  <2>5. page' = q
    BY <2>4 DEF Becomes
  \* What is at the head of the inbox is of the session of the page.
  <2>6. ~panelled => ItemOf(e, page.session)
    <3>1. ItemOf(inbox[c][1], client[c].session)
      BY <1>0, <2>1 DEF Viewed, InFlightBound
    <3>2. ~panelled => page.link[i].session = page.session
      BY <1>0, <2>1, <2>3 DEF Fits, Bound
    <3>3. page.link[i].session = client[c].session
      BY <2>1 DEF Viewed, ClientsBound
    <3>4. e = inbox[c][1]
      BY <1>0, <2>1
    <3> HIDE DEF i, e
    <3> QED
      BY <3>1, <3>2, <3>3, <3>4
  <2>7. PageOK(q) /\ Fits(q, ~panelled) /\ Keeps(page, q) /\ Settled(q) /\ Settles(page, q)
    <3>0. PageOK(page')
      BY <1>5, TypesNetwork DEF Network, Types
    <3> HIDE DEF i, e
    <3>1. CASE e.type = "connect"
      <4>1. q = [Moves(i, "open") EXCEPT !.status = "connected"]
        BY <3>1 DEF Handle
      <4> HIDE DEF q
      <4> QED
        BY <1>0, <2>1, <2>5, <3>0, <4>1, LinkSteps DEF Statuses
    <3>2. CASE e.type = "bye"
      <4>1. q = [Moves(i, "kicked") EXCEPT !.status = "disconnected"]
        BY <3>2 DEF Handle
      <4> HIDE DEF q
      <4> QED
        BY <1>0, <2>1, <2>5, <3>0, <4>1, LinkSteps DEF Statuses
    <3>3. CASE e.type \notin {"connect", "bye"}
      <4>1. q = Handle(page, e)
        BY <3>3
      <4>2. Fits(Handle(page, e), ~panelled) /\ Keeps(page, Handle(page, e))
            /\ Settled(Handle(page, e)) /\ Settles(page, Handle(page, e))
        BY <1>0, <2>2, <2>6, <3>3, HandleFits
      <4> HIDE DEF q
      <4> QED
        BY <2>5, <3>0, <4>1, <4>2
    <3> QED
      BY <3>1, <3>2, <3>3
  <2> HIDE DEF i, e, p, q, box
  <2>8. Fits(q, ~panelled')
    BY <2>4, <2>7
  <2>9. Viewed'
    BY <2>2, <2>4, <2>7, <2>8, PageSteps
  <2> QED
    BY <2>5, <2>7, <2>9
<1> QED
  BY <1>1, <1>2, <1>3, <1>4, <1>5 DEF Network

\* An event to the room of the session that its item is of.
LEMMA BroadcastFits ==
    ASSUME Types, Viewed, NEW s, NEW e \in Event, Broadcast(s, e),
           \A r : SaidIn(r) \subseteq SaidIn(r)', e.item \in SaidIn(s)',
           UNCHANGED <<page, client, panelled>>
    PROVE  Viewed'
<1>1. ASSUME NEW c \in Clients, NEW j \in 1 .. Len(inbox'[c])
      PROVE  \/ j \in 1 .. Len(inbox[c]) /\ inbox'[c][j] = inbox[c][j]
             \/ inbox'[c][j] = e /\ client[c].session = s
  <2>1. inbox[c] \in Seq(Event)
    BY DEF Types
  <2>2. inbox'[c] = IF c \in Room(s) /\ Wired(c) THEN Append(inbox[c], e) ELSE inbox[c]
    BY DEF Broadcast
  <2> QED
    BY <2>1, <2>2 DEF Room
<1>2. SaidIn(s)' = {k \in DOMAIN said' : said'[k].session = s}
  BY DEF SaidIn
<1>3. ASSUME NEW c \in Clients, NEW j \in 1 .. Len(inbox'[c])
      PROVE  \/ j \in 1 .. Len(inbox[c]) /\ inbox'[c][j] = inbox[c][j]
             \/ inbox'[c][j].item \in SaidIn(client[c].session)'
  BY <1>1, <1>2 DEF SaidIn
<1> QED
  BY <1>3, ClientSteps

LEMMA ViewedGateway ==
    ASSUME Types, Plugged, Viewed, Gateway
    PROVE  Viewed' /\ page' = page
<1>0. /\ PageOK(page) /\ page.socket <= page.made /\ page.made \in Nat /\ page.socket \in Nat
      /\ inbox \in [Clients -> Seq(Event)] /\ client \in [Clients -> ClientRecords]
      /\ said \in Seq(SaidRecords)
  BY DEF Types, PageOK, Pages
<1>1. ASSUME NEW i \in Links, NEW c \in Clients, NEW l \in Lists \union {Silent}, HandleConnection(i, c, l)
      PROVE  Viewed' /\ page' = page
  <2>1. /\ client' = [client EXCEPT ![c] = [link |-> i, session |-> page.link[i].session, stage |-> "live",
                                            preparing |-> TRUE, cut |-> FALSE]]
        /\ inbox' = [inbox EXCEPT ![c] = IF l = Silent THEN <<[type |-> "connect"]>>
                                         ELSE <<[type |-> "connect"], [type |-> "list", list |-> l]>>]
        /\ UNCHANGED <<page, said, panelled>> /\ page.link[i].state = "opening"
    BY <1>1 DEF HandleConnection
  <2>2. i = page.socket
    BY <2>1 DEF Plugged, Sockets
  <2>3. ClientsBound'
    BY <1>0, <2>1, <2>2 DEF Viewed, ClientsBound
  <2>4. InFlightBound'
    <3>1. ASSUME NEW j \in 1 .. Len(inbox'[c]) PROVE inbox'[c][j].type \in {"connect", "list"}
      <4>1. inbox'[c] \in {<<[type |-> "connect"]>>, <<[type |-> "connect"], [type |-> "list", list |-> l]>>}
        BY <1>0, <2>1
      <4> QED
        BY <4>1
    <3>2. \A d \in Clients \ {c} : inbox'[d] = inbox[d] /\ client'[d] = client[d]
      BY <1>0, <2>1
    <3> QED
      BY <2>1, <3>1, <3>2 DEF Viewed, InFlightBound, ItemOf, SaidIn
  <2> QED
    BY <2>1, <2>3, <2>4 DEF Viewed, Fits, Shown, Bound, SaidIn, Settled
<1>2. ASSUME NEW c \in Clients, Establish(c) \/ HandleDisconnect(c) PROVE Viewed' /\ page' = page
  <2>1. UNCHANGED <<page, said, panelled>>
    BY <1>2 DEF Establish, HandleDisconnect
  <2>2. \A d \in Clients : client'[d].link = client[d].link /\ client'[d].session = client[d].session
    <3>1. CASE Establish(c)
      BY <1>0, <3>1 DEF Establish, ClientRecords
    <3>2. CASE HandleDisconnect(c)
      BY <1>0, <3>2 DEF HandleDisconnect, ClientRecords
    <3> QED
      BY <1>2, <3>1, <3>2
  <2>3. \A d \in Clients : inbox'[d] = inbox[d] \/ inbox'[d] = <<>>
    BY <1>0, <1>2 DEF Establish, HandleDisconnect
  <2>4. \A s : SaidIn(s) \subseteq SaidIn(s)'
    BY <2>1 DEF SaidIn
  <2>5. \A d \in Clients : \A j \in 1 .. Len(inbox'[d]) : j \in 1 .. Len(inbox[d]) /\ inbox'[d][j] = inbox[d][j]
    BY <2>3
  <2> QED
    BY <2>1, <2>2, <2>4, <2>5, ClientSteps
<1>3. ASSUME NEW s \in Sessions, SessionDeleted(s) PROVE Viewed' /\ page' = page
  <2> DEFINE out == M!GetSessionClients(manager, s)
  <2>1. /\ UNCHANGED <<page, said, panelled>>
        /\ client' = [c \in Clients |-> IF c \in out THEN [client[c] EXCEPT !.stage = "gone"] ELSE client[c]]
        /\ inbox' = [c \in Clients |-> IF c \in out /\ Wired(c)
                                       THEN Append(inbox[c], [type |-> "bye"]) ELSE inbox[c]]
    BY <1>3 DEF SessionDeleted
  <2> HIDE DEF out
  <2>2. \A d \in Clients : client'[d].link = client[d].link /\ client'[d].session = client[d].session
    BY <1>0, <2>1 DEF ClientRecords
  <2>3. \A d \in Clients : inbox[d] \in Seq(Event) /\ inbox'[d] \in {inbox[d], Append(inbox[d], [type |-> "bye"])}
    BY <1>0, <2>1
  <2>4. \A d \in Clients : \A j \in 1 .. Len(inbox'[d]) :
           \/ j \in 1 .. Len(inbox[d]) /\ inbox'[d][j] = inbox[d][j]
           \/ inbox'[d][j].type = "bye"
    BY <2>3
  <2>5. \A r : SaidIn(r) \subseteq SaidIn(r)'
    BY <2>1 DEF SaidIn
  <2>6. Viewed'
    BY <2>1, <2>2, <2>4, <2>5, ClientSteps
  <2> QED
    BY <2>1, <2>6
\* What is said for the first time, and what is announced again.
<1>4. ASSUME NEW s \in Sessions, NEW m, said' = Append(said, m), m.session = s
      PROVE  (\A r : SaidIn(r) \subseteq SaidIn(r)') /\ Len(said) + 1 \in SaidIn(s)'
  BY <1>0, <1>4 DEF SaidIn
<1>5. ASSUME NEW k \in DOMAIN said, said' = [said EXCEPT ![k].state = "done"]
      PROVE  \A r : SaidIn(r) \subseteq SaidIn(r)'
  <2>1. \A j \in DOMAIN said : said[j] \in SaidRecords
    BY <1>0
  <2>2. DOMAIN said' = DOMAIN said /\ \A j \in DOMAIN said : said'[j].session = said[j].session
    BY <1>5, <2>1 DEF SaidRecords
  <2> QED
    BY <2>2 DEF SaidIn
<1>6. ASSUME NEW s \in Sessions, AgentStreams(s) \/ AgentIsSilent(s) PROVE Viewed' /\ page' = page
  <2> DEFINE k == Len(said) + 1
  <2>1. k \in Items
    BY <1>0, <1>6, ClientSessionAssumption DEF AgentStreams, AgentIsSilent, Items
  <2>2. UNCHANGED <<page, client, panelled>> /\ \E m : said' = Append(said, m) /\ m.session = s
    BY <1>6 DEF AgentStreams, AgentIsSilent
  <2>3. (\A r : SaidIn(r) \subseteq SaidIn(r)') /\ k \in SaidIn(s)'
    BY <1>4, <2>2
  <2>4. \E e \in Event : Broadcast(s, e) /\ e.item = k
    <3> DEFINE stream == [type |-> "stream", item |-> k]
               end == [type |-> "end", item |-> k, blank |-> TRUE]
    <3>1. stream \in Event /\ end \in Event
      BY <2>1 DEF Event
    <3>2. Broadcast(s, stream) \/ Broadcast(s, end)
      BY <1>6 DEF AgentStreams, AgentIsSilent
    <3> QED
      BY <3>1, <3>2
  <2> QED
    BY <2>2, <2>3, <2>4, BroadcastFits
<1>7. ASSUME NEW k \in DOMAIN said, HandleMessage(k) \/ AgentEnds(k) PROVE Viewed' /\ page' = page
  <2>1. k \in Items
    BY <1>0, ClientSessionAssumption DEF Types, Items
  <2>2. UNCHANGED <<page, client, panelled>> /\ said' = [said EXCEPT ![k].state = "done"]
    BY <1>7 DEF HandleMessage, AgentEnds
  <2>3. \A r : SaidIn(r) \subseteq SaidIn(r)'
    BY <1>5, <2>2
  <2> PICK s : s = said[k].session
    OBVIOUS
  <2>4. k \in SaidIn(s)'
    BY <2>3 DEF SaidIn
  <2>5. \E e \in Event : Broadcast(s, e) /\ e.item = k
    <3> DEFINE received == [type |-> "received", item |-> k]
               end == [type |-> "end", item |-> k, blank |-> FALSE]
    <3>1. received \in Event /\ end \in Event
      BY <2>1 DEF Event
    <3>2. Broadcast(s, received) \/ Broadcast(s, end)
      BY <1>7 DEF HandleMessage, AgentEnds
    <3> QED
      BY <3>1, <3>2
  <2> QED
    BY <2>2, <2>3, <2>4, <2>5, BroadcastFits
<1> QED
  BY <1>1, <1>2, <1>3, <1>6, <1>7 DEF Gateway

LEMMA ViewedStep ==
    ASSUME Types, Plugged, Viewed, [Next]_vars
    PROVE  Viewed' /\ \/ \E s \in SessionOrNone : PickSession(s) \/ HandleConnect(s)
                      \/ Settles(page, page')
<1>1. CASE UNCHANGED vars
  <2>1. Viewed'
    BY <1>1 DEF vars, Viewed, Fits, Shown, Bound, SaidIn, Settled, ClientsBound, InFlightBound, ItemOf
  <2>2. page' = page /\ page.entered \in BOOLEAN
    BY <1>1 DEF vars, Types, PageOK, Pages
  <2> QED
    BY <2>1, <2>2 DEF Settles
<1>2. CASE Gateway
  <2>1. Viewed' /\ page' = page /\ page.entered \in BOOLEAN
    BY <1>2, ViewedGateway DEF Types, PageOK, Pages
  <2> QED
    BY <2>1 DEF Settles
<1> QED
  BY <1>1, <1>2, ViewedUser, ViewedNetwork DEF Next

LEMMA ViewedInit == Init => Viewed
<1> SUFFICES ASSUME Init PROVE Viewed
  OBVIOUS
<1>1. /\ page.messages = {} /\ page.draft = NoDraft /\ page.socket = 0
      /\ ~page.entering /\ ~page.entered
  BY DEF Init, NewPage
<1>2. Fits(page, ~panelled) /\ Settled(page)
  BY <1>1, NothingShown DEF Fits, Bound, Links, Settled
<1>3. \A c \in Clients : client[c].link = 0 /\ inbox[c] = <<>>
  BY DEF Init
<1> QED
  BY <1>2, <1>3 DEF Viewed, ClientsBound, InFlightBound

\* The invariant that the next two theorems rest on.
InView == Types /\ Managed /\ Plugged /\ Viewed

\* Unless the panel was used, nothing of another session is shown, however the
\* page switches while events are under way (ViewOfSession): what is in flight is
\* of the session of its link, and the only link that is heard is of the page's.
THEOREM ShowsItsSession == Spec => []ViewOfSession
<1>1. Init => InView
  BY TypesInit, ManagedInit, PluggedInit, ViewedInit DEF InView
<1>2. InView /\ [Next]_vars => InView'
  BY ManagedStep, PluggedStep, ViewedStep DEF InView
<1>3. InView => ViewOfSession
  BY DEF InView, Viewed, Fits, Shown, SaidIn, ViewOfSession
<1> QED
  BY <1>1, <1>2, <1>3, PTL DEF Spec

\* The page is entered with the first session of a list that came, and with the
\* new one otherwise, and then only the user changes its session, whatever late
\* lists and reconnections there are (EntrySettles).
THEOREM EntryIsFinal == Spec => EntrySettles
<1>1. Init => InView
  BY TypesInit, ManagedInit, PluggedInit, ViewedInit DEF InView
<1>2. InView /\ [Next]_vars => InView'
  BY ManagedStep, PluggedStep, ViewedStep DEF InView
<1>3. InView /\ [Next]_vars =>
        [/\ ~page.entered /\ page'.entered =>
              page'.session = IF page'.history # <<>> THEN Head(page'.history) ELSE page.pending
         /\ page.entered /\ page'.entered /\ page'.session # page.session =>
              \E s \in Sessions \union {NoSession} : PickSession(s) \/ HandleConnect(s)]_vars
  <2> SUFFICES ASSUME InView, [Next]_vars
               PROVE  /\ ~page.entered /\ page'.entered =>
                           page'.session = IF page'.history # <<>> THEN Head(page'.history) ELSE page.pending
                      /\ page.entered /\ page'.entered /\ page'.session # page.session =>
                           \E s \in Sessions \union {NoSession} : PickSession(s) \/ HandleConnect(s)
    OBVIOUS
  <2>1. CASE \E s \in SessionOrNone : PickSession(s) \/ HandleConnect(s)
    <3>1. page.entered
      BY <2>1 DEF PickSession, HandleConnect
    <3> QED
      BY <2>1, <3>1 DEF SessionOrNone
  <2>2. CASE Settles(page, page')
    BY <2>2 DEF Settles
  <2> QED
    BY <2>1, <2>2, ViewedStep DEF InView
<1> QED
  BY <1>1, <1>2, <1>3, PTL DEF Spec, EntrySettles
=============================================================================

----------------------------- MODULE McpClient -----------------------------
(***************************************************************************)
(* McpClientImpl: the client of one MCP server, over HTTP (a handshake     *)
(* that yields a session id, then one POST per call) or over the pipe of a *)
(* child process in a container (requests and replies with ids, and two    *)
(* timers for each request).  Its callers are startServer, which connects, *)
(* and the tools of McpToolRegistry, which list or call; a tool of an HTTP *)
(* server connects by itself.                                              *)
(*                                                                         *)
(* Node runs the continuations of settled promises before it looks at      *)
(* sockets, pipes and timers: those actions ask for Quiet.  Calls may come *)
(* between two continuations.  Servers are external: they answer anything, *)
(* fail, or say nothing.                                                   *)
(***************************************************************************)
EXTENDS Integers, Sequences, FiniteSets

CONSTANTS
    Callers,      \* calls of connect, listTools or callTool
    MaxAttempts   \* connects and disconnects (a bound of the model)

ASSUME ClientAssumption == MaxAttempts \in Nat

VARIABLES
    transport, op,  \* "http" or "stdio"; "connect" or "call", per caller
    connected,
    attempt,     \* connectAttempt
    promise,     \* the attempt behind connectPromise, 0: null
    controller,  \* the attempt behind connectAbortController, 0: null
    sid,         \* sessionId: the attempt that got it, 0: null
    phase,       \* of an attempt: the request that is under way
    pc,          \* of a caller
    on,          \* the attempt whose promise a caller awaits
    header,      \* the session id that a caller's request carries
    pending,     \* pendingRequests; the id of a request is its caller
    timer,       \* of a request: "both" timers, "cleanup" only, "none"
    pipe,        \* halves of replies in the pipe
    replied,     \* requests the process has replied to
    open         \* the pipe is

http == <<promise, controller, sid, phase, on, header>>
stdio == <<pending, timer, pipe, replied, open>>
vars == <<transport, op, connected, attempt, http, pc, stdio>>

Attempts == 1 .. MaxAttempts
Handshake(a) == phase[a] \in {"initialize", "notify"}
Waiting(a) == {c \in Callers : pc[c] = "connecting" /\ on[c] = a}

\* No continuation is due.
Quiet ==
    /\ \A a \in Attempts : phase[a] # "aborted"
    /\ \A c \in Callers : pc[c] # "resuming"

Init ==
    /\ transport \in {"http", "stdio"}
    /\ op \in [Callers -> {"connect", "call"}]
    /\ connected = FALSE
    /\ attempt = 0 /\ promise = 0 /\ controller = 0 /\ sid = 0
    /\ phase = [a \in Attempts |-> "none"]
    /\ pc = [c \in Callers |-> "idle"]
    /\ on = [c \in Callers |-> 0]
    /\ header = [c \in Callers |-> 0]
    /\ pending = {} /\ replied = {} /\ pipe = <<>> /\ open = TRUE
    /\ timer = [c \in Callers |-> "none"]

Becomes(c, label) == pc' = [pc EXCEPT ![c] = label]
All(cs, label) == pc' = [c \in Callers |-> IF c \in cs THEN label ELSE pc[c]]
-----------------------------------------------------------------------------
\* What a caller does once it need not connect: a connect is done, a call
\* posts its request with the session id, if it is still connected.
Proceed(c) ==
    IF op[c] = "connect"
    THEN Becomes(c, "answered") /\ UNCHANGED header
    ELSE IF connected
    THEN Becomes(c, "sent") /\ header' = [header EXCEPT ![c] = sid]
    ELSE Becomes(c, "failed") /\ UNCHANGED header

\* Mutant: every caller starts a handshake of its own.
StartOrJoinAlways(c) ==
    /\ attempt < MaxAttempts
    /\ attempt' = attempt + 1
    /\ promise' = attempt' /\ controller' = attempt' /\ sid' = 0
    /\ phase' = [phase EXCEPT ![attempt'] = "initialize"]
    /\ on' = [on EXCEPT ![c] = promise']

\* connect() over HTTP: wait for the handshake that is under way, or start one.
StartOrJoin(c) ==
    /\ IF promise # 0
       THEN UNCHANGED <<attempt, promise, controller, sid, phase>>
       ELSE /\ attempt < MaxAttempts
            /\ attempt' = attempt + 1
            /\ promise' = attempt' /\ controller' = attempt' /\ sid' = 0
            /\ phase' = [phase EXCEPT ![attempt'] = "initialize"]
    /\ on' = [on EXCEPT ![c] = promise']

CallHttp(c) ==
    /\ transport = "http" /\ pc[c] = "idle"
    /\ \/ connected /\ Proceed(c)
          /\ UNCHANGED <<attempt, promise, controller, sid, phase, on>>
       \/ ~connected /\ StartOrJoin(c) /\ Becomes(c, "connecting")
          /\ UNCHANGED header
    /\ UNCHANGED <<transport, op, connected, stdio>>

Resume(c) ==
    /\ pc[c] = "resuming"
    /\ Proceed(c)
    /\ UNCHANGED <<transport, op, connected, attempt, promise, controller, sid,
                   phase, on, stdio>>

\* The initialize request is answered; the session id, if the server gives
\* one, is kept and goes with the notification that follows.
Initialized(a) ==
    /\ Quiet /\ phase[a] = "initialize"
    /\ sid' \in {sid, a}
    /\ phase' = [phase EXCEPT ![a] = "notify"]
    /\ UNCHANGED <<transport, op, connected, attempt, promise, controller, pc,
                   on, header, stdio>>

\* finally: whatever the attempt's own is taken back.
Finally(a) ==
    /\ controller' = IF controller = a THEN 0 ELSE controller
    /\ promise' = IF promise = a THEN 0 ELSE promise
    /\ phase' = [phase EXCEPT ![a] = "over"]

\* The notification is answered, the client is connected.
Notified(a) ==
    /\ Quiet /\ phase[a] = "notify"
    /\ connected' = (a = attempt)
    /\ sid' = IF a = attempt THEN sid ELSE 0
    /\ Finally(a)
    /\ All(Waiting(a), IF a = attempt THEN "resuming" ELSE "failed")
    /\ UNCHANGED <<transport, op, attempt, on, header, stdio>>

\* catch: no session, whatever the handshake had got; the callers are told.
Reject(a) ==
    /\ sid' = 0
    /\ Finally(a)
    /\ All(Waiting(a), "failed")

HandshakeFails(a) ==
    /\ Quiet /\ Handshake(a)
    /\ Reject(a)
    /\ UNCHANGED <<transport, op, connected, attempt, on, header, stdio>>

\* The rejection of an aborted request reaches the end of the chain.
Unwind(a) ==
    /\ phase[a] = "aborted"
    /\ Reject(a)
    /\ UNCHANGED <<transport, op, connected, attempt, on, header, stdio>>

\* A call is answered, with a result or an error; a session id in the answer
\* is kept.
Respond(c) ==
    /\ Quiet /\ transport = "http" /\ pc[c] = "sent"
    /\ sid' \in {sid} \union ({header[c]} \ {0})
    /\ Becomes(c, "answered") \/ Becomes(c, "failed")
    /\ UNCHANGED <<transport, op, connected, attempt, promise, controller,
                   phase, on, header, stdio>>
-----------------------------------------------------------------------------
\* sendRequest: nothing is sent before connect(), which only sets the flag.
CallStdio(c) ==
    /\ transport = "stdio" /\ pc[c] = "idle"
    /\ connected' = (connected \/ op[c] = "connect")
    /\ IF op[c] = "call" /\ connected
       THEN /\ Becomes(c, "sent")
            /\ pending' = pending \union {c}
            /\ timer' = [timer EXCEPT ![c] = "both"]
       ELSE /\ Becomes(c, IF op[c] = "connect" THEN "answered" ELSE "failed")
            /\ UNCHANGED <<pending, timer>>
    /\ UNCHANGED <<transport, op, attempt, http, pipe, replied, open>>

\* The process writes its reply, late or never.  One that comes after both
\* timers finds nothing any more and is left out.
Reply(c) ==
    /\ open /\ timer[c] # "none" /\ c \notin replied
    /\ replied' = replied \union {c}
    /\ pipe' = pipe \o <<<<c, 1>>, <<c, 2>>>>
    /\ UNCHANGED <<transport, op, connected, attempt, http, pc, pending, timer, open>>

\* Replies settle their callers, each with a result or with an error.
Settle(cs) ==
    \E failures \in SUBSET cs :
        pc' = [c \in Callers |-> CASE c \in failures -> "failed"
                                   [] c \in cs \ failures -> "answered"
                                   [] OTHER -> pc[c]]

\* Mutant: a reply settles its caller, but stays in pendingRequests.
ReadKeeps(n) ==
    LET whole == {c \in Callers : \E i \in 1 .. n - 1 : pipe[i] = <<c, 1>>}
    IN /\ Quiet
       /\ pipe' = SubSeq(pipe, n + 1, Len(pipe))
       /\ Settle(whole \intersect pending)
       /\ UNCHANGED <<transport, op, connected, attempt, http, pending, timer, replied, open>>

\* The data event and handleMessage: of the first n halves in the pipe the
\* replies that are whole are parsed; a half at either end is dropped.
Read(n) ==
    LET whole == {c \in Callers : \E i \in 1 .. n - 1 : pipe[i] = <<c, 1>>}
    IN /\ Quiet
       /\ pipe' = SubSeq(pipe, n + 1, Len(pipe))
       /\ pending' = pending \ whole
       /\ Settle(whole \intersect pending)
       /\ UNCHANGED <<transport, op, connected, attempt, http, timer, replied, open>>

\* Mutant: the cleanup comes before the rejection, and takes the request away.
RejectTimerLate(c) ==
    /\ Quiet /\ timer[c] = "both"
    /\ timer' = [timer EXCEPT ![c] = "cleanup"]
    /\ pending' = pending \ {c}
    /\ UNCHANGED <<transport, op, connected, attempt, http, pc, pipe, replied, open>>

\* 30 seconds: a request that is still pending is rejected.
RejectTimer(c) ==
    /\ Quiet /\ timer[c] = "both"
    /\ timer' = [timer EXCEPT ![c] = "cleanup"]
    /\ pending' = pending \ {c}
    /\ IF c \in pending THEN Becomes(c, "failed") ELSE UNCHANGED pc
    /\ UNCHANGED <<transport, op, connected, attempt, http, pipe, replied, open>>

\* 35 seconds.
CleanupTimer(c) ==
    /\ Quiet /\ timer[c] = "cleanup"
    /\ timer' = [timer EXCEPT ![c] = "none"]
    /\ pending' = pending \ {c}
    /\ UNCHANGED <<transport, op, connected, attempt, http, pc, pipe, replied, open>>

\* The process is gone.  Requests that are pending stay so.
PipeCloses ==
    /\ Quiet /\ transport = "stdio" /\ open
    /\ open' = FALSE
    /\ connected' = FALSE
    /\ pipe' = <<>>
    /\ UNCHANGED <<transport, op, attempt, http, pc, pending, timer, replied>>
-----------------------------------------------------------------------------
\* Mutant: the requests under way are not aborted.
DisconnectLeaves ==
    /\ connected \/ promise # 0
    /\ attempt < MaxAttempts
    /\ attempt' = attempt + 1
    /\ connected' = FALSE
    /\ sid' = 0 /\ controller' = 0 /\ promise' = 0
    /\ phase' = [a \in Attempts |-> IF a = controller THEN "aborted" ELSE phase[a]]
    /\ All(pending, "failed")
    /\ pending' = {}
    /\ UNCHANGED <<transport, op, on, header, timer, pipe, replied, open>>

\* disconnect(): the handshake and all calls under way are aborted, pending
\* requests rejected.  The calls have nothing more to do than to fail; the
\* handshake has (Unwind).
Disconnect ==
    /\ connected \/ promise # 0
    /\ attempt < MaxAttempts
    /\ attempt' = attempt + 1
    /\ connected' = FALSE
    /\ sid' = 0 /\ controller' = 0 /\ promise' = 0
    /\ phase' = [a \in Attempts |-> IF a = controller THEN "aborted" ELSE phase[a]]
    /\ All(pending \union {c \in Callers : transport = "http" /\ pc[c] = "sent"}, "failed")
    /\ pending' = {}
    /\ UNCHANGED <<transport, op, on, header, timer, pipe, replied, open>>

Client ==
    \/ \E c \in Callers : Resume(c) \/ RejectTimer(c) \/ CleanupTimer(c)
    \/ \E a \in Attempts : Unwind(a)
    \/ \E n \in 1 .. Len(pipe) : Read(n)

Server ==
    \/ \E a \in Attempts : Initialized(a) \/ Notified(a) \/ HandshakeFails(a)
    \/ \E c \in Callers : Respond(c)

Next ==
    \/ \E c \in Callers : CallHttp(c) \/ CallStdio(c) \/ Reply(c)
    \/ Client \/ Server \/ PipeCloses \/ Disconnect

\* Continuations run and timers fire, whatever the server does.
ClientFairness ==
    /\ WF_vars(\E a \in Attempts : Unwind(a))
    /\ \A c \in Callers : WF_vars(Resume(c)) /\ WF_vars(RejectTimer(c))

SilentSpec == Init /\ [][Next]_vars /\ ClientFairness

\* An HTTP server answers, if only with an error.
Spec == SilentSpec /\ WF_vars(Server)
-----------------------------------------------------------------------------
TypeOK ==
    /\ transport \in {"http", "stdio"}
    /\ op \in [Callers -> {"connect", "call"}]
    /\ connected \in BOOLEAN
    /\ attempt \in 0 .. MaxAttempts
    /\ {promise, controller, sid} \subseteq 0 .. attempt
    /\ phase \in [Attempts -> {"none", "initialize", "notify", "aborted", "over"}]
    /\ pc \in [Callers -> {"idle", "connecting", "resuming", "sent", "answered", "failed"}]
    /\ on \in [Callers -> 0 .. attempt]
    /\ header \in [Callers -> 0 .. attempt]
    /\ pending \subseteq Callers /\ replied \subseteq Callers
    /\ timer \in [Callers -> {"none", "both", "cleanup"}]
    /\ pipe \in Seq(Callers \X {1, 2})
    /\ open \in BOOLEAN
    /\ connected => promise = 0

\* There is one handshake at a time, it is the one that callers wait for and
\* the one that disconnect would abort, and a connected client has none.
OneHandshake ==
    \A a \in Attempts :
        Handshake(a) => a = promise /\ a = controller /\ ~connected

\* No call is made in a session that a disconnect or a failed handshake has
\* ended, and no answer from such a session brings its id back.
SessionIsCurrent ==
    /\ sid \in {0, attempt}
    /\ transport = "http" =>
          \A c \in Callers : pc[c] = "sent" => connected /\ header[c] \in {0, attempt}

\* A caller of a process is waiting exactly as long as its request is pending,
\* and as long as that there is a timer to reject it: after a lost or broken
\* reply, the end of the process, a disconnect.
PendingIsTimed ==
    transport = "stdio" =>
        \A c \in Callers : /\ pc[c] = "sent" <=> c \in pending
                           /\ c \in pending => timer[c] = "both"

\* Every call of a tool comes to an end.
CallsEnd == \A c \in Callers : pc[c] # "idle" ~> pc[c] \in {"answered", "failed"}
=============================================================================

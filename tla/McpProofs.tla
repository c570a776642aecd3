----------------------------- MODULE McpProofs -----------------------------
(***************************************************************************)
(* Proofs about McpClient and McpServers.                                  *)
(*                                                                         *)
(* A client, for any number of callers, connects and disconnects, over     *)
(* either transport: its type invariant, that there is one handshake at a  *)
(* time, that no call is made in a session that is over, and that every    *)
(* pending request has its timer.                                          *)
(*                                                                         *)
(* The servers, however many are configured: failures stay with the server *)
(* they are of, and containers are accounted for.                          *)
(***************************************************************************)
EXTENDS McpClient, McpServers, SequenceTheorems, TLAPS

Phases == {"none", "initialize", "notify", "aborted", "over"}
Labels == {"idle", "connecting", "resuming", "sent", "answered", "failed"}

\* The promise and the controller belong to the latest attempt while it is a
\* handshake, and to nobody otherwise.
Handshakes ==
    /\ controller = promise
    /\ promise # 0 => promise = attempt /\ Handshake(promise)
    /\ \A a \in Attempts : Handshake(a) => a = promise
    /\ \A a \in Attempts : a > attempt => phase[a] = "none"

\* Over a pipe nobody shakes hands.
Handless ==
    transport = "stdio" =>
        /\ promise = 0
        /\ \A a \in Attempts : phase[a] = "none"
        /\ \A c \in Callers : pc[c] \notin {"connecting", "resuming"}

IInv == TypeOK /\ Handshakes /\ Handless /\ SessionIsCurrent /\ PendingIsTimed

LEMMA EmptyPipe == <<>> \in Seq(Callers \X {1, 2})
OBVIOUS

LEMMA InitHolds == Init => IInv
<1> SUFFICES ASSUME Init PROVE IInv
  OBVIOUS
<1> USE ClientAssumption DEF Init
<1>1. pipe \in Seq(Callers \X {1, 2})
  BY EmptyPipe
<1>2. {promise, controller, sid} \subseteq 0 .. attempt /\ attempt \in 0 .. MaxAttempts
  OBVIOUS
<1>3. TypeOK
  BY <1>1, <1>2 DEF TypeOK
<1>4. Handshakes /\ Handless
  BY DEF Handshakes, Handless, Handshake
<1>5. SessionIsCurrent /\ PendingIsTimed
  BY DEF SessionIsCurrent, PendingIsTimed
<1> QED
  BY <1>3, <1>4, <1>5 DEF IInv

\* What a handshake implies.
LEMMA HandshakeIsLatest ==
    ASSUME IInv, NEW a \in Attempts, Handshake(a)
    PROVE  /\ a = promise /\ a = controller /\ a = attempt
           /\ ~connected /\ transport = "http"
           /\ \A c \in Callers : pc[c] # "sent"
<1>1. a = promise /\ a # 0
  BY ClientAssumption DEF IInv, Handshakes, Attempts
<1>2. a = controller /\ a = attempt /\ ~connected
  BY <1>1 DEF IInv, Handshakes, TypeOK
<1>3. transport = "http"
  BY <1>1 DEF IInv, Handless, TypeOK
<1> QED
  BY <1>1, <1>2, <1>3 DEF IInv, SessionIsCurrent
-----------------------------------------------------------------------------
LEMMA StartOrJoinKeeps ==
    ASSUME IInv, NEW c \in Callers, transport = "http", pc[c] = "idle",
           ~connected, StartOrJoin(c), Becomes(c, "connecting"),
           UNCHANGED <<header, transport, op, connected, stdio>>
    PROVE  IInv'
<1> USE ClientAssumption DEF IInv
<1> DEFINE new == promise = 0
<1>1. CASE promise # 0
  <2>1. /\ UNCHANGED <<attempt, promise, controller, sid, phase>>
        /\ on' = [on EXCEPT ![c] = promise]
        /\ pc' = [pc EXCEPT ![c] = "connecting"]
    BY <1>1 DEF StartOrJoin, Becomes
  <2>2. TypeOK'
    BY <2>1 DEF TypeOK, stdio
  <2>3. Handshakes' /\ Handless'
    BY <2>1 DEF Handshakes, Handless, Handshake
  <2>4. SessionIsCurrent' /\ PendingIsTimed'
    BY <2>1 DEF SessionIsCurrent, PendingIsTimed, TypeOK
  <2> QED
    BY <2>2, <2>3, <2>4
<1>2. CASE promise = 0
  <2>1. /\ attempt < MaxAttempts
        /\ attempt' = attempt + 1
        /\ promise' = attempt' /\ controller' = attempt' /\ sid' = 0
        /\ phase' = [phase EXCEPT ![attempt'] = "initialize"]
        /\ on' = [on EXCEPT ![c] = promise']
        /\ pc' = [pc EXCEPT ![c] = "connecting"]
    BY <1>2 DEF StartOrJoin, Becomes
  <2>2. attempt \in Nat /\ attempt' \in Attempts /\ attempt' \in 0 .. MaxAttempts
    BY <2>1 DEF TypeOK, Attempts
  <2>3. TypeOK'
    BY <2>1, <2>2 DEF TypeOK, stdio
  <2>4. Handshakes'
    BY <1>2, <2>1, <2>2 DEF Handshakes, Handshake, TypeOK, Attempts
  <2>5. Handless'
    BY DEF Handless
  <2>6. SessionIsCurrent' /\ PendingIsTimed'
    BY <2>1 DEF SessionIsCurrent, PendingIsTimed, TypeOK
  <2> QED
    BY <2>3, <2>4, <2>5, <2>6
<1> QED
  BY <1>1, <1>2

\* A caller that need not connect (any more).
LEMMA ProceedKeeps ==
    ASSUME IInv, NEW c \in Callers, transport = "http", Proceed(c),
           UNCHANGED <<transport, op, connected, attempt, promise, controller,
                       sid, phase, on, stdio>>
    PROVE  IInv'
<1> USE DEF IInv
<1>1. /\ \/ pc' = [pc EXCEPT ![c] = "answered"] /\ UNCHANGED header
         \/ /\ connected /\ pc' = [pc EXCEPT ![c] = "sent"]
            /\ header' = [header EXCEPT ![c] = sid]
         \/ pc' = [pc EXCEPT ![c] = "failed"] /\ UNCHANGED header
  BY DEF Proceed, Becomes
<1>2. TypeOK'
  BY <1>1 DEF TypeOK, stdio
<1>3. Handshakes' /\ Handless'
  BY DEF Handshakes, Handless, Handshake
<1>4. SessionIsCurrent'
  BY <1>1 DEF SessionIsCurrent, TypeOK
<1>5. PendingIsTimed'
  BY DEF PendingIsTimed
<1> QED
  BY <1>2, <1>3, <1>4, <1>5

LEMMA CallHttpKeeps ==
    ASSUME IInv, NEW c \in Callers, CallHttp(c)
    PROVE  IInv'
<1>1. CASE connected
  <2>1. Proceed(c)
    BY <1>1 DEF CallHttp
  <2> QED
    BY <1>1, <2>1, ProceedKeeps DEF CallHttp
<1>2. CASE ~connected
  BY <1>2, StartOrJoinKeeps DEF CallHttp
<1> QED
  BY <1>1, <1>2

LEMMA ResumeKeeps ==
    ASSUME IInv, NEW c \in Callers, Resume(c)
    PROVE  IInv'
<1>1. transport = "http"
  BY DEF Resume, IInv, Handless, TypeOK
<1> QED
  BY <1>1, ProceedKeeps DEF Resume

LEMMA InitializedKeeps ==
    ASSUME IInv, NEW a \in Attempts, Initialized(a)
    PROVE  IInv'
<1>1. Handshake(a)
  BY DEF Initialized, Handshake
<1>2. /\ a = promise /\ a = attempt /\ transport = "http"
      /\ \A c \in Callers : pc[c] # "sent"
  BY <1>1, HandshakeIsLatest
<1> USE DEF IInv
<1>3. TypeOK'
  BY <1>2 DEF Initialized, TypeOK, stdio
<1>4. Handshakes'
  BY <1>1, <1>2 DEF Initialized, Handshakes, Handshake, TypeOK
<1>5. Handless' /\ PendingIsTimed'
  BY <1>2 DEF Initialized, Handless, PendingIsTimed
<1>6. SessionIsCurrent'
  BY <1>2 DEF Initialized, SessionIsCurrent
<1> QED
  BY <1>3, <1>4, <1>5, <1>6

\* The end of an attempt, whatever becomes of those that wait for it.
LEMMA FinallyKeeps ==
    ASSUME IInv, NEW a \in Attempts, Handshake(a) \/ phase[a] = "aborted",
           Finally(a), NEW label \in {"resuming", "failed"},
           All(Waiting(a), label),
           connected' = connected \/ (Handshake(a) /\ connected' = TRUE),
           sid' = 0 \/ sid' = sid,
           UNCHANGED <<transport, op, attempt, on, header, stdio>>
    PROVE  IInv'
<1> USE DEF IInv
<1>1. transport = "http"
  BY HandshakeIsLatest DEF Handless, TypeOK
<1>2. /\ controller' = IF controller = a THEN 0 ELSE controller
      /\ promise' = IF promise = a THEN 0 ELSE promise
      /\ phase' = [phase EXCEPT ![a] = "over"]
  BY DEF Finally
<1>3. pc' = [c \in Callers |-> IF c \in Waiting(a) THEN label ELSE pc[c]]
  BY DEF All
<1>4. Handshake(a) => promise = a
  BY DEF Handshakes
<1>5. TypeOK'
  <2>1. /\ {promise', controller', sid'} \subseteq 0 .. attempt'
        /\ attempt' \in 0 .. MaxAttempts
    BY <1>2 DEF TypeOK
  <2>2. connected' \in BOOLEAN /\ (connected' => promise' = 0)
    <3>1. promise = 0 => promise' = 0
      BY <1>2
    <3>2. Handshake(a) => promise' = 0
      BY <1>2, <1>4
    <3>3. connected \in BOOLEAN /\ (connected => promise = 0)
      BY DEF TypeOK
    <3>4. CASE connected' = connected
      BY <3>1, <3>3, <3>4, Zenon
    <3>5. CASE Handshake(a) /\ connected' = TRUE
      BY <3>2, <3>5, Zenon
    <3> QED
      BY <3>4, <3>5, Zenon
  <2>3. phase' \in [Attempts -> Phases]
    BY <1>2 DEF TypeOK, Phases
  <2>4. pc' \in [Callers -> Labels]
    BY <1>3 DEF TypeOK, Labels
  <2> QED
    BY <2>1, <2>2, <2>3, <2>4 DEF TypeOK, stdio, Phases, Labels
<1>6. Handshakes'
  BY <1>2 DEF Handshakes, Handshake, TypeOK, Attempts
<1>7. Handless' /\ PendingIsTimed'
  BY <1>1 DEF Handless, PendingIsTimed
<1>8. SessionIsCurrent'
  BY <1>1, <1>3 DEF SessionIsCurrent, TypeOK
<1> QED
  BY <1>5, <1>6, <1>7, <1>8

LEMMA NotifiedKeeps ==
    ASSUME IInv, NEW a \in Attempts, Notified(a)
    PROVE  IInv'
<1>1. Handshake(a)
  BY DEF Notified, Handshake
<1>2. a = attempt
  BY <1>1, HandshakeIsLatest
<1> QED
  BY <1>1, <1>2, FinallyKeeps DEF Notified

LEMMA HandshakeFailsKeeps ==
    ASSUME IInv, NEW a \in Attempts, HandshakeFails(a) \/ Unwind(a)
    PROVE  IInv'
BY FinallyKeeps DEF HandshakeFails, Unwind, Reject

LEMMA RespondKeeps ==
    ASSUME IInv, NEW c \in Callers, Respond(c)
    PROVE  IInv'
<1> USE DEF IInv
<1>1. transport = "http" /\ header[c] \in {0, attempt} /\ sid' \in {sid, header[c]}
  BY DEF Respond, SessionIsCurrent
<1>2. \E label \in {"answered", "failed"} : pc' = [pc EXCEPT ![c] = label]
  BY DEF Respond, Becomes
<1>3. TypeOK'
  BY <1>1, <1>2 DEF Respond, TypeOK, stdio
<1>4. Handshakes' /\ Handless' /\ PendingIsTimed'
  BY <1>1 DEF Respond, Handshakes, Handshake, Handless, PendingIsTimed
<1>5. SessionIsCurrent'
  BY <1>1, <1>2 DEF Respond, SessionIsCurrent, TypeOK
<1> QED
  BY <1>3, <1>4, <1>5
-----------------------------------------------------------------------------
LEMMA CallStdioKeeps ==
    ASSUME IInv, NEW c \in Callers, CallStdio(c)
    PROVE  IInv'
<1> USE DEF IInv
<1>1. transport = "stdio" /\ promise = 0
  BY DEF CallStdio, Handless
<1>2. \E label \in {"sent", "answered", "failed"} :
         /\ pc' = [pc EXCEPT ![c] = label]
         /\ IF label = "sent"
            THEN /\ pending' = pending \union {c}
                 /\ timer' = [timer EXCEPT ![c] = "both"]
            ELSE UNCHANGED <<pending, timer>>
  BY DEF CallStdio, Becomes
<1>3. TypeOK'
  BY <1>1, <1>2 DEF CallStdio, TypeOK, http
<1>4. Handshakes'
  BY <1>1 DEF CallStdio, Handshakes, Handshake, http
<1>5. Handless'
  BY <1>2 DEF CallStdio, Handless, http, TypeOK
<1>6. SessionIsCurrent'
  BY <1>1 DEF CallStdio, SessionIsCurrent, http
<1>7. PendingIsTimed'
  BY <1>1, <1>2 DEF CallStdio, PendingIsTimed, TypeOK
<1> QED
  BY <1>3, <1>4, <1>5, <1>6, <1>7

\* Steps over the pipe that take requests from pendingRequests and tell
\* their callers.
LEMMA SettleKeeps ==
    ASSUME IInv, UNCHANGED <<transport, op, connected, attempt, http>>,
           NEW gone \in SUBSET Callers, pending' = pending \ gone,
           pc' \in [Callers -> Labels],
           \A c \in Callers :
              IF c \in pending \intersect gone THEN pc'[c] \in {"answered", "failed"}
              ELSE pc'[c] = pc[c],
           timer' \in [Callers -> {"none", "both", "cleanup"}],
           \A c \in Callers : timer'[c] = timer[c] \/ c \in gone \/ c \notin pending,
           replied' \in SUBSET Callers, open' \in BOOLEAN,
           pipe' \in Seq(Callers \X {1, 2})
    PROVE  IInv'
<1> USE DEF IInv
<1>1. TypeOK'
  BY DEF TypeOK, http, Labels
<1>2. Handshakes' /\ Handless'
  BY DEF Handshakes, Handshake, Handless, http
<1>3. SessionIsCurrent'
  BY DEF SessionIsCurrent, http
<1>4. PendingIsTimed'
  BY DEF PendingIsTimed
<1> QED
  BY <1>1, <1>2, <1>3, <1>4

\* The same when nobody is told anything.
LEMMA SamePending ==
    ASSUME IInv, UNCHANGED <<transport, op, connected, attempt, http, pc, pending, timer>>,
           replied' \in SUBSET Callers, open' \in BOOLEAN,
           pipe' \in Seq(Callers \X {1, 2})
    PROVE  IInv'
<1> USE DEF IInv
<1>1. TypeOK'
  BY DEF TypeOK, http
<1>2. Handshakes' /\ Handless' /\ SessionIsCurrent' /\ PendingIsTimed'
  BY DEF Handshakes, Handshake, Handless, SessionIsCurrent, PendingIsTimed, http
<1> QED
  BY <1>1, <1>2

LEMMA ReplyKeeps ==
    ASSUME IInv, NEW c \in Callers, Reply(c)
    PROVE  IInv'
<1>1. <<<<c, 1>>, <<c, 2>>>> \in Seq(Callers \X {1, 2})
  OBVIOUS
<1>2. pipe' \in Seq(Callers \X {1, 2})
  BY <1>1, ConcatProperties DEF Reply, IInv, TypeOK
<1>3. /\ UNCHANGED <<transport, op, connected, attempt, http, pc, pending, timer, open>>
      /\ replied' \in SUBSET Callers /\ open' \in BOOLEAN
  BY DEF Reply, IInv, TypeOK
<1> QED
  BY <1>2, <1>3, SamePending

LEMMA ReadKeepsInvariant ==
    ASSUME IInv, NEW n \in 1 .. Len(pipe), Read(n)
    PROVE  IInv'
<1> DEFINE whole == {c \in Callers : \E i \in 1 .. n - 1 : pipe[i] = <<c, 1>>}
<1>1. pipe' \in Seq(Callers \X {1, 2})
  BY SubSeqProperties, LenProperties DEF Read, IInv, TypeOK
<1>2. /\ pending' = pending \ whole
      /\ Settle(whole \intersect pending)
      /\ UNCHANGED <<transport, op, connected, attempt, http, timer, replied, open>>
  BY DEF Read
<1> HIDE DEF whole
<1>3. PICK failures \in SUBSET (whole \intersect pending) :
         pc' = [c \in Callers |-> CASE c \in failures -> "failed"
                                    [] c \in (whole \intersect pending) \ failures -> "answered"
                                    [] OTHER -> pc[c]]
  BY <1>2 DEF Settle
<1>4. /\ pc' \in [Callers -> Labels]
      /\ \A c \in Callers :
            IF c \in pending \intersect whole THEN pc'[c] \in {"answered", "failed"}
            ELSE pc'[c] = pc[c]
  BY <1>3 DEF IInv, TypeOK, Labels
<1>5. whole \in SUBSET Callers
  BY DEF whole
<1> QED
  BY <1>1, <1>2, <1>4, <1>5, SettleKeeps DEF IInv, TypeOK

LEMMA RejectTimerKeeps ==
    ASSUME IInv, NEW c \in Callers, RejectTimer(c)
    PROVE  IInv'
<1>1. /\ pending' = pending \ {c}
      /\ timer' = [timer EXCEPT ![c] = "cleanup"]
      /\ pc' = IF c \in pending THEN [pc EXCEPT ![c] = "failed"] ELSE pc
      /\ UNCHANGED <<transport, op, connected, attempt, http, pipe, replied, open>>
  BY DEF RejectTimer, Becomes
<1>2. /\ pc' \in [Callers -> Labels]
      /\ \A d \in Callers :
            IF d \in pending \intersect {c} THEN pc'[d] \in {"answered", "failed"}
            ELSE pc'[d] = pc[d]
  BY <1>1 DEF IInv, TypeOK, Labels
<1>3. /\ timer' \in [Callers -> {"none", "both", "cleanup"}]
      /\ \A d \in Callers : timer'[d] = timer[d] \/ d \in {c} \/ d \notin pending
  BY <1>1 DEF IInv, TypeOK
<1>4. /\ replied' \in SUBSET Callers /\ open' \in BOOLEAN
      /\ pipe' \in Seq(Callers \X {1, 2}) /\ {c} \in SUBSET Callers
  BY <1>1 DEF IInv, TypeOK
<1> QED
  BY <1>1, <1>2, <1>3, <1>4, SettleKeeps

LEMMA CleanupTimerKeeps ==
    ASSUME IInv, NEW c \in Callers, CleanupTimer(c)
    PROVE  IInv'
<1> USE DEF IInv
<1>1. /\ timer[c] = "cleanup" /\ timer' = [timer EXCEPT ![c] = "none"]
      /\ pending' = pending \ {c}
      /\ UNCHANGED <<transport, op, connected, attempt, http, pc, pipe, replied, open>>
  BY DEF CleanupTimer
<1>2. TypeOK'
  BY <1>1 DEF TypeOK, http
<1>3. Handshakes' /\ Handless' /\ SessionIsCurrent'
  BY <1>1 DEF Handshakes, Handshake, Handless, SessionIsCurrent, http
<1>4. PendingIsTimed'
  BY <1>1 DEF PendingIsTimed, TypeOK
<1> QED
  BY <1>2, <1>3, <1>4

LEMMA PipeClosesKeeps ==
    ASSUME IInv, PipeCloses
    PROVE  IInv'
<1> USE DEF IInv
<1>1. TypeOK'
  BY EmptyPipe DEF PipeCloses, TypeOK, http
<1>2. Handshakes' /\ Handless' /\ SessionIsCurrent' /\ PendingIsTimed'
  BY DEF PipeCloses, Handshakes, Handshake, Handless, SessionIsCurrent,
         PendingIsTimed, http
<1> QED
  BY <1>1, <1>2

LEMMA DisconnectKeeps ==
    ASSUME IInv, Disconnect
    PROVE  IInv'
<1> USE ClientAssumption DEF IInv
<1> DEFINE told == pending \union {c \in Callers : transport = "http" /\ pc[c] = "sent"}
<1>1. /\ attempt' = attempt + 1 /\ attempt' \in 0 .. MaxAttempts
      /\ attempt \in Nat /\ attempt' \notin {0}
  BY DEF Disconnect, TypeOK
<1>2. /\ connected' = FALSE /\ sid' = 0 /\ controller' = 0 /\ promise' = 0
      /\ phase' = [a \in Attempts |-> IF a = controller THEN "aborted" ELSE phase[a]]
      /\ pc' = [c \in Callers |-> IF c \in told THEN "failed" ELSE pc[c]]
      /\ pending' = {}
      /\ UNCHANGED <<transport, op, on, header, timer, pipe, replied, open>>
  BY DEF Disconnect, All
<1>3. TypeOK'
  <2>1. /\ {promise', controller', sid'} \subseteq 0 .. attempt'
        /\ on' \in [Callers -> 0 .. attempt'] /\ header' \in [Callers -> 0 .. attempt']
    BY <1>1, <1>2 DEF TypeOK
  <2>2. phase' \in [Attempts -> Phases]
    BY <1>2 DEF TypeOK, Phases
  <2>3. pc' \in [Callers -> Labels]
    BY <1>2 DEF TypeOK, Labels
  <2> QED
    BY <1>1, <1>2, <2>1, <2>2, <2>3 DEF TypeOK, Phases, Labels
<1>4. Handshakes'
  BY <1>1, <1>2 DEF Handshakes, Handshake, TypeOK, Attempts
<1>5. Handless'
  <2>1. transport = "stdio" => controller = 0
    BY DEF Handless, Handshakes
  <2> QED
    BY <1>2, <2>1 DEF Handless, Attempts
<1>6. SessionIsCurrent'
  BY <1>1, <1>2 DEF SessionIsCurrent
<1>7. PendingIsTimed'
  BY <1>2 DEF PendingIsTimed
<1> QED
  BY <1>3, <1>4, <1>5, <1>6, <1>7
-----------------------------------------------------------------------------
LEMMA NextKeeps == IInv /\ [Next]_vars => IInv'
<1> SUFFICES ASSUME IInv, [Next]_vars PROVE IInv'
  OBVIOUS
<1>1. CASE UNCHANGED vars
  BY <1>1 DEF IInv, vars, http, stdio, TypeOK, Handshakes, Handshake, Handless,
              SessionIsCurrent, PendingIsTimed
<1>2. CASE \E c \in Callers : CallHttp(c) \/ CallStdio(c) \/ Reply(c)
  BY <1>2, CallHttpKeeps, CallStdioKeeps, ReplyKeeps
<1>3. CASE Client
  BY <1>3, ResumeKeeps, RejectTimerKeeps, CleanupTimerKeeps,
     HandshakeFailsKeeps, ReadKeepsInvariant DEF Client
<1>4. CASE Server
  BY <1>4, InitializedKeeps, NotifiedKeeps, HandshakeFailsKeeps, RespondKeeps
     DEF Server
<1> QED
  BY <1>1, <1>2, <1>3, <1>4, PipeClosesKeeps, DisconnectKeeps DEF Next

LEMMA Invariant == Spec => []IInv
BY InitHolds, NextKeeps, PTL DEF Spec, SilentSpec

\* The state keeps its shape, and a connected client has no handshake.
THEOREM TypeCorrect == Spec => []TypeOK
<1>1. IInv => TypeOK
  BY DEF IInv
<1> QED
  BY <1>1, Invariant, PTL

\* However calls, disconnects and failures interleave (mcp-client.ts:118-178),
\* one handshake is under way at most, and it is the one that callers join and
\* that a disconnect aborts.
THEOREM SingleHandshake == Spec => []OneHandshake
<1>1. IInv => OneHandshake
  BY HandshakeIsLatest DEF OneHandshake
<1> QED
  BY <1>1, Invariant, PTL

\* Neither a call nor a late answer outlives its session.
THEOREM CurrentSession == Spec => []SessionIsCurrent
<1>1. IInv => SessionIsCurrent
  BY DEF IInv
<1> QED
  BY <1>1, Invariant, PTL

\* A caller of a process waits as long as its request is pending, and then
\* there is a timer (mcp-client.ts:440-464).
THEOREM TimedRequests == Spec => []PendingIsTimed
<1>1. IInv => PendingIsTimed
  BY DEF IInv
<1> QED
  BY <1>1, Invariant, PTL
-----------------------------------------------------------------------------
(***************************************************************************)
(* The servers.  Both invariants need to know what each loop has done so   *)
(* far: the servers before "at" are dealt with, those after it untouched,  *)
(* and the call that is awaited belongs to the loop that is under way.     *)
(***************************************************************************)

Healthy(n) == config[n].enabled /\ n \notin trouble

\* The call that is awaited fits the stage and the server.
StepFits ==
    /\ at > NumServers => step = "none"
    /\ stage = "starting" => step \in DockerSteps \union {"none", "connect"}
    /\ stage = "starting" /\ step \in DockerSteps => config[at].sort = "stdio"
    /\ stage = "registering" => step \in {"none", "listTools"} /\ (step = "listTools" => at \in entries)
    /\ stage \in {"up", "down"} => step = "none"
    /\ stage = "stopping" => step \in {"none", "stop", "remove"}
    /\ stage = "stopping" /\ step # "none" => at \in entries /\ config[at].sort = "stdio"

\* How far starting and registering have come.
LoopsDone ==
    /\ stage = "starting" => toolsOf = {} /\ \A n \in McpNames : n < at /\ Healthy(n) => n \in entries
    /\ stage \in {"registering", "up"} =>
          toolsOf \subseteq entries /\ \A n \in McpNames : Healthy(n) => n \in entries
    /\ stage = "registering" => \A n \in McpNames : n < at /\ Healthy(n) => n \in toolsOf
    /\ stage = "up" => \A n \in McpNames : Healthy(n) => n \in toolsOf

\* Only a stdio server has a container, and not before its turn comes.
ContainersInTurn ==
    /\ \A n \in McpNames : config[n].sort # "stdio" => container[n] = "none"
    /\ stage = "starting" =>
          \A n \in McpNames : n > at \/ (n = at /\ step = "none") => container[n] = "none"

ServersInv == ServersTypeOK /\ StepFits /\ LoopsDone /\ ContainersInTurn /\ ContainersAccounted
-----------------------------------------------------------------------------
LEMMA ServersInitHolds == ServersInit => ServersInv
  BY ServersAssumption DEF ServersInit, ServersInv, ServersTypeOK, StepFits, LoopsDone, ContainersInTurn,
     ContainersAccounted, McpNames, DockerSteps

LEMMA ServersStep == ServersInv /\ [ServersNext]_serverVars => ServersInv'
<1> SUFFICES ASSUME ServersInv, [ServersNext]_serverVars PROVE ServersInv'
  OBVIOUS
<1> USE ServersAssumption DEF ServersInv, ServersTypeOK, McpNames
<1>1. CASE StartServer
  <2>1. ServersTypeOK'
    BY <1>1 DEF StartServer, Awaits, Advance, Looping, DockerSteps
  <2>2. StepFits'
    BY <1>1 DEF StartServer, Awaits, Advance, Looping, StepFits, DockerSteps
  <2>3. LoopsDone'
    BY <1>1, <2>1 DEF StartServer, Awaits, Advance, Looping, LoopsDone, StepFits, Healthy, Sorts
  <2>4. ContainersInTurn' /\ ContainersAccounted'
    BY <1>1, <2>1 DEF StartServer, Awaits, Advance, Looping, ContainersInTurn, ContainersAccounted, StepFits, Sorts, DockerSteps
  <2> QED
    BY <2>1, <2>2, <2>3, <2>4
<1>2. CASE DockerAnswers
  <2>1. ServersTypeOK'
    BY <1>2 DEF DockerAnswers, Awaits, Looping, DockerSteps
  <2>2. StepFits'
    BY <1>2 DEF DockerAnswers, Awaits, Looping, StepFits, DockerSteps
  <2>3. LoopsDone'
    BY <1>2, <2>1 DEF DockerAnswers, Awaits, Looping, LoopsDone, StepFits, Healthy, Sorts
  <2>4. ContainersInTurn' /\ ContainersAccounted'
    BY <1>2, <2>1 DEF DockerAnswers, Awaits, Looping, ContainersInTurn, ContainersAccounted, StepFits, Sorts, DockerSteps
  <2> QED
    BY <2>1, <2>2, <2>3, <2>4
<1>3. CASE Connected
  <2>1. ServersTypeOK'
    BY <1>3 DEF Connected, Advance, Looping, DockerSteps
  <2>2. StepFits'
    BY <1>3 DEF Connected, Advance, Looping, StepFits, DockerSteps
  <2>3. LoopsDone'
    BY <1>3, <2>1 DEF Connected, Advance, Looping, LoopsDone, StepFits, Healthy, Sorts
  <2>4. ContainersInTurn' /\ ContainersAccounted'
    BY <1>3, <2>1 DEF Connected, Advance, Looping, ContainersInTurn, ContainersAccounted, StepFits, Sorts, DockerSteps
  <2> QED
    BY <2>1, <2>2, <2>3, <2>4
<1>4. CASE StartFails
  <2>1. ServersTypeOK'
    BY <1>4 DEF StartFails, Advance, Looping, DockerSteps
  <2>2. StepFits'
    BY <1>4 DEF StartFails, Advance, Looping, StepFits, DockerSteps
  <2>3. LoopsDone'
    BY <1>4, <2>1 DEF StartFails, Advance, Looping, LoopsDone, StepFits, Healthy, Sorts
  <2>4. ContainersInTurn' /\ ContainersAccounted'
    BY <1>4, <2>1 DEF StartFails, Advance, Looping, ContainersInTurn, ContainersAccounted, StepFits, Sorts, DockerSteps
  <2> QED
    BY <2>1, <2>2, <2>3, <2>4
<1>5. CASE StageEnds
  <2>1. ServersTypeOK'
    BY <1>5 DEF StageEnds, DockerSteps
  <2>2. StepFits'
    BY <1>5 DEF StageEnds, StepFits, DockerSteps
  <2>3. LoopsDone'
    BY <1>5, <2>1 DEF StageEnds, LoopsDone, StepFits, Healthy, Sorts
  <2>4. ContainersInTurn' /\ ContainersAccounted'
    BY <1>5, <2>1 DEF StageEnds, ContainersInTurn, ContainersAccounted, StepFits, Sorts, DockerSteps
  <2> QED
    BY <2>1, <2>2, <2>3, <2>4
<1>6. CASE AskForTools
  <2>1. ServersTypeOK'
    BY <1>6 DEF AskForTools, Awaits, Advance, Looping, DockerSteps
  <2>2. StepFits'
    BY <1>6 DEF AskForTools, Awaits, Advance, Looping, StepFits, DockerSteps
  <2>3. LoopsDone'
    BY <1>6, <2>1 DEF AskForTools, Awaits, Advance, Looping, LoopsDone, StepFits, Healthy, Sorts
  <2>4. ContainersInTurn' /\ ContainersAccounted'
    BY <1>6, <2>1 DEF AskForTools, Awaits, Advance, Looping, ContainersInTurn, ContainersAccounted, StepFits, Sorts, DockerSteps
  <2> QED
    BY <2>1, <2>2, <2>3, <2>4
<1>7. CASE RegisterTools
  <2>1. ServersTypeOK'
    BY <1>7 DEF RegisterTools, Advance, Looping, DockerSteps
  <2>2. StepFits'
    BY <1>7 DEF RegisterTools, Advance, Looping, StepFits, DockerSteps
  <2>3. LoopsDone'
    BY <1>7, <2>1 DEF RegisterTools, Advance, Looping, LoopsDone, StepFits, Healthy, Sorts
  <2>4. ContainersInTurn' /\ ContainersAccounted'
    BY <1>7, <2>1 DEF RegisterTools, Advance, Looping, ContainersInTurn, ContainersAccounted, StepFits, Sorts, DockerSteps
  <2> QED
    BY <2>1, <2>2, <2>3, <2>4
<1>8. CASE ListFails
  <2>1. ServersTypeOK'
    BY <1>8 DEF ListFails, Advance, Looping, DockerSteps
  <2>2. StepFits'
    BY <1>8 DEF ListFails, Advance, Looping, StepFits, DockerSteps
  <2>3. LoopsDone'
    BY <1>8, <2>1 DEF ListFails, Advance, Looping, LoopsDone, StepFits, Healthy, Sorts
  <2>4. ContainersInTurn' /\ ContainersAccounted'
    BY <1>8, <2>1 DEF ListFails, Advance, Looping, ContainersInTurn, ContainersAccounted, StepFits, Sorts, DockerSteps
  <2> QED
    BY <2>1, <2>2, <2>3, <2>4
<1>9. CASE ContainerExits
  <2>1. ServersTypeOK'
    BY <1>9 DEF ContainerExits, DockerSteps
  <2>2. StepFits'
    BY <1>9 DEF ContainerExits, StepFits, DockerSteps
  <2>3. LoopsDone'
    BY <1>9, <2>1 DEF ContainerExits, LoopsDone, StepFits, Healthy, Sorts
  <2>4. ContainersInTurn' /\ ContainersAccounted'
    BY <1>9, <2>1 DEF ContainerExits, ContainersInTurn, ContainersAccounted, StepFits, Sorts, DockerSteps
  <2> QED
    BY <2>1, <2>2, <2>3, <2>4
<1>10. CASE Close
  <2>1. ServersTypeOK'
    BY <1>10 DEF Close, DockerSteps
  <2>2. StepFits'
    BY <1>10 DEF Close, StepFits, DockerSteps
  <2>3. LoopsDone'
    BY <1>10, <2>1 DEF Close, LoopsDone, StepFits, Healthy, Sorts
  <2>4. ContainersInTurn' /\ ContainersAccounted'
    BY <1>10, <2>1 DEF Close, ContainersInTurn, ContainersAccounted, StepFits, Sorts, DockerSteps
  <2> QED
    BY <2>1, <2>2, <2>3, <2>4
<1>11. CASE StopServer
  <2>1. ServersTypeOK'
    <3>1. at \in 1 .. NumServers /\ step = "none" /\ UNCHANGED <<config, stage, container, toolsOf, trouble>>
      BY <1>11 DEF StopServer, Looping
    <3>2. step' \in {"none", "stop"} /\ at' \in {at, at + 1} /\ entries' \subseteq entries
      BY <1>11 DEF StopServer, Forget, Awaits, Advance
    <3> QED
      BY <3>1, <3>2
  <2>2. StepFits'
    BY <1>11 DEF StopServer, Forget, Awaits, Advance, Looping, StepFits, DockerSteps
  <2>3. LoopsDone'
    BY <1>11, <2>1 DEF StopServer, Forget, Awaits, Advance, Looping, LoopsDone, StepFits, Healthy, Sorts
  <2>4. ContainersInTurn' /\ ContainersAccounted'
    BY <1>11, <2>1 DEF StopServer, Forget, Awaits, Advance, Looping, ContainersInTurn, ContainersAccounted, StepFits, Sorts, DockerSteps
  <2> QED
    BY <2>1, <2>2, <2>3, <2>4
<1>12. CASE ContainerStops
  <2>1. ServersTypeOK'
    BY <1>12 DEF ContainerStops, Awaits, Looping, DockerSteps
  <2>2. StepFits'
    BY <1>12 DEF ContainerStops, Awaits, Looping, StepFits, DockerSteps
  <2>3. LoopsDone'
    BY <1>12, <2>1 DEF ContainerStops, Awaits, Looping, LoopsDone, StepFits, Healthy, Sorts
  <2>4. ContainersInTurn' /\ ContainersAccounted'
    BY <1>12, <2>1 DEF ContainerStops, Awaits, Looping, ContainersInTurn, ContainersAccounted, StepFits, Sorts, DockerSteps
  <2> QED
    BY <2>1, <2>2, <2>3, <2>4
<1>13. CASE ContainerRemoved
  <2>1. ServersTypeOK'
    BY <1>13 DEF ContainerRemoved, Forget, Advance, Looping, DockerSteps
  <2>2. StepFits'
    BY <1>13 DEF ContainerRemoved, Forget, Advance, Looping, StepFits, DockerSteps
  <2>3. LoopsDone'
    BY <1>13, <2>1 DEF ContainerRemoved, Forget, Advance, Looping, LoopsDone, StepFits, Healthy, Sorts
  <2>4. ContainersInTurn' /\ ContainersAccounted'
    BY <1>13, <2>1 DEF ContainerRemoved, Forget, Advance, Looping, ContainersInTurn, ContainersAccounted, StepFits, Sorts, DockerSteps
  <2> QED
    BY <2>1, <2>2, <2>3, <2>4
<1>14. CASE StopFails
  <2>1. ServersTypeOK'
    BY <1>14 DEF StopFails, Forget, Advance, Looping, DockerSteps
  <2>2. StepFits'
    BY <1>14 DEF StopFails, Forget, Advance, Looping, StepFits, DockerSteps
  <2>3. LoopsDone'
    BY <1>14, <2>1 DEF StopFails, Forget, Advance, Looping, LoopsDone, StepFits, Healthy, Sorts
  <2>4. ContainersInTurn' /\ ContainersAccounted'
    BY <1>14, <2>1 DEF StopFails, Forget, Advance, Looping, ContainersInTurn, ContainersAccounted, StepFits, Sorts, DockerSteps
  <2> QED
    BY <2>1, <2>2, <2>3, <2>4
<1>15. CASE Closed
  <2>1. ServersTypeOK'
    BY <1>15 DEF Closed, DockerSteps
  <2>2. StepFits'
    BY <1>15 DEF Closed, StepFits, DockerSteps
  <2>3. LoopsDone'
    BY <1>15, <2>1 DEF Closed, LoopsDone, StepFits, Healthy, Sorts
  <2>4. ContainersInTurn' /\ ContainersAccounted'
    BY <1>15, <2>1 DEF Closed, ContainersInTurn, ContainersAccounted, StepFits, Sorts, DockerSteps
  <2> QED
    BY <2>1, <2>2, <2>3, <2>4
<1>16. CASE UNCHANGED serverVars
  BY <1>16 DEF serverVars, StepFits, LoopsDone, Healthy, ContainersInTurn, ContainersAccounted
<1> QED
  BY <1>1, <1>2, <1>3, <1>4, <1>5, <1>6, <1>7, <1>8, <1>9, <1>10, <1>11, <1>12, <1>13, <1>14, <1>15, <1>16
     DEF ServersNext, Boot, Shutdown

LEMMA ServersInductive == ServersSpec => []ServersInv
  BY ServersInitHolds, ServersStep, PTL DEF ServersSpec
-----------------------------------------------------------------------------
\* A server that cannot be started or asked costs no other, however many
\* mcp-config.json has and whatever Docker and the servers do (the catch
\* blocks of initialize and registerAllServerTools).
THEOREM Isolation == ServersSpec => []FailureIsIsolated
<1>1. ServersInv => FailureIsIsolated
  BY DEF ServersInv, LoopsDone, FailureIsIsolated, Healthy
<1> QED
  BY ServersInductive, <1>1, PTL

\* A container the manager does not know of is being started or had a failure
\* (startServer adds the entry last, dispose takes all entries).
THEOREM Accounted == ServersSpec => []ContainersAccounted
<1>1. ServersInv => ContainersAccounted
  BY DEF ServersInv
<1> QED
  BY ServersInductive, <1>1, PTL
=============================================================================

--------------------------- MODULE Orchestration ---------------------------
(***************************************************************************)
(* OrchestrationService.streamExecute under several messages at once: the  *)
(* workflow runs (WorkflowGraph), their queues (AsyncQueue), the gateway's *)
(* loops that empty them, and what ties them together, the map             *)
(* sessionStreamHooks, which holds one pair of hooks per session, that of  *)
(* the message that came last.                                             *)
(*                                                                         *)
(* A step of a run is what happens between two awaits of its background    *)
(* task; the steps of all runs and loops interleave.  The text of a turn   *)
(* takes the same way as its end, so chunks are left out.                  *)
(***************************************************************************)
EXTENDS WorkflowGraph

CONSTANTS
    Handlers,     \* message:send events
    Sessions,
    Answers,      \* the outcomes that turns may have here
    Blank,        \* turns whose text is blank
    NoHandler,    \* undefined, in sessionStreamHooks
    Faults        \* TRUE: stores and agents may fail

ASSUME OrchestrationAssumption ==
    /\ Answers \subseteq Outcomes
    /\ Blank \subseteq Handlers \X Nat
    /\ NoHandler \notin Handlers

Q == INSTANCE AsyncQueue

VARIABLES
    session,   \* the session each message belongs to
    started,   \* handlers that have called streamExecute
    finished,  \* handlers whose background task is over
    run,       \* the graph state of each run
    queue,     \* the AsyncQueue of each run
    item,      \* the turn a loop is storing, <<>> if none
    hooks,     \* sessionStreamHooks: whose queue a session's hooks push to
    held,      \* the hooks that the current run_task of a run looked up
    turns,     \* turns a run has appended and handed to the hooks it holds
    rows       \* how often a turn was inserted into a session's messages

vars == <<session, started, finished, run, queue, item, hooks, held, turns, rows>>

MaxTurns == RecursionLimit \div 3

\* The i-th turn of the run that h started.
Turn == Handlers \X (1 .. MaxTurns)

\* What is queued: the end of a turn, or an event that is only forwarded.
TurnEnd(t) == [type |-> "agent_stream_end", turn |-> t, from |-> t[1]]
Forwarded(h, e) == [type |-> e.type, turn |-> <<>>, from |-> h]

Items == [type : {"agent_stream_end"}, turn : Turn, from : Handlers]
         \union [type : {"task_start", "complete", "needs_review",
                         "needs_decision", "handoff"},
                 turn : {<<>>}, from : Handlers]

Init ==
    /\ session \in [Handlers -> Sessions]
    /\ started = {} /\ finished = {}
    /\ run = [h \in Handlers |-> NewRun]
    /\ queue = [h \in Handlers |-> Q!NewQueue]
    /\ item = [h \in Handlers |-> <<>>]
    /\ hooks = [s \in Sessions |-> NoHandler]
    /\ held = [h \in Handlers |-> NoHandler]
    /\ turns = [h \in Handlers |-> 0]
    /\ rows = [s \in Sessions |-> [t \in Turn |-> 0]]

\* Mutant: one pair of hooks for the whole server.
StartUnkeyed(h) ==
    /\ h \notin started
    /\ started' = started \union {h}
    /\ hooks' = [s \in Sessions |-> h]
    /\ UNCHANGED <<session, finished, run, queue, item, held, turns, rows>>

\* handleMessage asks for the first event: the hooks of the session are
\* replaced and the background task starts.
Start(h) ==
    /\ h \notin started
    /\ started' = started \union {h}
    /\ hooks' = [hooks EXCEPT ![session[h]] = h]
    /\ UNCHANGED <<session, finished, run, queue, item, held, turns, rows>>

\* Mutant: the graph keeps one state per session.
BecomesShared(h, r) ==
    LET e == StateToEvent(r)
    IN /\ h \in started \ finished
       /\ run' = [g \in Handlers |-> IF session[g] = session[h] THEN r ELSE run[g]]
       /\ queue' = IF e = <<>> THEN queue
                   ELSE [queue EXCEPT ![h] = Q!Push(@, Forwarded(h, Head(e)))]
       /\ UNCHANGED <<session, started, finished, item, hooks, turns, rows>>

\* A node of h's run is done: its event goes to h's own queue.
Becomes(h, r) ==
    LET e == StateToEvent(r)
    IN /\ h \in started \ finished
       /\ run' = [run EXCEPT ![h] = r]
       /\ queue' = IF e = <<>> THEN queue
                   ELSE [queue EXCEPT ![h] = Q!Push(@, Forwarded(h, Head(e)))]
       /\ UNCHANGED <<session, started, finished, item, hooks, turns, rows>>

\* The nodes without an await; no message mentions anybody here.
Node(h) ==
    LET r == run[h]
    IN /\ \/ r.node = "hydrate" /\ Becomes(h, Hydrate(r))
          \/ r.node = "route" /\ Becomes(h, RouteMessage(r, <<>>))
          \/ r.node = "run_task" /\ Refuses(r) /\ Becomes(h, TaskRefused(r))
          \/ r.node = "check_output" /\ Becomes(h, CheckOutput(r))
          \/ r.node = "await_review" /\ Becomes(h, AwaitReview(r))
          \/ r.node = "route_agent" /\ Becomes(h, RouteAgent(r))
          \/ r.node = "handle_error" /\ Becomes(h, HandleError(r))
       /\ UNCHANGED held

\* run_task looks up the session's hooks, then waits for the context.
BeginTask(h) ==
    /\ h \in started \ finished
    /\ run[h].node = "run_task" /\ ~Refuses(run[h])
    /\ run' = [run EXCEPT ![h] = TaskBegun(@)]
    /\ held' = [held EXCEPT ![h] = hooks[session[h]]]
    /\ UNCHANGED <<session, started, finished, queue, item, hooks, turns, rows>>

Streaming(h) == h \in started \ finished /\ run[h].node = "streaming"

LoseContext(h) ==
    /\ Faults /\ Streaming(h)
    /\ run' = [run EXCEPT ![h] = ContextFailed(@)]
    /\ held' = [held EXCEPT ![h] = NoHandler]
    /\ UNCHANGED <<session, started, finished, queue, item, hooks, turns, rows>>

\* The agent fails, or the append of its turn.
FailTask(h) ==
    /\ Faults /\ Streaming(h)
    /\ \E worded \in BOOLEAN : Becomes(h, TaskFailed(run[h], worded))
    /\ held' = [held EXCEPT ![h] = NoHandler]

\* Mutant: only the first turn of a run is handed over.
HandOverOnce(h) ==
    /\ Streaming(h)
    /\ turns' = [turns EXCEPT ![h] = @ + 1]
    /\ run' = [run EXCEPT ![h].node = "logging"]
    /\ queue' = IF held[h] = NoHandler \/ turns[h] > 0 THEN queue
                ELSE [queue EXCEPT ![held[h]] = Q!Push(@, TurnEnd(<<h, turns[h] + 1>>))]
    /\ held' = [held EXCEPT ![h] = NoHandler]
    /\ UNCHANGED <<session, started, finished, item, hooks, rows>>

\* The turn is appended to the context and its end goes to whatever hooks
\* run_task looked up: those of h, those of a later message, or none.
HandOver(h) ==
    /\ Streaming(h)
    /\ turns' = [turns EXCEPT ![h] = @ + 1]
    /\ run' = [run EXCEPT ![h].node = "logging"]
    /\ queue' = IF held[h] = NoHandler THEN queue
                ELSE [queue EXCEPT ![held[h]] = Q!Push(@, TurnEnd(<<h, turns[h] + 1>>))]
    /\ held' = [held EXCEPT ![h] = NoHandler]
    /\ UNCHANGED <<session, started, finished, item, hooks, rows>>

\* The chain of thought is on disk, or could not be written.
EndTask(h) ==
    /\ run[h].node = "logging"
    /\ \/ \E o \in Answers : Becomes(h, TaskDone(run[h], o))
       \/ Faults /\ \E worded \in BOOLEAN : Becomes(h, TaskFailed(run[h], worded))
    /\ UNCHANGED held

\* Mutant: no finally block.
FinishRunLeaking(h) ==
    /\ h \in started \ finished /\ Over(run[h])
    /\ finished' = finished \union {h}
    /\ queue' = [queue EXCEPT ![h] = IF run[h].node = "end" THEN Q!End(@) ELSE Q!Fail(@)]
    /\ UNCHANGED <<session, started, run, item, hooks, held, turns, rows>>

\* Mutant: the error of the graph is only logged.
FinishRunUnreported(h) ==
    /\ h \in started \ finished /\ Over(run[h])
    /\ finished' = finished \union {h}
    /\ queue' = [queue EXCEPT ![h] = IF run[h].node = "end" THEN Q!End(@) ELSE @]
    /\ hooks' = [hooks EXCEPT ![session[h]] = NoHandler]
    /\ UNCHANGED <<session, started, run, item, held, turns, rows>>

\* The background task ends or fails its queue; its finally block deletes the
\* hooks of the session, whoever set them.
FinishRun(h) ==
    /\ h \in started \ finished /\ Over(run[h])
    /\ finished' = finished \union {h}
    /\ queue' = [queue EXCEPT ![h] = IF run[h].node = "end" THEN Q!End(@) ELSE Q!Fail(@)]
    /\ hooks' = [hooks EXCEPT ![session[h]] = NoHandler]
    /\ UNCHANGED <<session, started, run, item, held, turns, rows>>

\* Mutant: "complete" stores the last turn, too.
TakeAndStore(h) ==
    LET e == Head(queue[h].items)
    IN /\ h \in started /\ Q!Yields(queue[h])
       /\ IF e.type \in {"agent_stream_end", "complete"}
          THEN /\ queue' = [queue EXCEPT ![h] = Q!Yield(@)]
               /\ item' = [item EXCEPT ![h] = IF e.type = "complete"
                                             THEN <<h, turns[h]>> ELSE e.turn]
          ELSE /\ queue' = [queue EXCEPT ![h] = Q!AskAgain(Q!Yield(@))]
               /\ UNCHANGED item
       /\ UNCHANGED <<session, started, finished, run, hooks, held, turns, rows>>

\* The loop in handleMessage is resumed.  An event that is only forwarded
\* does not keep it; a turn does, until it is stored.
Take(h) ==
    LET e == Head(queue[h].items)
    IN /\ h \in started /\ Q!Yields(queue[h])
       /\ IF e.type = "agent_stream_end"
          THEN /\ queue' = [queue EXCEPT ![h] = Q!Yield(@)]
               /\ item' = [item EXCEPT ![h] = e.turn]
          ELSE /\ queue' = [queue EXCEPT ![h] = Q!AskAgain(Q!Yield(@))]
               /\ UNCHANGED item
       /\ UNCHANGED <<session, started, finished, run, hooks, held, turns, rows>>

Wait(h) ==
    /\ h \in started /\ Q!Parks(queue[h])
    /\ queue' = [queue EXCEPT ![h] = Q!Park(@)]
    /\ UNCHANGED <<session, started, finished, run, item, hooks, held, turns, rows>>

\* The generator returns, or throws the run's error into handleMessage.
Stop(h) ==
    /\ h \in started /\ Q!Finishes(queue[h])
    /\ queue' = [queue EXCEPT ![h] = Q!Finish(@)]
    /\ UNCHANGED <<session, started, finished, run, item, hooks, held, turns, rows>>

\* mirrorAssistantTurnToStorage, into the session the loop serves: a blank
\* turn is dropped, any other inserted.
Mirror(h) ==
    /\ item[h] # <<>>
    /\ rows' = IF item[h] \in Blank THEN rows
               ELSE [rows EXCEPT ![session[h]][item[h]] = @ + 1]
    /\ item' = [item EXCEPT ![h] = <<>>]
    /\ queue' = [queue EXCEPT ![h] = Q!AskAgain(@)]
    /\ UNCHANGED <<session, started, finished, run, hooks, held, turns>>

\* The insert is rejected: the loop is left and the queue with it.
MirrorFails(h) ==
    /\ Faults /\ item[h] \notin Blank \union {<<>>}
    /\ item' = [item EXCEPT ![h] = <<>>]
    /\ queue' = [queue EXCEPT ![h] = Q!Abandon(@)]
    /\ UNCHANGED <<session, started, finished, run, hooks, held, turns, rows>>

Background(h) ==
    \/ Node(h) \/ BeginTask(h) \/ LoseContext(h) \/ FailTask(h)
    \/ HandOver(h) \/ EndTask(h) \/ FinishRun(h)

Loop(h) == Take(h) \/ Wait(h) \/ Stop(h) \/ Mirror(h) \/ MirrorFails(h)

Next == \E h \in Handlers : Start(h) \/ Background(h) \/ Loop(h)

\* Agents, stores and the event loop of Node answer; a message need not come.
Fairness == \A h \in Handlers : WF_vars(Background(h)) /\ WF_vars(Loop(h))

Spec == Init /\ [][Next]_vars /\ Fairness
-----------------------------------------------------------------------------
TypeOK ==
    /\ session \in [Handlers -> Sessions]
    /\ finished \subseteq started /\ started \subseteq Handlers
    /\ \A h \in Handlers :
          /\ run[h] \in Runs \/ run[h].node = "logging"
          /\ queue[h] \in Q!Queue(Items)
    /\ item \in [Handlers -> Turn \union {<<>>}]
    /\ hooks \in [Sessions -> Handlers \union {NoHandler}]
    /\ held \in [Handlers -> Handlers \union {NoHandler}]
    /\ turns \in [Handlers -> 0 .. MaxTurns]
    /\ rows \in [Sessions -> [Turn -> Nat]]

\* The map never keeps the hooks of a run that is over: what a finished
\* message leaves behind is nothing, however runs of a session overlap.
HooksReleased ==
    \A s \in Sessions :
        hooks[s] # NoHandler => /\ hooks[s] \in started \ finished
                                /\ session[hooks[s]] = s

\* Nothing of one session reaches a client or a row of another, although all
\* runs share one service, one graph and one map.
SessionsIsolated ==
    /\ \A h \in Handlers :
         /\ \A i \in 1 .. Len(queue[h].items) :
               session[queue[h].items[i].from] = session[h]
         /\ held[h] # NoHandler => session[held[h]] = session[h]
    /\ \A s \in Sessions, t \in Turn : rows[s][t] > 0 => session[t[1]] = s

\* A turn is inserted at most once, whichever loop it was given to.
MirroredAtMostOnce == \A s \in Sessions, t \in Turn : rows[s][t] <= 1

Alone(h) == \A g \in Handlers : session[g] = session[h] => g = h

Mirrored(h) ==
    \A i \in 1 .. turns[h] : <<h, i>> \notin Blank => rows[session[h]][<<h, i>>] = 1

\* A message that has its session for itself and is answered, with a result
\* or an error, has every turn of its run in the database by then, those of a
\* handoff chain included (chat.gateway.ts:206-207), but for turns without
\* text, which get no row (chat.gateway.ts:520).
AnsweredMeansMirrored ==
    \A h \in Handlers :
        (Alone(h) /\ queue[h].reader \in {"returned", "threw"}) => Mirrored(h)

\* The same for all messages, also those that share their session.
EveryTurnMirrored ==
    \A h \in Handlers :
        (\A g \in Handlers : queue[g].reader \in {"returned", "threw"}) => Mirrored(h)

\* No message hangs: whoever sleeps waits for a run that still goes on and
\* that has told everything it had to tell.  A run ends its queue however it
\* ends, so that together with the queue's own liveness every message ends.
NobodyLeftWaiting ==
    \A h \in Handlers :
        queue[h].reader = "parked" =>
            h \in started \ finished /\ queue[h].items = <<>> /\ queue[h].waiters > 0
=============================================================================

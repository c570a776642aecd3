---------------------------- MODULE WorkflowRun ----------------------------
(***************************************************************************)
(* One run of the workflow graph, from the message that starts it to its   *)
(* last node, and the events its caller is sent.                           *)
(***************************************************************************)
EXTENDS WorkflowGraph, FiniteSets

CONSTANT MaxMentions    \* mentions in one message (a bound of the model)

VARIABLES
    mentions,  \* MessageRouter.parseMessage: the names after @, in order
    run,       \* the graph's state
    events     \* history: the events of the run, in order

vars == <<mentions, run, events>>

Messages == UNION {[1 .. n -> Names] : n \in 0 .. MaxMentions}

Init ==
    /\ mentions \in Messages
    /\ run = NewRun
    /\ events = <<>>

\* A node is done: its state is merged and streamExecute derives an event.
Becomes(r) ==
    /\ run' = r
    /\ events' = events \o StateToEvent(r)
    /\ UNCHANGED mentions

\* As Becomes, after the hook has sent the turn's text and its end.
BecomesAfterTurn(r) ==
    LET a == AgentOf[run.active]
    IN /\ run' = r
       /\ events' = events \o <<Event("agent_stream_end", a, None)>> \o StateToEvent(r)
       /\ UNCHANGED mentions

DoHydrate == run.node = "hydrate" /\ Becomes(Hydrate(run))

DoRoute == run.node = "route" /\ Becomes(RouteMessage(run, mentions))

RefuseTask == run.node = "run_task" /\ Refuses(run) /\ Becomes(TaskRefused(run))

BeginTask ==
    /\ run.node = "run_task" /\ ~Refuses(run)
    /\ run' = TaskBegun(run)
    /\ UNCHANGED <<mentions, events>>

\* getContext is rejected; streamExecute fails its queue.
LoseContext ==
    /\ run.node = "streaming"
    /\ run' = ContextFailed(run)
    /\ UNCHANGED <<mentions, events>>

FinishTask ==
    /\ run.node = "streaming"
    /\ \E o \in Outcomes : BecomesAfterTurn(TaskDone(run, o))

\* The agent, or the append of its turn, fails.
FailTask ==
    /\ run.node = "streaming"
    /\ \E worded \in BOOLEAN : Becomes(TaskFailed(run, worded))

\* cotWriter.writeAgentThinking fails: the turn has been handed over by then.
FailLogging ==
    /\ run.node = "streaming"
    /\ \E worded \in BOOLEAN : BecomesAfterTurn(TaskFailed(run, worded))

DoCheckOutput == run.node = "check_output" /\ Becomes(CheckOutput(run))

DoAwaitReview == run.node = "await_review" /\ Becomes(AwaitReview(run))

DoRouteAgent == run.node = "route_agent" /\ Becomes(RouteAgent(run))

DoHandleError == run.node = "handle_error" /\ Becomes(HandleError(run))

Next ==
    \/ DoHydrate \/ DoRoute
    \/ RefuseTask \/ BeginTask \/ LoseContext
    \/ FinishTask \/ FailTask \/ FailLogging
    \/ DoCheckOutput \/ DoAwaitReview \/ DoRouteAgent \/ DoHandleError

Spec == Init /\ [][Next]_vars
-----------------------------------------------------------------------------
TypeOK ==
    /\ mentions \in Messages
    /\ run \in Runs
    /\ \A i \in 1 .. Len(events) :
          events[i].type \in {"task_start", "agent_stream_end", "complete",
                              "needs_review", "needs_decision", "handoff"}

Is(i, type) == events[i].type = type

Turns == {i \in 1 .. Len(events) : Is(i, "agent_stream_end")}

\* "complete" is the last thing a caller hears of a run, it is sent once, and
\* it names the agent whose task was started last (chat.gateway.ts:219 takes
\* it for the end of the workflow).  In between that task has ended, or it has
\* failed and a decision has been asked for: check_output takes an error
\* without a message (workflow.graph.ts:253) for success.
CompleteIsLast ==
    \A i \in 1 .. Len(events) :
        Is(i, "complete") =>
            /\ i = Len(events) /\ run.node = "end"
            /\ \E j \in 1 .. i - 2 :
                  /\ Is(j, "task_start") /\ AgentOf[events[j].who] = events[i].who
                  /\ \A k \in j + 1 .. i - 1 : k \in Turns \/ Is(k, "needs_decision")

\* Every turn is announced to the client before it is over: the latest
\* task_start names the agent, and belongs to no earlier turn.  A handoff is
\* followed at once by the task_start of the agent it names.
TurnsAnnounced ==
    /\ \A i \in Turns :
         \E j \in 1 .. i - 1 :
            /\ Is(j, "task_start") /\ AgentOf[events[j].who] = events[i].who
            /\ \A k \in j + 1 .. i - 1 : ~Is(k, "task_start") /\ k \notin Turns
    /\ \A i \in 1 .. Len(events) - 1 :
         Is(i, "handoff") =>
            Is(i + 1, "task_start") /\ events[i + 1].who = events[i].to

\* Once the client has been asked for a decision on an error, no agent takes
\* another turn in this run, whatever the failed agent's output asked for.
NoTurnAfterFailure ==
    \A i \in 1 .. Len(events) :
        Is(i, "needs_decision") => \A j \in Turns : j < i

\* A turn that asks for a review and hands over at once: the client is told of
\* the review before the graph goes on to the next agent.
ReviewIsTold ==
    run.result.review /\ run.node \notin {"check_output", "error"} =>
        \E i \in 1 .. Len(events) : /\ Is(i, "needs_review")
                                   /\ \A j \in Turns : j < i

\* A run that ends without an exception has told the client how: a result or
\* a request for a decision is its last event.
EndIsAnnounced ==
    run.node = "end" =>
        /\ events # <<>>
        /\ Is(Len(events), "complete") \/ Is(Len(events), "needs_decision")

\* However the agents hand over to each other, the recursion limit lets one
\* message start a third of its supersteps as turns and no more.
TurnsAreBounded == 3 * Cardinality(Turns) <= RecursionLimit
=============================================================================

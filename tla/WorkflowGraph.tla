--------------------------- MODULE WorkflowGraph ---------------------------
(***************************************************************************)
(* The LangGraph workflow of workflow.graph.ts: its nodes, its edges and   *)
(* the events that OrchestrationService.stateToEvent derives from the      *)
(* state after each node.  A run is a record; every operator is one node,  *)
(* run_task is two (what comes before its first await, and its end).  The  *)
(* state of a run is private to it, so the operators serve one run         *)
(* (WorkflowRun) as well as several (Orchestration).                       *)
(*                                                                         *)
(* LangGraph itself is external: it runs one node per superstep, hands the *)
(* merged state to the next one, and throws GraphRecursionError when a run *)
(* needs more supersteps than its recursion limit.                         *)
(***************************************************************************)
EXTENDS Integers, Sequences

CONSTANTS
    Agents,          \* the adapters registered with AgentRouter
    Names,           \* words that may follow @ or stand in <handoff_agent>
    None,            \* null
    AgentOf,         \* nameToAgent after toLowerCase; None: no such agent
    NameOf,          \* agent.name
    DefaultName,     \* 'Claude' in route_message
    RecursionLimit   \* LangGraph's recursionLimit, 25 by default

ASSUME GraphAssumption ==
    /\ None \notin Agents \union Names
    /\ AgentOf \in [Names -> Agents \union {None}]
    /\ NameOf \in [Agents -> Names]
    /\ \A a \in Agents : AgentOf[NameOf[a]] = a
    /\ DefaultName \in Names
    /\ RecursionLimit \in Nat \ {0}

MaybeName == Names \union {None}

\* AgentRunResult: whose result, and what its output asks for.  It counts as
\* failed when it has an errorMessage, that is one that is not empty.
Results == [agent : Agents \union {None}, review : BOOLEAN,
            handoff : MaybeName, failed : BOOLEAN]

NoResult == [agent |-> None, review |-> FALSE, handoff |-> None, failed |-> FALSE]

\* What parseAgentOutput and the ReAct events of a successful turn amount to.
Outcomes == [review : BOOLEAN, handoff : MaybeName]

Runs ==
    [node : {"hydrate", "route", "run_task", "streaming", "check_output",
             "await_review", "route_agent", "handle_error", "end", "error"},
     active : MaybeName, handoff : MaybeName, result : Results,
     status : {"routing", "running", "handoff", "awaiting_review",
               "completed", "failed"},
     review : BOOLEAN, error : BOOLEAN, steps : 0 .. RecursionLimit]

\* createInitialState.
NewRun ==
    [node |-> "hydrate", active |-> None, handoff |-> None, result |-> NoResult,
     status |-> "routing", review |-> FALSE, error |-> FALSE, steps |-> 0]

Over(r) == r.node \in {"end", "error"}

\* The superstep of r.node ends and the edge leads to n.
Goto(r, n) ==
    [r EXCEPT !.steps = @ + 1,
              !.node = IF n # "end" /\ r.steps + 1 = RecursionLimit THEN "error" ELSE n]

\* hydrate_session_state copies the state.
Hydrate(r) == Goto(r, "route")

\* AgentRouter.route strips every mention from the text, also the unknown
\* ones, as soon as one of them names an agent.  MessageRouter keeps them all.
PlanMentions(mentions) ==
    IF \E i \in 1 .. Len(mentions) : AgentOf[mentions[i]] # None
    THEN <<>> ELSE mentions

\* route_message: the last mention left in the text, else the first one of
\* the original message, else the default agent.
RouteMessage(r, mentions) ==
    LET plan == PlanMentions(mentions)
    IN [Goto(r, "run_task") EXCEPT
            !.active = IF plan # <<>> THEN plan[Len(plan)]
                       ELSE IF mentions # <<>> THEN Head(mentions)
                       ELSE DefaultName,
            !.status = "running"]

\* run_task gives up before it does anything: no agent is selected, or the
\* name is nobody's.
Refuses(r) == IF r.active = None THEN TRUE ELSE AgentOf[r.active] = None

\* Mutant: only the status says that the task failed.
TaskRefusedQuietly(r) == [Goto(r, "check_output") EXCEPT !.status = "failed"]

TaskRefused(r) ==
    [Goto(r, "check_output") EXCEPT !.status = "failed", !.error = TRUE]

\* run_task looks the hooks up and waits for the context and the agent.
TaskBegun(r) == [r EXCEPT !.node = "streaming"]

\* getContext is rejected: it stands before the try, so the graph throws.
ContextFailed(r) == [r EXCEPT !.node = "error", !.steps = @ + 1]

\* Mutant: a handoff is followed without check_output.
TaskDoneHandsOver(r, o) ==
    [Goto(r, IF o.handoff = None THEN "check_output" ELSE "run_task") EXCEPT
        !.active = IF o.handoff = None THEN @ ELSE o.handoff,
        !.result = [agent |-> AgentOf[r.active], review |-> o.review,
                    handoff |-> o.handoff, failed |-> FALSE],
        !.status = "running", !.review = FALSE, !.error = FALSE]

\* The turn is over, appended, handed to the hooks and logged.
TaskDone(r, o) ==
    [Goto(r, "check_output") EXCEPT
        !.result = [agent |-> AgentOf[r.active], review |-> o.review,
                    handoff |-> o.handoff, failed |-> FALSE],
        !.status = "running", !.review = FALSE, !.error = FALSE]

\* The catch block: whatever the output asked for is forgotten.  The error may
\* have no message to show (an AggregateError has none): the state has its
\* error flag all the same, but the result does not count as failed.
TaskFailed(r, worded) ==
    [Goto(r, "check_output") EXCEPT
        !.result = [NoResult EXCEPT !.agent = AgentOf[r.active], !.failed = worded],
        !.status = "failed", !.review = FALSE, !.error = TRUE]

\* Mutant: status forgets the handoff.
CheckOutputForgets(r) ==
    LET res == r.result
        to == IF res.handoff = r.active THEN None ELSE res.handoff
        next == IF res.failed THEN "handle_error"
                ELSE IF res.review THEN "await_review"
                ELSE IF to # None THEN "route_agent"
                ELSE "end"
    IN [Goto(r, next) EXCEPT
            !.handoff = to,
            !.status = IF res.failed THEN "failed"
                       ELSE IF res.review THEN "awaiting_review"
                       ELSE "completed",
            !.review = res.review, !.error = res.failed]

\* Mutant: a handoff comes before a review.
CheckOutputHandsOver(r) ==
    LET res == r.result
        to == IF res.handoff = r.active THEN None ELSE res.handoff
        next == IF res.failed THEN "handle_error"
                ELSE IF to # None THEN "route_agent"
                ELSE IF res.review THEN "await_review"
                ELSE "end"
    IN [Goto(r, next) EXCEPT
            !.handoff = to,
            !.status = IF res.failed THEN "failed"
                       ELSE IF to # None THEN "handoff"
                       ELSE IF res.review THEN "awaiting_review"
                       ELSE "completed",
            !.review = res.review, !.error = res.failed]

\* check_output and the conditional edges behind it.  A handoff to the very
\* name the agent was called by is dropped; the error flag is recomputed from
\* the message in the agent's result, so that neither the flag of a refused
\* task nor that of an error without a message survives.
CheckOutput(r) ==
    LET res == r.result
        to == IF res.handoff = r.active THEN None ELSE res.handoff
        next == IF res.failed THEN "handle_error"
                ELSE IF res.review THEN "await_review"
                ELSE IF to # None THEN "route_agent"
                ELSE "end"
    IN [Goto(r, next) EXCEPT
            !.handoff = to,
            !.status = IF res.failed THEN "failed"
                       ELSE IF res.review THEN "awaiting_review"
                       ELSE IF to # None THEN "handoff"
                       ELSE "completed",
            !.review = res.review, !.error = res.failed]

\* await_human_review copies the state and does not wait.
AwaitReview(r) == Goto(r, "route_agent")

\* Mutant: the previous agent's result is kept.
RouteAgentKeepsResult(r) ==
    [Goto(r, "run_task") EXCEPT
        !.active = r.handoff, !.handoff = None,
        !.status = "running", !.review = FALSE, !.error = FALSE]

RouteAgent(r) ==
    [Goto(r, "run_task") EXCEPT
        !.active = r.handoff, !.handoff = None, !.result = NoResult,
        !.status = "running", !.review = FALSE, !.error = FALSE]

\* Mutant: an error is answered with a retry.
HandleErrorRetries(r) == Goto(r, "run_task")

HandleError(r) == [Goto(r, "await_review") EXCEPT !.status = "awaiting_review"]

Event(type, who, to) == [type |-> type, who |-> who, to |-> to]

\* stateToEvent after a node: no event or one.
StateToEvent(r) ==
    CASE r.status = "running" /\ r.active # None /\ r.result = NoResult ->
            <<Event("task_start", r.active, None)>>
      [] r.status = "completed" /\ r.result # NoResult ->
            <<Event("complete", r.result.agent, None)>>
      [] r.status = "awaiting_review" /\ r.review ->
            <<Event("needs_review", None, None)>>
      [] r.status = "failed" /\ r.error ->
            <<Event("needs_decision", None, None)>>
      [] r.status = "handoff" /\ r.handoff # None /\ r.active # None ->
            <<Event("handoff", r.active, r.handoff)>>
      [] OTHER -> <<>>
=============================================================================

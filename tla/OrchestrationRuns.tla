------------------------- MODULE OrchestrationRuns -------------------------
(***************************************************************************)
(* Orchestration as one message sees it, any one of them.  However many    *)
(* messages share the service, the graph and the map of hooks, the run of  *)
(* the observed one is a run as WorkflowRun describes it, and its queue is *)
(* an EventStream.  A history of what its run tells relates the two        *)
(* descriptions of a run.                                                  *)
(***************************************************************************)
EXTENDS Orchestration

CONSTANT Observed    \* the message

ASSUME ObservedAssumption == Observed \in Handlers

VARIABLE events      \* history: what its run has told, to whatever hooks

Tells(h, told) == events' = IF h = Observed THEN events \o told ELSE events

\* The end of a turn, as run_task hands it to the hooks.
TurnOver(h) == Event("agent_stream_end", AgentOf[run[h].active], None)

RunsInit == Init /\ events = <<>>

\* A node tells one event or none, and run_task the end of the turn.
RunsNext ==
    \E h \in Handlers :
        \/ (Node(h) \/ FailTask(h) \/ EndTask(h)) /\ Tells(h, StateToEvent(run'[h]))
        \/ HandOver(h) /\ Tells(h, <<TurnOver(h)>>)
        \/ (Start(h) \/ BeginTask(h) \/ LoseContext(h) \/ FinishRun(h) \/ Loop(h))
           /\ UNCHANGED events

RunsSpec == RunsInit /\ [][RunsNext]_<<vars, events>> /\ Fairness
-----------------------------------------------------------------------------
\* A turn that is handed over while run_task has not returned.  WorkflowRun
\* has no such state: there a task ends in one step.
Logging == run[Observed].node = "logging"

Run == INSTANCE WorkflowRun WITH
    MaxMentions <- 0,
    mentions <- <<>>,
    run <- IF Logging THEN [run[Observed] EXCEPT !.node = "streaming"]
           ELSE run[Observed],
    events <- IF Logging THEN SubSeq(events, 1, Len(events) - 1) ELSE events

Stream == INSTANCE EventStream WITH
    Item <- Items,
    pending <- queue[Observed].items,
    closing <- IF ~queue[Observed].done THEN "open"
               ELSE IF queue[Observed].err THEN "failed" ELSE "ended",
    reading <- IF queue[Observed].reader \in {"returned", "threw", "gone"}
               THEN queue[Observed].reader ELSE "yes"

\* Other messages, their runs and their loops change nothing for this one but
\* what its queue is given: its run keeps to the graph, its queue to what
\* streamExecute promises.
OnItsOwn == Run!Spec /\ Stream!SafeSpec
=============================================================================

----------------------------- MODULE AgentTurn -----------------------------
(***************************************************************************)
(* What an adapter does for one turn of an agent: the loop of model calls  *)
(* and tool calls.  A turn in mode "react" is executeWithReAct on top of   *)
(* ReActExecutorService.execute, one in mode "native" is streamGenerate;   *)
(* the three adapters are alike.  Turns of several sessions run at the     *)
(* same time and share one ToolRegistry, whose file and command tools are  *)
(* made for a session when a turn begins.                                  *)
(*                                                                         *)
(* A step is what runs from one await (the prompt, the model's stream, a   *)
(* tool) to the next.  The model is external: it may answer anything or    *)
(* fail.  So are the operating system's processes.                         *)
(***************************************************************************)
EXTENDS Integers, Sequences, FiniteSets

CONSTANTS
    Turns,      \* turns of agents, at most one at a time per workflow run
    Sessions,
    NoSession,  \* no tools are registered yet
    MaxSteps,   \* config.reactMaxSteps, 10 in the code
    MaxCalls,   \* tool calls in one response (a bound of the model)
    MaxAsks     \* requests of a native turn, which has no limit of its own
                \* (a bound of the model)

ASSUME TurnAssumption ==
    /\ NoSession \notin Sessions
    /\ MaxSteps \in Nat \ {0} /\ MaxCalls \in Nat \ {0} /\ MaxAsks \in Nat

VARIABLES
    session, mode,  \* of a turn
    bound,     \* the session whose directory the registered tools work in
    pc,        \* "idle", "prompt", "ask", "stream", "tool", "command", "over"
    steps,     \* stepCount
    asks,      \* history: requests to the model
    todo,      \* tool calls of the response that are still to be executed
    open,      \* calls in the message list without a tool message
    events,    \* what the adapter has yielded
    threw,     \* turns that ended with an exception
    process,   \* the command of a turn: "none", "running" or "killed"
    ran,       \* history: tool calls in the order they were executed
    touched    \* history: whose turn worked in whose directory

tools == <<process, ran, touched, bound>>
vars == <<session, mode, pc, steps, asks, todo, open, events, threw, tools>>

\* The i-th call in the answer to the n-th request of a turn, and whether the
\* model gave it an id.
Call == Nat \X (1 .. MaxCalls) \X BOOLEAN

\* A response: the tag it ends with (outside of a code block it is found, see
\* Parsed), whether a code block comes before the tag, whether it has a text,
\* how many tool calls, and whether these come with ids.
Response == {r \in [tag : {"none", "done", "handoff"}, block : BOOLEAN,
                    text : BOOLEAN, calls : 0 .. MaxCalls, ids : BOOLEAN] :
                 /\ r.tag # "none" \/ r.block => r.text
                 /\ r.calls = 0 => r.ids}

\* parseReactOutput takes the first code block for the whole answer, whether
\* it has tags or not.
Parsed(r) == IF r.block THEN "none" ELSE r.tag

Init ==
    /\ session \in [Turns -> Sessions]
    /\ mode \in [Turns -> {"react", "native"}]
    /\ bound = NoSession
    /\ pc = [t \in Turns |-> "idle"]
    /\ steps = [t \in Turns |-> 0]
    /\ asks = [t \in Turns |-> 0]
    /\ todo = [t \in Turns |-> <<>>]
    /\ open = [t \in Turns |-> {}]
    /\ events = [t \in Turns |-> <<>>]
    /\ threw = {}
    /\ process = [t \in Turns |-> "none"]
    /\ ran = [t \in Turns |-> <<>>]
    /\ touched = {}

Goto(t, label) == pc' = [pc EXCEPT ![t] = label]
Yield(t, es) == events' = [events EXCEPT ![t] = @ \o es]

\* A native turn that is left by an exception, a ReAct turn that catches it
\* and reports it as an event.
Fail(t) ==
    /\ Goto(t, "over")
    /\ IF mode[t] = "native"
       THEN threw' = threw \union {t} /\ UNCHANGED events
       ELSE Yield(t, <<"error">>) /\ UNCHANGED threw

\* registerSessionTools, before the first await: names that are taken are
\* skipped, so that the tools of the first turn stay.
Begin(t) ==
    /\ pc[t] = "idle"
    /\ bound' = IF bound = NoSession THEN session[t] ELSE bound
    /\ Goto(t, "prompt")
    /\ UNCHANGED <<session, mode, steps, asks, todo, open, events, threw,
                   process, ran, touched>>

\* The prompt is built (a native turn also logs the request), or is not.
Prompt(t) ==
    /\ pc[t] = "prompt"
    /\ \/ Goto(t, "ask") /\ UNCHANGED <<events, threw>>
       \/ Fail(t)
    /\ UNCHANGED <<session, mode, steps, asks, todo, open, tools>>

\* The head of the loop.
Ask(t) ==
    /\ pc[t] = "ask"
    /\ IF mode[t] = "react" /\ steps[t] >= MaxSteps
       THEN Goto(t, "over") /\ UNCHANGED asks
       ELSE /\ mode[t] = "native" => asks[t] < MaxAsks
            /\ asks' = [asks EXCEPT ![t] = @ + 1]
            /\ Goto(t, "stream")
    /\ UNCHANGED <<session, mode, steps, todo, open, events, threw, tools>>

Calls(t, r) == [i \in 1 .. r.calls |-> <<asks[t], i, r.ids>>]

\* The model's stream breaks.  ReAct takes the message of the error for what
\* the agent thought and ends the turn; what a native turn has shown stays.
ModelFails(t) ==
    /\ pc[t] = "stream"
    /\ Goto(t, "over")
    /\ IF mode[t] = "react"
       THEN Yield(t, <<"text">>) /\ UNCHANGED threw
       ELSE /\ Yield(t, <<>>) \/ Yield(t, <<"text">>)
            /\ threw' = threw \union {t}
    /\ UNCHANGED <<session, mode, steps, asks, todo, open, tools>>

\* Mutant: no return after the step that reports a handoff.
ReactAnswerGoesOn(t, r) ==
    /\ pc[t] = "stream" /\ mode[t] = "react"
    /\ \/ /\ Parsed(r) # "none"
          /\ Yield(t, <<Parsed(r)>>)
          /\ steps' = [steps EXCEPT ![t] = @ + 1]
          /\ Goto(t, IF Parsed(r) = "done" THEN "over" ELSE "ask")
          /\ UNCHANGED todo
       \/ /\ Parsed(r) = "none" /\ r.text /\ r.calls > 0
          /\ todo' = [todo EXCEPT ![t] = Calls(t, r)]
          /\ Goto(t, "tool")
          /\ UNCHANGED <<steps, events>>
    /\ UNCHANGED <<session, mode, asks, open, threw, tools>>

\* The answer of a ReAct step: a tag ends the loop; tool calls need a text
\* beside them; a text alone and an empty answer are steps, too.
ReactAnswer(t, r) ==
    /\ pc[t] = "stream" /\ mode[t] = "react"
    /\ \/ /\ Parsed(r) # "none"
          /\ \E thought \in {<<>>, <<"text">>} : Yield(t, Append(thought, Parsed(r)))
          /\ Goto(t, "over")
          /\ UNCHANGED <<steps, todo>>
       \/ /\ Parsed(r) = "none" /\ r.text /\ r.calls > 0
          /\ todo' = [todo EXCEPT ![t] = Calls(t, r)]
          /\ Goto(t, "tool")
          /\ UNCHANGED <<steps, events>>
       \/ /\ Parsed(r) = "none" /\ ~(r.text /\ r.calls > 0)
          /\ Yield(t, IF r.text THEN <<"text">> ELSE <<>>)
          /\ steps' = [steps EXCEPT ![t] = @ + 1]
          /\ Goto(t, "ask")
          /\ UNCHANGED todo
    /\ UNCHANGED <<session, mode, asks, open, threw, tools>>

\* The answer in a native turn: its text is passed on; without tool calls it
\* is the last one, else the message that makes the calls is appended.
NativeAnswer(t, r) ==
    /\ pc[t] = "stream" /\ mode[t] = "native"
    /\ Yield(t, IF r.text THEN <<"text">> ELSE <<>>)
    /\ todo' = [todo EXCEPT ![t] = Calls(t, r)]
    /\ open' = [open EXCEPT ![t] = @ \union {Calls(t, r)[i] : i \in 1 .. r.calls}]
    /\ Goto(t, IF r.calls = 0 THEN "over" ELSE "tool")
    /\ UNCHANGED <<session, mode, steps, asks, threw, tools>>
-----------------------------------------------------------------------------
Uses(t) == ran' = [ran EXCEPT ![t] = Append(@, Head(todo[t]))]

\* File and command tools work in the directory they were made for.
InDirectory(t) == touched' = touched \union {<<session[t], bound>>}

Shown == <<"observation">>

\* Mutant: only the first call of an answer is carried out in a native turn.
ResultDropsCalls(t, observations) ==
    /\ todo' = [todo EXCEPT ![t] = <<>>]
    /\ open' = [open EXCEPT ![t] = @ \ {Head(todo[t])}]
    /\ Goto(t, "ask")
    /\ UNCHANGED <<steps, events>>

\* The result of the call is there.  A native turn appends it and executes
\* the next call, under the id that is in the message with the call, be it
\* empty; ReAct appends the message with all calls and the result of the first,
\* shows the text and what there is to observe, and goes on.  For a call
\* without an id it makes one up, in the result only: that is an answer to none
\* of the calls.
Result(t, observations) ==
    LET calls == {todo[t][i] : i \in 1 .. Len(todo[t])}
        rest == Tail(todo[t])
        answered == {c \in {Head(todo[t])} : c[3]}
    IN IF mode[t] = "native"
       THEN /\ todo' = [todo EXCEPT ![t] = rest]
            /\ open' = [open EXCEPT ![t] = @ \ {Head(todo[t])}]
            /\ Goto(t, IF rest = <<>> THEN "ask" ELSE "tool")
            /\ UNCHANGED <<steps, events>>
       ELSE /\ todo' = [todo EXCEPT ![t] = <<>>]
            /\ open' = [open EXCEPT ![t] = @ \union (calls \ answered)]
            /\ \E shown \in observations : Yield(t, <<"text">> \o shown)
            /\ steps' = [steps EXCEPT ![t] = @ + 1]
            /\ Goto(t, "ask")

\* Mutant: executeToolCall lets the error of a tool through, so that
\* executeWithRetry runs the tool again.
RunToolRetried(t) ==
    /\ pc[t] = "tool"
    /\ Uses(t) /\ InDirectory(t)
    /\ UNCHANGED <<pc, todo, open, steps, events>> \/ Result(t, {<<>>, Shown})
    /\ UNCHANGED <<session, mode, asks, threw, process, bound>>

\* executeToolCall, for a file tool or one of an MCP server: its result or the
\* message of its error, either of which is a result.
RunTool(t) ==
    /\ pc[t] = "tool"
    /\ Uses(t)
    /\ InDirectory(t) \/ UNCHANGED touched
    /\ Result(t, {<<>>, Shown})
    /\ UNCHANGED <<session, mode, asks, threw, process, bound>>

\* A tool nobody registered, or a command that is not allowed or can not be
\* started: a result as well, and nothing has happened.
RefuseTool(t) ==
    /\ pc[t] = "tool"
    /\ Result(t, {Shown})
    /\ UNCHANGED <<session, mode, asks, threw, tools>>

\* CommandExecutor.execute starts a process and a timer.
Spawn(t) ==
    /\ pc[t] = "tool"
    /\ Uses(t) /\ InDirectory(t)
    /\ process' = [process EXCEPT ![t] = "running"]
    /\ Goto(t, "command")
    /\ UNCHANGED <<session, mode, steps, asks, todo, open, events, threw, bound>>

\* The process is gone before its time.
Close(t) ==
    /\ pc[t] = "command" /\ process[t] = "running"
    /\ process' = [process EXCEPT ![t] = "none"]
    /\ Result(t, {Shown})
    /\ UNCHANGED <<session, mode, asks, threw, ran, touched, bound>>

\* Mutant: the promise is resolved and the process goes on.
TimeoutLeaves(t) ==
    /\ pc[t] = "command"
    /\ Result(t, {Shown})
    /\ UNCHANGED <<session, mode, asks, threw, tools>>

\* Mutant: there is no timer.
TimeoutNever(t) == FALSE /\ TimeoutLeaves(t)

\* 30 seconds are over: the process is told to terminate ("killed") and not
\* waited for.
Timeout(t) ==
    /\ pc[t] = "command"
    /\ process' = [process EXCEPT ![t] = "killed"]
    /\ Result(t, {Shown})
    /\ UNCHANGED <<session, mode, asks, threw, ran, touched, bound>>

Answer(t) == \E r \in Response : ReactAnswer(t, r) \/ NativeAnswer(t, r)

Step(t) ==
    \/ Prompt(t) \/ Ask(t) \/ Answer(t) \/ ModelFails(t)
    \/ RunTool(t) \/ RefuseTool(t) \/ Spawn(t) \/ Timeout(t)

Next == \E t \in Turns : Begin(t) \/ Step(t) \/ Close(t)

\* Prompts, models and file operations answer and timers fire; a command may
\* run for ever.
Fairness == \A t \in Turns : WF_vars(Step(t))

Spec == Init /\ [][Next]_vars /\ Fairness
-----------------------------------------------------------------------------
TypeOK ==
    /\ session \in [Turns -> Sessions]
    /\ mode \in [Turns -> {"react", "native"}]
    /\ bound \in Sessions \union {NoSession}
    /\ pc \in [Turns -> {"idle", "prompt", "ask", "stream", "tool", "command", "over"}]
    /\ steps \in [Turns -> 0 .. MaxSteps]
    /\ asks \in [Turns -> Nat]
    /\ todo \in [Turns -> Seq(Call)] /\ ran \in [Turns -> Seq(Call)]
    /\ open \in [Turns -> SUBSET Call]
    /\ \A t \in Turns : pc[t] \in {"tool", "command"} <=> todo[t] # <<>>
    /\ events \in [Turns -> Seq({"text", "observation", "done", "handoff", "error"})]
    /\ threw \subseteq {t \in Turns : mode[t] = "native"}
    /\ process \in [Turns -> {"none", "running", "killed"}]
    /\ touched \subseteq Sessions \X Sessions

\* When the model is asked again, the calls it made before have their tool
\* messages: all of them in a native turn, the first of every answer in ReAct,
\* if the model gave it an id.
CallsAnswered ==
    \A t \in Turns :
        pc[t] = "stream" =>
            \A c \in open[t] : mode[t] = "react" /\ (c[2] > 1 \/ ~c[3])

\* However many answers, failing tools and killed commands there are, no call
\* is carried out twice: no file is written and no command started again for a
\* call that was already tried.  A failure is a result of executeToolCall
\* (tool-executor.service.ts:130-146), so that executeWithRetry never gets to
\* its second attempt.
ExecutedOnce ==
    \A t \in Turns : \A i, j \in 1 .. Len(ran[t]) : i # j => ran[t][i] # ran[t][j]

\* run_task keeps the last "done" and the last handoff it is given, whichever
\* came first: there is at most one of them, and nothing comes after it.
EndIsLast ==
    \A t \in Turns : \A i \in 1 .. Len(events[t]) :
        events[t][i] \in {"done", "handoff", "error"} =>
            i = Len(events[t]) /\ pc[t] = "over"

\* No process that nobody waits for is left to run: the turn goes on only when
\* the process is gone or has been told to terminate.
NoStrayCommand ==
    \A t \in Turns : process[t] = "running" => pc[t] = "command"

\* A ReAct turn comes to its end: whatever the model answers, tools return or
\* commands do, it is over after maxSteps requests at the latest.
TurnEnds ==
    \A t \in Turns :
        (mode[t] = "react" /\ pc[t] # "idle") ~> (pc[t] = "over" /\ asks[t] <= MaxSteps)

\* "directory (optional, default: session workspace)" (tool-executor.service
\* .ts:265): the tools a turn uses work in the directory of its own session.
ToolsStayHome == \A p \in touched : p[1] = p[2]
=============================================================================

# PeanutCafe: a verification project

PeanutCafe is a chat server in which several LLM agents (Claude, Codex, Gemini)
share one conversation. A NestJS backend talks to Vue clients over socket.io,
keeps the conversation in Redis and PostgreSQL and on disk, and runs a LangGraph
workflow for every message. This directory holds TLA+ models of the parts in
which order, concurrency and failure matter, the TLC runs that check them and
the TLAPS proofs about them. Paths are relative to the repository; the backend
is `src/`, the client `Frontend/`.

`PROJECT.json` is the index: it maps every definition to the lines it models and
lists the runs, one mutant per property (an operator named in the modules'
"Mutant:" comments that breaks the code the way a plausible slip would), the
hazards with the properties that cover them, and the theorems.

## The system

| part | state it keeps | operations | talks to |
|---|---|---|---|
| ChatGateway (`gateway/chat.gateway.ts`) | socket rooms | message:send, session:delete, session:history, connect, disconnect | everything below; clients by events |
| MessageRouter, AgentRouter | registered adapters by lower-case name | parseMessage, route, getAgentByName | gateway, graph |
| SessionManager | which client is in which session, three maps in memory | addClient, removeClient, getSessionClients | gateway |
| OrchestrationService, AsyncQueue | one queue per run, `sessionStreamHooks` (one pair of hooks per session) | streamExecute, push, end, fail, iterate | graph, gateway |
| WorkflowGraph (`orchestration/graph`) | the state of one run | seven nodes | adapters, context, CoT log, hooks |
| SessionContextService, ShortTermMemoryService | Redis list per session, 20 entries, with a TTL | getContext, append, load on a miss, clear | Redis, `messages` table |
| TranscriptService, WorkspaceService | a directory per session | appendEntry, delete | file system |
| SessionDeletion service, queue, worker | BullMQ jobs | deleteSession, add, process, onFailed | all three stores, gateway |
| Adapters, ReActExecutor | one loop per turn | streamGenerate | model APIs, tools |
| Tools, MCP client | registry, child process or HTTP session, pending requests | connect, listTools, callTool, disconnect | external servers |
| Prompt templates, CoT writer, file logger | caches, files | get, invalidate, append, rotate | file system |
| Front end (`Frontend/src/stores/chat.ts`) | socket, session, messages, draft, entry timer | enter, change session, connect, send, receive | gateway |

A message takes this way. `ChatGateway.handleMessage` appends the user's turn to
the Redis list (a miss reloads it from PostgreSQL), inserts it into PostgreSQL
and the transcript, and iterates over `OrchestrationService.streamExecute`. That
starts the graph as a background task and gives the gateway an `AsyncQueue`. The
graph's `run_task` looks up the session's hooks, reads the context, lets the
agent answer, appends the answer to the Redis list and hands the end of the turn
to the hooks, which push it to *their* queue; the gateway's loop takes it and
inserts it. Every node's state is turned into at most one client event. An
answer may name another agent, which then gets a turn in the same run.

Nothing in Node runs in parallel, but every `await` lets other handlers in: two
messages of one session interleave between any two storage commands, and so does
the deletion of the session. There is no lock and no version check in the code;
what holds, holds by the order of the commands. That order is what the models
are about. The properties that make each part correct:

- context: no turn doubled in any store, whatever expires, fails or crashes, and the order kept as far as the hooks of
  the runs do; for messages sent one by one, nothing lost, and the context of an agent is the end of the conversation;
- queue: first in first out, no lost wake-up, an error only after the last event;
- graph: the client can follow a run by its events, a failure stops the agents,
  the run is bounded however the agents hand over to each other;
- streamExecute: runs do not see each other across sessions, hooks do not
  outlive their run, every turn with a text gets to the database once, every message ends;
- deletion: what is announced as deleted is gone, what is queued is carried out, the session can be used again;
- a turn of an agent: ends, however the model answers; no tool call is carried out twice, those
  with an id are answered; tools work in the directory of the session;
- MCP client: one handshake at a time, no call in a session that is over, every call ends;
- client: one socket, one session on the screen, entering ends and is final; the manager knows who is connected;
- servers: a server that fails costs no other, no container is forgotten without a failure;
- files: no log line lost, doubled or out of order; who is told that a connection is established finds its templates;
  a cached template is no older than the last clearing; a debug conversation keeps what was answered.

## Modules

| module | what it is |
|---|---|
| `SessionMemory` | the context of one session: `handleMessage`'s user turn, `append`/`get`/`loadFromDatabase`/`save`, `getContext`, the hooks a round hands its turn to, the two mirrors |
| `SessionMemoryModes` | a session used in one of two ways, serial or busy, each with its own limits |
| `AsyncQueue` | the queue class as operators on a record; one operator per method and per segment of the async generator |
| `EventStream` | what a queue promises: an abstract FIFO stream that is closed once |
| `AsyncQueueRun` | a queue with one producer and one reader; refinement of `EventStream` |
| `WorkflowGraph` | the seven nodes, the edges and `stateToEvent`, as operators on the record of a run |
| `WorkflowRun` | one run from its message to its end, with the events it sends |
| `Orchestration` | several messages and sessions at once: `WorkflowGraph` runs, `AsyncQueue`s, gateway loops and the shared hooks map |
| `OrchestrationRuns` | `Orchestration` as one of the messages sees it: refinement of `WorkflowRun` and of `EventStream` |
| `SessionDeletion` | the gateway's deletion, the three stores, BullMQ and the worker, next to message handlers |
| `AgentTurn` | `executeWithReAct` on top of `ReActExecutorService`, and `streamGenerate`: prompt, model, tools, commands; the shared `ToolRegistry` |
| `McpClient` | the client of one MCP server over HTTP or a pipe: connect, disconnect, calls, replies, timers |
| `McpServers` | `McpServerManager` and `McpToolRegistry` from the start of the backend to its end: configuration, Docker calls, listing of tools, dispose |
| `SessionManager` | the class as operators on a record, one per method |
| `ClientSession` | a page of the Vue client (store and sockets) and the gateway's handleConnection, handleDisconnect and broadcasts; composes `SessionManager` |
| `SessionPrompts` | the prompt templates of a session: copied by connections, cached, read by `debug:prompt` events, whose conversation it keeps |
| `FileLogger` | the chain of writes with rotation, failing calls and restarts |
| `LogLine` | which values of `optionalParams` become context, trace and metadata of a line |
| `MC...` | the instances: model values and sets, and which modules share a run (below) |
| `...Proofs` | theorems, for each part of the system (below): `SessionMemoryProofs`, `QueueProofs`, `OrchestrationProofs`, `AgentTurnProofs`, `McpProofs`, `ClientSessionProofs`, `SessionFilesProofs`, `WorkflowRunProofs` |

`Orchestration` composes `WorkflowGraph` (EXTENDS) and `AsyncQueue` (INSTANCE), `ClientSession` composes `SessionManager`
(INSTANCE); that is why those are operators on records and keep no state of their own: `run[h]` and `queue[h]` belong to
handler `h`, and a manager is a record. `OrchestrationRuns` picks one message, any of them, and relates its part of the shared
system to the descriptions of that part alone: its record of the run and the events it tells to `WorkflowRun`, its queue to
`EventStream`. `run_task` announces the end of a turn one step before it returns; `WorkflowRun` does both at once, so the mapping shows
a run that is `Logging` as one whose task still streams, without the event it told last.

How state and actions correspond to the code:

- *Handlers and program counters.* `pc[h]` in `SessionMemory` and `SessionDeletion`
  names the `await` at which a handler is suspended; an action is what runs from
  one `await` to the next. `Get`, `Find`, `Fill`, `Save` are `redis.get`,
  `repository.find`, the `setex` that ends a miss and the one of `append`.
  `local[h]` is the array a handler holds over an `await`: the stale state.
- *Hooks.* `hooks` in `SessionMemory`, `hooks[s]` in `Orchestration`, is the session's one entry of `sessionStreamHooks`, the number of a handler. A run
  sets it when it starts (`orchestration.service.ts:95`) and deletes it when it is over (:124), whoever's it is by then; a round keeps what it found when it began
  (`workflow.graph.ts:98`) in `held`, and that is whose queue gets its turn. With two messages at once it may be the other's, or nobody's, and what is pushed
  on a queue whose loop has ended (`left`) is read by nobody.
- *Blank turns.* `Blank` is the set of assistant turns without a text. They are appended to the Redis list like all others (`workflow.graph.ts:153`), but get no
  row (`chat.gateway.ts:520`), so a reload after expiry does not show them.
- *Turns.* Texts are left out. A turn is a pair of its handler and its index in the
  run (0 is the user's), so that doubling and reordering are visible.
- *Runs.* `run.node` is the node LangGraph executes next; `Goto` counts supersteps and
  stops a run that exceeds the recursion limit. `run_task` has an `await` before
  its end and is two steps; in `Orchestration` it is three (`BeginTask`, where the
  hooks are looked up, `HandOver`, `EndTask`), because other runs get in between.
- *Events.* `stateToEvent`'s conditions are modelled in their order; an item of a queue is a
  type, the handler it comes from and, for the end of a turn, the turn.
- *Queues of jobs.* BullMQ jobs of a session are alike, so `waiting` counts them by
  attempts made.
- *Model answers.* A response is what the loop looks at: its tag, whether a code block hides the tag from
  `parseReactOutput`, whether there is text, how many calls, and whether these
  come with ids. A tool call is its request, its index and whether it has an id: one without is given an id in its tool message only (`react-executor.service.ts:125`).
- *MCP.* Node runs the continuations of settled promises before sockets, pipes and timers; `Quiet` says
  that none is due. A handshake is known by its number (`connectAttempt`), a session id by the handshake that got it; a reply in
  a pipe has two halves, so that chunks can cut it.
- *Pages.* `page` is the store; an operator such as `Connect` or `ChangeSession` maps a page to the page that the function of the
  same name leaves. A link is one socket of the page (`io()`); socket.io gives it a new client on the server each time it
  connects. `heard` says that the page's listeners are registered on it. `inbox[c]` are the events between client `c` and its page.
- *Servers.* `step` is the call that is awaited for the server the loop is at. A container exists, runs, has exited or is removed.
- *Templates.* Two stand for all: one that may be missing and one that must be there. A version is a number of edits; `Torn` is what
  a reader gets of a file that is being copied.
- *Log lines.* A line is its number and a size; time is in milliseconds, as in the names of the archives.
- Cleared variables (`local`, `context`, `held` after use) are dead in the code.
  `told`, `events` (of `WorkflowRun` and of `OrchestrationRuns`), `overlap`, `failures`, `asks`, `ran`, `touched`, `panelled`, `trouble`, `excused`, `fresh`, `ready`, `safe`, `since`,
  `raced` and `doubled` are history variables, as is `said` of `SessionMemory`; `astray` holds the handlers one of whose turns was pushed on another's queue.

External code, modelled from its use in the repository: Redis (atomic commands, a TTL
that may run out), PostgreSQL (atomic statements, foreign key with cascade),
LangGraph (supersteps, recursion limit), BullMQ (one worker, three attempts, "failed"
after every failed attempt), the agents (any outcome of a turn),
models (any answer, or an error), processes and MCP servers, Docker (every call may fail, a container may exit at any
moment), socket.io (events in order or lost with the wire, a new attempt after each loss but not after a kick), the file
system (`copyFile` empties its target first, `rename` replaces its target).

## Runs

`c` and `x` are two adapters; names include one nobody has and one that differs
from an adapter's name only by case. Four runs check two or three parts of the system that share no state
(`MCSessionMemoryModes`, `MCAsyncQueue`, `MCSessionFiles`, `MCMcpClient`): a behaviour is one of a single part, chosen
in the initial state, while the variables of the others stand still. So every part is explored in full and their products are not.

| run | question | instance and bounds |
|---|---|---|
| memory | can concurrent messages, expiry, failures or a crash double a turn, or reorder those of a run whose turns went to its own queue? With one message at a time, is the context the end of the conversation and is every turn with a text stored? | 2 handlers; the first answer to one of them is blank. At once: 2 rounds, lists cut at 3, so that trimming, misses in the middle of a conversation and reloads longer than the window all happen. One by one: 3 rounds, window 3, a list of 7 that the eighth turn overflows; 2,462,578 states |
| memory_lost | with two messages at once, does an agent see the message it answers? no | 1 round, no expiry, no faults |
| queue | does the event queue wake its reader, does it implement `EventStream` (and so keep the order)? Is a log line lost, doubled or out of order? | 4 different events, any interleaving of pushes, end, fail, reads and an early leave; 5 lines of 1 or 2 bytes, files of 3, 2 failures or restarts, 2 ms: two rotations in one millisecond and lines that fill a file exactly; 85,841 states |
| graph | the events of a run: announced turns and reviews, one last "complete", no turn after a failure, a known end, bounded turns | 4 names, at most 2 mentions, recursion limit 14: four turns and the limit, hit in every node; tasks fail with a message or without; 40,745 states |
| orchestration | hooks released, sessions isolated, turns stored at most once, answered means stored (but for blank turns), nobody waits for a run that is over; a message among others is a run of the graph and a stream (`OnItsOwn`) | 2 handlers, 2 sessions (any assignment), limit 7: two turns each; one of the handlers is observed, the first turn of one is blank; 3,246,801 states, symmetric in sessions |
| orchestration_overlap | is every turn stored when messages of one session overlap? no | one session, no faults |
| deletion | only a deletion makes the foreign key reject a turn, deleted means gone, a queued deletion is carried out; templates there when promised, cache current, debug conversation kept | 2 requests, 1 message, 4 failures: more than one job's three attempts. Or 1 request and 2 messages without failures. Or 2 connections and a prompt with two of an edit, a refresh and a deletion. Or 1 connection and 3 prompts, so that an array is both begun and continued; 852,548 states |
| deletion_survives | is the old conversation gone from Redis? no | 1 request, 1 message, no failure |
| agent_turn | does a turn end, once, with no call carried out twice, the calls answered, and without a stray process? | 1 turn in either mode, 3 steps, 2 calls per answer, 3 native requests: the limit is hit with thoughts, tools and empty answers, calls come with ids or without; 65,966 states |
| agent_turn_foreign | do the tools of a turn work in the directory of its session? no | 2 turns, 2 sessions |
| mcp | one handshake, no dead session, pending is timed, calls end; a failing server costs no other, no container is forgotten | 3 callers that connect or call, at most 4 connects and disconnects, either transport; or 3 servers, each enabled or not and of any of three sorts; 70,092 states |
| client | one socket, one session on the screen, the manager agrees, entering ends and is final | 2 sessions, any list of them or none, 2 sockets of the page, 3 connections of the server, 1 fault (cut, refused, reload, deletion), 1 message or reply; 929,886 states |

Why the bounds are enough: the code compares no numbers but the list limits, the attempts,
the steps of a turn and the recursion limit, and each instance crosses those from both sides. Interference is
always between two parties (two handlers, two runs of a session, a deletion and a
handler, a prompt and a copy), so two of each show it; one session suffices where the keys are per session. A page needs two
sockets, the old one and the new one, and three connections: two of them for the socket that reconnects. With two faults instead
of one (`MaxFaults = 2`, 4,766,313 states) TLC finds no error in `ClientSession` either; the run keeps to one for its time.

Deadlock is not checked: in every module the system may stop, when no more messages come.

Each of the violation runs refutes one sentence of the repository's documents or comments;
the sentence and the line are in `PROJECT.json` under "findings".

## Fairness

- `SessionMemory`: weak fairness of each handler's next step and of its mirror loop: Redis,
  PostgreSQL and agents answer, if need be with an error (timeouts of the clients turn
  silence into one). No fairness for messages, expiry, faults.
- `AsyncQueueRun`: of the reader, which is resumed by Node's microtask queue.
- `Orchestration` and `OrchestrationRuns`: of each background task and each gateway loop, for the same reasons.
- `SessionDeletion`: of each request, the worker and the pending `add`; failures are
  bounded by `MaxFailures`, that is, the stores recover at some time. Handlers of
  messages need none.
- `AgentTurn`: of each step of a turn: prompts and file tools are file operations, the OpenAI client has its own
  timeout, commands are killed after 30 s. A process itself may run for ever.
  An MCP tool answers if its server does (see below).
- `McpClient`: of continuations and timers, which Node runs whatever the server does, and of an HTTP server's
  answers. A process at the other end of a pipe may be silent.
- `ClientSession`: of the entry timer only; browsers fire timers. Neither users nor networks nor servers have to do anything,
  so `EntryEnds` holds without a backend.
- `memory` in its serial mode: as `SessionMemory`. `McpServers`, `SessionPrompts`, `FileLogger` and `WorkflowRun` state no liveness.

## Proofs

Assumptions: `MemoryAssumption` (positive sizes), `GraphAssumption` (the names of adapters find
them, a positive recursion limit), `ClientAssumption` (a number of connects and disconnects), `OrchestrationAssumption` (the answers considered are
outcomes a turn can have; "no hooks" is not a handler), `ObservedAssumption` (the observed message is one of the messages), `ServersAssumption` (a number of servers), `ClientSessionAssumption` (session ids are not the empty string, lists
are lists of ids, bounds are numbers), `TurnAssumption` (positive numbers of steps and calls, "no session" is not a session),
`LoggerAssumption` (sizes and bounds are numbers), `DeletionAssumption` (the worker is not a request, the time before the model is not a message),
`PromptsAssumption` (bounds are numbers; "none", a missing file and a torn one are not prompts or versions). All hold in the code and TLC
evaluates them in the runs.

Every invariant and action property of the passing runs is proved for all values of the constants, and so is the safety part of
each refinement. Each section names the strengthening without
which the property is not inductive.

**The context** (`SessionMemoryProofs`): `TypeOK` and `TurnsOnceInOrder` for any number of handlers, rounds and
any list sizes, with faults and expiry. `TurnsOnceInOrder` says of a run whose turns all went to its own queue that they keep their order, of any other that none
is doubled and the user's comes first. It is not inductive: that a push
never doubles a turn depends on where each handler stands. The invariant adds, for
every array (list, table, array in flight, context, outbox), a bound on the index of the turns
of handler `h` it may contain, by `pc[h]`: below `turn[h]` until its `Save`, and rows and outboxes
together never more than what has been appended. A turn is in one outbox only (`Apart`), in another handler's only if its own is `astray`, and may come after every
row of its handler (`OutboxOK`). The row is written after the
append; that order is exactly what the induction needs at `Find`.

`ContextTold` is about a session that is used by one message at a time, without faults, and whose key expires only while nothing is under way: then
`ContextIsHistory` holds for any limits, rounds and number of messages. `SerialContextTold` carries it over to `SessionMemoryModes`, which is what
the run `memory` checks: a behaviour is of one mode, and the steps of the busy one leave the serial promise alone. `Tidy` says where everything is: at most one handler is
active, and what was said is, but for blank answers, the table, then its outbox, then the turn that was just appended. `Remembered` puts the cache beside it: as long as the list holds the
conversation, a key that is there holds all of what was said, and a key that is not there leaves the table with all of it that has a text, because
the key goes only while nobody is active. Without `Tidy` a miss could reload a table that lags behind. From `Tidy` follows `NoTurnMissing`, too: under
the same conditions the rows are turns that were said, in their order, and a turn with a text that is in no row yet is in an outbox or was appended just now. That is the safety half of `SerialMirrored`.

**The queues** (`QueueProofs`): of `AsyncQueueRun`, for any set of events, `TypeOK`, `FirstInFirstOut`, `NoLostWakeup` and that every step
of the queue is a step of `EventStream` or a stutter. The invariant ties `waiters` to the reader: a
parked reader has a waiter, and then the queue is empty and open. Of `FileLogger`, `LogIsWhole` for any number of lines, sizes, failures and restarts, in its three parts: lines are in
order within a file and over the archives, every line that is done is in exactly one file unless it is excused, and files keep to their limit. `ChainIsRest` and
`WrittenIsDone` put every line that is still in the chain behind all that was written; `NamesOfPast` says that no archive has a name from the future, so that a rename
puts the current file behind all archives; `RoomForLine` carries the decision of `stat` to the append. Of `LogLine`, that each value
of `optionalParams` appears once in a line, as context, trace or metadata, but for an empty context, for any values.

**Runs of a session** (`OrchestrationProofs`), for any number of messages and sessions, any answers and any recursion limit:
`TypeOK`, `HooksReleased`, `SessionsIsolated`, `NobodyLeftWaiting`, `MirroredAtMostOnce` and `AnsweredMeansMirrored`. Five ideas carry it. (1) The turns of a run are bounded by a third
of its recursion limit: `StepsCover` gives for each node how many supersteps must have passed for
the turns so far, `2 + 3 * turns` at `run_task`, so `turns` stays within `MaxTurns` and `TypeOK` can be
closed. (2) Whatever a run holds or has sent came from hooks of its own session: `HooksReleased` says it
of the map, and `QueuesSound`, `LoopsSound`, `RowsSound` carry it from a lookup to the queue, to the loop
that took an item and to the row. (3) `Wakeful`, an invariant on top of the first: the queue of a run that is over is done, and
a sleeping reader has a waiter and an empty, open queue. Every push and every end resolves that waiter, whoever
pushes, so that no interleaving of a session's runs loses a wakeup. (4) `OnePlace`: a turn is in one queue
at one index, or with one loop, and then in no row yet; `RowsOnce` adds that whatever was stored has been appended, so that the turn a run
hands over next is nowhere. (5) `Complete`, for a message that never shared its session with another run: its hooks are registered as long as its run is not over
and each of its turns looked up those, so every turn so far is in its row, with its loop or in its own queue (`Placed`), or blank;
a queue is closed by the end of its run only, and when the loop has returned the queue is empty (`Undisturbed`). What remains is the row.

**A message among others** (`OrchestrationProofs`, last part, about `OrchestrationRuns`): however many messages and sessions there are, the observed one behaves as if it
had the service to itself. `StreamKept`: its queue is an `EventStream`. Every step of a queue has a lemma (`PushSends`, `EndCloses`, `YieldDelivers`, ...; `WakeStream`: waking a reader
is no step of the stream), and the steps of the others either leave this queue alone or push to it, as a task does that looked up the hooks of a later message. That a queue is closed once needs `LoopsRun`: who
has not finished has not closed its queue. `RunKept`: its run is a run of `WorkflowRun`. The invariant is `LastTold`: as long as the task is logging, the last event told is the end of
its turn, so that the event the mapping hides is that one. `EachOnItsOwn` is both, `OnItsOwn` of the run `orchestration`. Therefore what is proved of
`WorkflowRun` need not be proved again: `PromisesKept` takes `CompleteIsLast`, `TurnsAnnounced`, `NoTurnAfterFailure`, `ReviewIsTold`, `EndIsAnnounced` and `TurnsAreBounded` over from
`WorkflowRunProofs` under the mapping. They are about what a run tells its hooks. Who gets the end of a turn is another matter: messages of one session can take each other's
(`orchestration_overlap`), and `NoTurnLost` says when they do not, of turns that have a text. Messages in `Orchestration` mention nobody, so the run is that of `MaxMentions = 0`.

**A turn of an agent** (`AgentTurnProofs`), for any number of turns, sessions, steps and calls and any answers of the model: `TypeOK`, `CallsAnswered`, `ExecutedOnce`,
`NoStrayCommand`, `EndIsLast`, and that a ReAct turn asks the model at most `maxSteps` times. A call is its request and its index, and `InOrder` says that what was
carried out lies before what is to be done in that order (the call whose command runs is in both): carrying out the next one can not repeat one. `OpenCalls`
says which calls may lack their message: those still to be done in a native turn, those behind the first of an answer in ReAct. `StepsLeft`
ties the requests to the steps. `EndIsLast` needs that a turn that goes on has yielded no end (`EndsAt`).

**The MCP client and the servers** (`McpProofs`): of `McpClient`, for any number of callers, connects and disconnects, over either transport, `TypeOK`, `OneHandshake`,
`SessionIsCurrent` and `PendingIsTimed`. The invariant adds `Handshakes` (the promise that callers share and the
controller that `disconnect` aborts are the same attempt, the latest one, and there is no other handshake) and `Handless` (no
handshake over a pipe). Without it an attempt that was aborted could still store its session. Of `McpServers`, for any number of servers,
`FailureIsIsolated` and `ContainersAccounted`. The invariant follows the loops:
the servers a loop has passed are done or in trouble, the one it is at has got as far as `step` says, the ones after it are
untouched, and a container that is neither known nor gone belongs to the call under way.

**Pages and the manager** (`ClientSessionProofs`), for any number of sessions, sockets, connections, faults and messages: `ManagerAgrees`, `OneSocket`, `ViewOfSession` and
the action property `EntrySettles`. The three maps of the
manager change at a connection, a disconnection and a deletion only; `AddFields`, `RemoveFields` and `RemoveOneFields` say what its methods
do to each of them, `ManagedRemoval` covers one client that goes and a session that is deleted alike. What the
induction needs of the page is `PageOK`: a socket that connects has a session (`connect` opens none without), because the empty
string is what the manager's maps answer for a client that they do not know. Each function of the store has its lemma. For the socket,
`Sockets` is `OneSocket` for a page between two calls, and `Entering` says that the timer always has a session to fall back on: without one,
`connect` would leave the old socket open under a page that shows "disconnected". `ViewOfSession` follows what is shown back to where it came from: what is on
its way to a connection is of the connection's session (`InFlightBound`), a connection has the session of its link for good (`ClientsBound`), and the one
link that the page listens to has the page's session unless the panel changed it (`Fits`). `EntrySettles` needs `Settled` only: a page that waits for a list has none yet, and
one that has entered does not wait.

**Deletion, templates, debug prompts** (`SessionFilesProofs`): of `SessionDeletion`, for any number of requests, messages and failures, `TypeOK`, `DeletedMeansGone`,
the action property `OnlyDeletionRejects`, and `QueuedHasJob`: a request that was answered "queued" and is not carried out has a job that waits, is worked on or is about to be added again, which
is the safety half of `QueuedIsCarriedOut`. `OnlyDeletionRejects` rests on `RowStands`: a handler that is past its look at the row finds
the row, or a deletion has met it, because only a deletion takes the row away and then all handlers at work are in `overlap` (`DeletesAlone`). For `DeletedMeansGone`, `OldStaysCleared` says of each
pass of `deleteSession`, by where it stands, which stores are clear of old turns, and `LocalInHand` that no handler brings them back from
an array it holds, which only one that was at work meanwhile could (`DeletesAlone`). Of `SessionPrompts`, for any number of connections, prompts, edits,
refreshes and deletions: `PromptsTypeOK`, `EstablishedIsReady`, `CacheIsCurrent` and `ConversationIsKept`. `CopyThere`
and `ReadyThere` carry the promise from the copy of a connection that met no deletion to the moment it is told; `SinceCleared` says of the cache, and of what is read
and about to be cached, that it is a version the directory has had since the last clearing; `Said` and `OneArray` that all prompts under way
work on the array that is kept, unless two were both the first.

**Runs of the graph** (`WorkflowRunProofs`), for any adapters, names, messages, answers and recursion limit: `TypeOK` and every invariant of `WorkflowRun`. None of them
is inductive: what may be sent next depends on where the graph stands. `Story` relates the run's record to the events
so far: `Shape` is what the next node relies on (a task that runs has announced its agent last, a failed result asks for nothing),
`Course` what is in flight (a handoff sent last waits at `route_agent` under the same name; once a decision was asked for, no name is left to
hand over to), and `StepsCover` that three supersteps were spent on each turn. Each node has its lemma, and `TaskStarts`, `TurnEnds`
and `ReviewPasses` hold what several nodes do alike. `CompleteIsLast` names the agent of the last task, not of the last turn that ended: a task whose error has no message
is told as failed and, one event later, as complete (below).

`TypeOK` is proved of `SessionMemory`, `AsyncQueueRun`, `Orchestration`, `McpClient`, `WorkflowRun`, `AgentTurn`, `SessionDeletion` and `SessionPrompts`;
most runs leave these invariants out.

**What is left to do.** Liveness itself is out of reach for TLAPS, but the measures that decrease on the way are not. `TasksRunDry`: every step of a
background task makes `Remaining` of its message smaller (three steps at most for each superstep that is left, then the finally block), and the other
messages do not touch it. `TurnsRunDry`: the same of a ReAct turn with four steps for each step of `maxSteps`. `JobsRunDry`: a failed
attempt adds up to two jobs, but uses up a failure that weighs more than both; so all jobs of a session drain, not only up to the first success, which is
where `QueuedIsCarriedOut` ends. These are action properties of the specification, proved for all constants; that a step is taken as long as
the measure is not zero is what the fairness adds, and what TLC checks.

Model-checked only: liveness (`SerialMirrored`, `QueuedIsCarriedOut`, `TurnEnds`, `CallsEnd`, `EntryEnds`
and the liveness of `EventStream`), which TLAPS does not do; and, of course, the violations.

## Observations without a run

- `workflow.graph.ts:231`: a message that mentions an unknown name first ("@bard @claude") selects
  the unknown name and is answered by nobody, while `docs/websocket-events.md:122` says that only the mentioned agents
  answer. `PlanMentions` has the reason: `AgentRouter.route` drops all mentions if one is known.
- `workflow.graph.ts:249`: a handoff to oneself is recognised by the name as it was written, so "claude" hands
  over to "Claude"; `prompt-template.service.ts:84` tells agents that handoffs go to others. Runs stay
  bounded all the same (`TurnsAreBounded`).
- `short-term-memory.service.ts:71-75`: once the TTL of a conversation with more than `MAX_MESSAGES` rows has run
  out, `loadFromDatabase` takes the first 20 rows in ascending order, the oldest ones, while `2026-03-20-phase1-iteration-plan.md:104`
  speaks of the most recent 20 ("最近 20 条消息"). `ContextIsHistory` therefore stops at `MaxMessages`; without that
  condition TLC has a counterexample in 2 turns of a list of 2.
- `workflow.graph.ts:276-279`: `await_human_review` copies the state and goes on, so a turn that asks for a review and
  hands off starts the next agent at once; `2026-03-27-langgraph-workflow-revision-design.md:27` says that the node pauses ("暂停等待人工审核").
- `react-executor.service.ts:138`: tool calls of an answer without text are dropped, and of several calls the first is
  carried out while the message with all of them is kept, so that the model is asked with calls left open. `CallsAnswered` says exactly this much.
- `react-executor.service.ts:89-93`: an error of the model becomes the text of an ordinary turn. The adapters' "error" event
  is only logged by `run_task`, too, while `2026-03-30-agent-react-design.md:577` sends such errors to `handle_error`.
- `parse-react-tags.ts:26-29`: `extractTagsFromText` never returns nothing, so the first code block is all that is looked at; the
  comment at line 31 has the whole text searched. An answer with code before its `<done>` goes on to the next step.
- `react-executor.service.ts:222`: `executeWithRetry` never retries, since `executeToolCall` never rejects: the model has no retry, and `ExecutedOnce` is about the loop.
- `react-executor.service.ts:125`: a call without an id gets one that is made up, which its tool message refers to (:158), while the assistant message keeps the call without
  an id (:131). Such a call stays unanswered in the list the model is asked with next; `CallsAnswered` excludes it.
- `workflow.graph.ts:253`: `check_output` takes an error for one only if its message is not empty (:195). An `AggregateError`, which is what Node makes of a refused connection
  to several addresses, has none: the client is sent "needs_decision" by `run_task`'s state and then "complete", as if the agent had answered. `CompleteIsLast` allows for that.
- `workflow.graph.ts:98`: each task looks up the hooks of the session anew. When a second message starts a run during the first round of another, the second round of that one
  goes to the second message's loop, which may insert it before the first round is inserted: the rows, and a context that is reloaded from them, then have the rounds in the wrong order.
  `TurnsOnceInOrder` excludes these runs (`astray`) from its order, not from the rest. A turn whose hooks are gone is not stored at all (`orchestration_overlap`).
- `chat.gateway.ts:520`: an answer without a text is in the Redis list (`workflow.graph.ts:153`) but gets no row, so that agents see it until the key expires and not after.
  `ContextIsHistory`, `EveryTurnMirrored` and `AnsweredMeansMirrored` leave blank turns out.
- `chat.gateway.ts:549`: two messages that find no row, after a deletion for instance, both save one; the later save finds the row or is rejected for its key, and the message with it.
- `cot-writer.service.ts:19`: what users and agents said is also kept in `sessions/<id>/chain-of-thought.md`, outside of the workspace's root (`workspace.service.ts:31`). No deletion
  removes it, while the design of the deletion promises that all messages of the session go (`2026-03-22-session-deletion-design.md:3`). `DeletedMeansGone` is about the messages, the transcript and Redis.
- `mcp-direct-http.ts:49`: `timeout: 120_000` makes Node emit an event that nobody listens to. An HTTP server that accepts a request and says
  nothing holds its caller, the turn and the message for ever (`2026-03-22-mcp-integration-design.md:289` promises a timeout
  error). Under `SilentSpec`, which is `Spec` without the answers of the server, TLC refutes `CallsEnd`.
- `mcp-client.ts:466`: a reply that arrives in two chunks is dropped; its caller waits for the 30 s timer.
- `mcp-client.ts:189`: a tool call after `stopServer` connects a stopped HTTP client again: `McpToolRegistry` never unregisters tools.
- `orchestration.service.ts:156`: every run uses ReAct and all adapters support it, so the native mode of `AgentTurn` is what
  `useReAct: false` would do.
- `session-deletion.processor.ts:63`: `onFailed` adds a job at every failed attempt, next to BullMQ's own retries and
  without its delay (`2026-03-22-session-deletion-design.md:201-202` has a backoff), so jobs of a
  failing session multiply.
- `session-deletion.processor.ts:46`: a job has at most three attempts and "stuck" asks for ten, so
  session:delete:stuck (same document, :217) is never sent.

In the files, the client and the servers (`chat.ts` is the store of the front end):

- `chat.ts:351-379`: `agent:stream` and `agent:stream:end` carry no `sessionId` (`chat.gateway.ts:198`, `:210`), so the draft of an agent has the key
  "undefined:<agent>". No assistant message is ever sent as `message:received`, so `chat.ts:319` clears no draft and the next turn of the agent
  replaces it: of an agent's replies only the last is on the screen. `Frontend/docs/前端需求设计.md:65` has the draft turned into a message at the end.
- A turn whose connection is lost leaves a draft that the next `agent:stream` of the agent is appended to, unless an end came in between;
  the end carries the whole text and puts it right, an empty end does not.
- `chat.ts:304`: the page neither sends `session:history` nor expects the object that the gateway answers with (`chat.gateway.ts:236`), so a
  session that is entered, or entered again after a lost connection, starts empty (document, :87 and :158: restored from history, no final message lost).
- The backend never sends `session:list`, so entering always ends by the 6 s timer; `EntrySettles` and `EntryEnds` hold with lists, too. It handles neither
  `message:retry` (`chat.ts:444`) nor `session:rename` (`chat.ts:214`).
- A page whose session is deleted is disconnected by the server, and socket.io makes no new attempt after that: it stays so until the user acts.
- `ConnectionPanel.vue:49-50` sets the session and connects without force: with an open socket the page then shows one session and is
  connected with the other. That is why `ViewOfSession` excludes pages on which the panel was used (`panelled`).
- `chat.gateway.ts:103`: a client that leaves during the await is announced by `user:joined` after its `user:left`; a session that is
  deleted during the copies makes `initializeSessionPrompts`, and with it `handleConnection`, reject. A message that is sent
  before the copies are done finds no templates and fails.
- `prompt-watcher.service.ts:37-41` watches `config/prompts` and clears the cache, but sessions read their own copies, which only the next connection renews; what a
  watcher can see is not what `readTemplate` reads. `isCacheValid` is always true, although
  `2026-03-26-multi-agent-prompt-template-design.md:650` reloads a file whose hash has changed.
- `prompt-template.service.ts:112`: a file that is read while it is copied again is cached torn, and a file read before the cache is cleared is stored after it;
  both stay until the next clearing. `CacheIsCurrent` excludes exactly these reads (`raced`).
- Neither the cache (document, :651) nor `debugConversationHistory` loses a session that is deleted. A debug prompt in a session of the same name goes on with the old conversation.
- `chat.gateway.ts:306`: two first prompts of a session each make an array, and the later answer replaces the other's. `ConversationIsKept` excludes this case (`doubled`).
- `chat.gateway.ts:320`: when the first build of a debug prompt fails, the handler rejects, while a failing second one is sent as `agent:error`. The loops of
  tool calls in `streamGenerate` have no limit.
- `mcp-server-manager.ts:70`: nothing watches a container after its start, so a crashed one is not restarted, while
  `2026-03-22-mcp-integration-design.md:291` promises three restarts and :49 health checks; the status stays "running". A container whose client can not connect is left
  running, and one that can not be stopped is not removed. `ContainersAccounted` says that there are no others.
- An HTTP server that says nothing during `initialize` keeps the port of the backend closed (see `mcp-direct-http.ts:49` above). Shutdown hooks are not enabled,
  so `dispose` runs at `app.close()` only, and containers outlive a backend that is killed.
- `file-logger.service.ts:149`: two rotations in one millisecond, or in the hour that a clock repeats, use one name, and the first archive is
  replaced. Lines still in the chain are lost when the process ends, since nobody calls `flush`. `LogIsWhole` excludes these (`excused`) and no others.

## Not modelled

- Chunks of text on the server (they take the way of the turn's end), wording and layout, logging of events.
- `session:history`, `session:status` and the controllers only read; `WorkflowController` is a stub.
- `AgentPriorityService`, `PlannerService`, `ReactorService`: their results are unused.
- Configuration, database module and entities are declarations; the foreign key is in `SessionDeletion`.
- The chain-of-thought file `sessions/<id>/chain-of-thought.md`: a read-modify-write of a file that only people read; the pattern is that of `append` in `SessionMemory`. A deletion of the session
  leaves it behind.
- A crash of the process is in `SessionMemory` and `FileLogger` only; a BullMQ worker that stops with a job, or an `add` in `onFailed` that fails,
  is left out, since BullMQ's own recovery is not in this repository.
- What file tools do to files, and `StreamingReactParser`, `parseToolCalls`, `executeAllToolCalls`, `handleAgentResponse`, which nobody calls.
- In the front end: the views, debug events, badges of agents, local renaming and retrying (they change what is shown and nothing else).

## What is left

No safety property of a passing run is without a theorem. What a theorem could still add: `CacheIsCurrent` per template rather than for reads as a whole, and
messages with mentions in `Orchestration`, of which `WorkflowRun` knows already.

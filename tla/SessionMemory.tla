--------------------------- MODULE SessionMemory ---------------------------
(***************************************************************************)
(* The conversation context of one chat session: the Redis list behind     *)
(* ShortTermMemoryService, the messages table behind it, and the code that *)
(* feeds both.  One handler per message:send event (ChatGateway.           *)
(* handleMessage): it appends the user's turn to the short-term memory,    *)
(* inserts it into PostgreSQL and starts a workflow run, whose agent       *)
(* rounds (run_task) read the context, append the assistant's turn and     *)
(* hand it to the gateway, which inserts it in turn                        *)
(* (mirrorAssistantTurnToStorage).  To which queue a round hands its turn  *)
(* is what sessionStreamHooks says when the round begins, and that map has *)
(* one entry per session: of two runs at once, the later one's queue.      *)
(*                                                                         *)
(* Every await is a step boundary, so the handlers of a session interleave *)
(* between any two storage commands, as they do in Node.  Redis keys are   *)
(* per session and nothing here crosses sessions, so one session is the    *)
(* whole story.                                                            *)
(***************************************************************************)
EXTENDS Integers, Sequences

CONSTANTS
    Handlers,     \* message:send events of the session
    Rounds,       \* agent rounds one workflow run can have (handoffs bound it)
    MaxMessages,  \* ShortTermMemoryService.MAX_MESSAGES, 20 in the code
    MaxHistory,   \* memory.maxHistory, 6 in the default configuration
    Blank,        \* assistant turns whose text is blank
    NoHandler,    \* no entry in sessionStreamHooks
    Serial,       \* TRUE: a message is sent only when the previous run is over
    EagerExpiry,  \* TRUE: the TTL may run out between any two commands;
                  \* FALSE: only while no storage work is pending
    Faults        \* TRUE: storage commands may fail and the process may die

ASSUME MemoryAssumption ==
    /\ Rounds \in Nat \ {0}
    /\ MaxMessages \in Nat \ {0}
    /\ MaxHistory \in Nat \ {0}
    /\ Blank \subseteq Handlers \X (1 .. Rounds)
    /\ NoHandler \notin Handlers

\* Turn <<h, 0>> is the user's message of handler h, <<h, i>> the answer of
\* the i-th agent round of the run it started.
Turn == Handlers \X (0 .. Rounds)

VARIABLES
    cache,     \* memory:short:<session>; <<>> is "no key", as [] is never saved
    db,        \* rows of messages, in created_at order
    pc,        \* where handler h, or the run it started, stands
    op,        \* the short-term memory call in flight: "append" or "read"
    turn,      \* the index of the turn h is about to append, or appended last
    local,     \* the array that get() returned to h
    context,   \* the turns the latest getContext gave to h's agent
    outbox,    \* agent_stream_end events in h's queue, not mirrored yet
    hooks,     \* the session's entry of sessionStreamHooks: whose queue it is
    held,      \* the entry that the current round of h found when it began
    left,      \* handlers whose for-await loop over their queue has ended
    said,      \* history: the turns in the order their append completed
    astray     \* history: handlers one of whose turns went to another's queue

runs == <<hooks, held, left, astray>>
vars == <<cache, db, pc, op, turn, local, context, outbox, hooks, held, left,
          said, astray>>

LastN(s, n) == SubSeq(s, IF Len(s) > n THEN Len(s) - n + 1 ELSE 1, Len(s))
FirstN(s, n) == SubSeq(s, 1, IF Len(s) > n THEN n ELSE Len(s))

Idle(h) == pc[h] \in {"idle", "done"}
InRun(h) == turn[h] > 0

\* The continuation of get() inside append() or getContext().
AfterGet(h) == IF op[h] = "append" THEN "save" ELSE "context"

Goto(h, label) == pc' = [pc EXCEPT ![h] = label]

Init ==
    /\ cache = <<>>
    /\ db = <<>>
    /\ pc = [h \in Handlers |-> "idle"]
    /\ op = [h \in Handlers |-> "append"]
    /\ turn = [h \in Handlers |-> 0]
    /\ local = [h \in Handlers |-> <<>>]
    /\ context = [h \in Handlers |-> <<>>]
    /\ outbox = [h \in Handlers |-> <<>>]
    /\ hooks = NoHandler
    /\ held = [h \in Handlers |-> NoHandler]
    /\ left = {}
    /\ said = <<>>
    /\ astray = {}

\* message:send arrives; handleMessage reaches appendUserTurn, whose first
\* await is the redis.get of append().
Receive(h) ==
    /\ pc[h] = "idle"
    /\ Serial => \A g \in Handlers : Idle(g) /\ outbox[g] = <<>>
    /\ Goto(h, "get")
    /\ UNCHANGED <<cache, db, op, turn, local, context, outbox, said, runs>>

\* redis.get answers: a hit is the list itself, a miss goes to PostgreSQL.
Get(h) ==
    /\ pc[h] = "get"
    /\ IF cache # <<>>
       THEN /\ local' = [local EXCEPT ![h] = cache]
            /\ Goto(h, AfterGet(h))
       ELSE /\ Goto(h, "find")
            /\ UNCHANGED local
    /\ UNCHANGED <<cache, db, op, turn, context, outbox, said, runs>>

\* loadFromDatabase: the first MAX_MESSAGES rows in ascending created_at
\* order.  Only a non-empty result is written back to Redis.
Find(h) ==
    /\ pc[h] = "find"
    /\ local' = [local EXCEPT ![h] = FirstN(db, MaxMessages)]
    /\ Goto(h, IF db # <<>> THEN "fill" ELSE AfterGet(h))
    /\ UNCHANGED <<cache, db, op, turn, context, outbox, said, runs>>

\* The setex that ends a cache miss: last writer wins, no version check.
Fill(h) ==
    /\ pc[h] = "fill"
    /\ cache' = LastN(local[h], MaxMessages)
    /\ Goto(h, AfterGet(h))
    /\ UNCHANGED <<db, op, turn, local, context, outbox, said, runs>>

\* append(): push the turn on the array get() returned and setex it.
Save(h) ==
    /\ pc[h] = "save"
    /\ LET t == <<h, turn[h]>>
       IN /\ cache' = LastN(Append(local[h], t), MaxMessages)
          /\ said' = Append(said, t)
    /\ local' = [local EXCEPT ![h] = <<>>]
    /\ Goto(h, IF InRun(h) THEN "ended" ELSE "persist")
    /\ UNCHANGED <<db, op, turn, context, outbox, runs>>

\* Mutant: the user's row is written before the append (the order that the
\* comment in handleMessage forbids).
PersistUserFirst(h) ==
    LET t == <<h, 0>>
        written == \E i \in 1 .. Len(db) : db[i] = t
    IN \/ /\ pc[h] = "get" /\ turn[h] = 0 /\ ~written
          /\ db' = Append(db, t)
          /\ UNCHANGED <<cache, pc, op, turn, local, context, outbox, said, runs>>
       \/ /\ pc[h] = "persist"
          /\ db' = IF written THEN db ELSE Append(db, t)
          /\ Goto(h, "start")
          /\ UNCHANGED <<cache, op, turn, local, context, outbox, said, runs>>

\* handleMessage inserts the user's row, only now that the append is done.
PersistUser(h) ==
    /\ pc[h] = "persist"
    /\ db' = Append(db, <<h, turn[h]>>)
    /\ Goto(h, "start")
    /\ UNCHANGED <<cache, op, turn, local, context, outbox, said, runs>>

\* streamExecute: h's hooks take the session's place in the map, whoever's
\* were there, and the graph starts.
Start(h) ==
    /\ pc[h] = "start"
    /\ hooks' = h
    /\ Goto(h, "run_task")
    /\ UNCHANGED <<cache, db, op, turn, local, context, outbox, held, left, said, astray>>

\* run_task begins: it looks the hooks up and, before anything else, awaits
\* getContext.
BeginRound(h) ==
    /\ pc[h] = "run_task"
    /\ held' = [held EXCEPT ![h] = hooks]
    /\ turn' = [turn EXCEPT ![h] = @ + 1]
    /\ op' = [op EXCEPT ![h] = "read"]
    /\ Goto(h, "get")
    /\ UNCHANGED <<cache, db, local, context, outbox, hooks, left, said, astray>>

\* Mutant: slice(0, maxHistory) for slice(-maxHistory).
ReadContextHead(h) ==
    /\ pc[h] = "context"
    /\ context' = [context EXCEPT ![h] = FirstN(local[h], MaxHistory)]
    /\ local' = [local EXCEPT ![h] = <<>>]
    /\ Goto(h, "thinking")
    /\ UNCHANGED <<cache, db, op, turn, outbox, said, runs>>

\* getContext returns the last maxHistory entries and the agent starts.
\* (local is dead from here on and cleared, as it is after a Save.)
ReadContext(h) ==
    /\ pc[h] = "context"
    /\ context' = [context EXCEPT ![h] = LastN(local[h], MaxHistory)]
    /\ local' = [local EXCEPT ![h] = <<>>]
    /\ Goto(h, "thinking")
    /\ UNCHANGED <<cache, db, op, turn, outbox, said, runs>>

\* The agent's stream is over: run_task appends the assistant's turn.
AgentAnswers(h) ==
    /\ pc[h] = "thinking"
    /\ op' = [op EXCEPT ![h] = "append"]
    /\ context' = [context EXCEPT ![h] = <<>>]
    /\ Goto(h, "get")
    /\ UNCHANGED <<cache, db, turn, local, outbox, said, runs>>

\* Does anyone read what is pushed by the hooks the round of h holds?
Heard(h) == held[h] \in Handlers \ left

\* The next agent of a handoff chain, or the end of the graph.
NextRound(h) ==
    \/ turn[h] < Rounds /\ Goto(h, "run_task")
    \/ Goto(h, "over")

\* Mutant: only the last round of a run is handed over, as when the gateway
\* persisted on "complete" instead of on every stream end.
StreamEndLastOnly(h) ==
    /\ pc[h] = "ended"
    /\ \/ /\ turn[h] < Rounds
          /\ Goto(h, "run_task")
          /\ UNCHANGED <<outbox, astray>>
       \/ /\ outbox' = IF Heard(h)
                       THEN [outbox EXCEPT ![held[h]] = Append(@, <<h, turn[h]>>)]
                       ELSE outbox
          /\ astray' = IF Heard(h) /\ held[h] # h THEN astray \union {h} ELSE astray
          /\ Goto(h, "over")
    /\ held' = [held EXCEPT ![h] = NoHandler]
    /\ UNCHANGED <<cache, db, op, turn, local, context, hooks, left, said>>

\* run_task, once the append is done: onAgentStreamEnd of the hooks the round
\* holds pushes the turn on their queue, which is another handler's if that
\* one started a run in between; then the graph goes on.
StreamEnd(h) ==
    /\ pc[h] = "ended"
    /\ outbox' = IF Heard(h)
                 THEN [outbox EXCEPT ![held[h]] = Append(@, <<h, turn[h]>>)]
                 ELSE outbox
    /\ astray' = IF Heard(h) /\ held[h] # h THEN astray \union {h} ELSE astray
    /\ held' = [held EXCEPT ![h] = NoHandler]
    /\ NextRound(h)
    /\ UNCHANGED <<cache, db, op, turn, local, context, hooks, left, said>>

\* The graph's stream is over and the finally clause deletes the entry of the
\* session, whoever's it is by now.
FinishRun(h) ==
    /\ pc[h] = "over"
    /\ hooks' = NoHandler
    /\ Goto(h, "done")
    /\ UNCHANGED <<cache, db, op, turn, local, context, outbox, held, left, said, astray>>

\* The for-await loop of h has read its closed queue to the end: whatever is
\* pushed there from now on is read by nobody.
LoopReturns(h) ==
    /\ pc[h] = "done" /\ InRun(h) /\ h \notin left
    /\ outbox[h] = <<>>
    /\ left' = left \union {h}
    /\ UNCHANGED <<cache, db, pc, op, turn, local, context, outbox, hooks, held, said, astray>>

\* mirrorAssistantTurnToStorage: a blank turn is dropped, any other inserted.
Mirror(h) ==
    /\ outbox[h] # <<>>
    /\ db' = IF Head(outbox[h]) \in Blank THEN db ELSE Append(db, Head(outbox[h]))
    /\ outbox' = [outbox EXCEPT ![h] = Tail(@)]
    /\ UNCHANGED <<cache, pc, op, turn, local, context, said, runs>>

\* Redis drops the key.
Expire ==
    /\ cache # <<>>
    /\ EagerExpiry \/ \A h \in Handlers :
                        /\ Idle(h) \/ pc[h] = "thinking"
                        /\ outbox[h] = <<>>
    /\ cache' = <<>>
    /\ UNCHANGED <<db, pc, op, turn, local, context, outbox, said, runs>>

\* A storage command of h is rejected, or its agent fails: the handler gives
\* up, or the run does and its graph ends.  Turns already handed to the
\* gateway are still mirrored.
StorageFails(h) ==
    /\ Faults
    /\ pc[h] \in {"get", "find", "fill", "save", "persist", "start", "thinking"}
    /\ Goto(h, IF InRun(h) THEN "over" ELSE "done")
    /\ local' = [local EXCEPT ![h] = <<>>]
    /\ context' = [context EXCEPT ![h] = <<>>]
    /\ held' = [held EXCEPT ![h] = NoHandler]
    /\ UNCHANGED <<cache, db, op, turn, outbox, hooks, left, said, astray>>

\* The gateway's insert is rejected: the for-await loop throws and nothing
\* reads the rest of the queue, while the run goes on in the background.
MirrorFails(h) ==
    /\ Faults
    /\ outbox[h] # <<>> /\ Head(outbox[h]) \notin Blank
    /\ outbox' = [outbox EXCEPT ![h] = <<>>]
    /\ left' = left \union {h}
    /\ UNCHANGED <<cache, db, pc, op, turn, local, context, hooks, held, said, astray>>

\* The Node process dies: handlers, queues and hooks are gone, the stores
\* remain.
Crash ==
    /\ Faults
    /\ \E h \in Handlers : ~Idle(h)
    /\ pc' = [h \in Handlers |-> IF pc[h] = "idle" THEN "idle" ELSE "done"]
    /\ outbox' = [h \in Handlers |-> <<>>]
    /\ local' = [h \in Handlers |-> <<>>]
    /\ context' = [h \in Handlers |-> <<>>]
    /\ hooks' = NoHandler
    /\ held' = [h \in Handlers |-> NoHandler]
    /\ left' = {h \in Handlers : pc[h] # "idle"}
    /\ UNCHANGED <<cache, db, op, turn, said, astray>>

Step(h) ==
    \/ Get(h) \/ Find(h) \/ Fill(h) \/ Save(h) \/ PersistUser(h) \/ Start(h)
    \/ BeginRound(h) \/ ReadContext(h) \/ AgentAnswers(h) \/ StreamEnd(h)
    \/ FinishRun(h)

Next ==
    \/ \E h \in Handlers :
          \/ Receive(h) \/ Step(h) \/ Mirror(h) \/ LoopReturns(h)
          \/ StorageFails(h) \/ MirrorFails(h)
    \/ Expire
    \/ Crash

\* Storage and agents answer; nobody has to send a message, no key has to
\* expire and nothing has to fail.
Fairness == \A h \in Handlers : WF_vars(Step(h)) /\ WF_vars(Mirror(h))

Spec == Init /\ [][Next]_vars /\ Fairness
-----------------------------------------------------------------------------
\* The shape of the state, and the two limits the code promises on it: the
\* cached list never outgrows MAX_MESSAGES, a context never maxHistory.
TypeOK ==
    /\ cache \in Seq(Turn) /\ Len(cache) <= MaxMessages
    /\ db \in Seq(Turn)
    /\ pc \in [Handlers -> {"idle", "get", "find", "fill", "save", "persist",
                            "start", "run_task", "context", "thinking",
                            "ended", "over", "done"}]
    /\ op \in [Handlers -> {"append", "read"}]
    /\ turn \in [Handlers -> 0 .. Rounds]
    /\ local \in [Handlers -> Seq(Turn)]
    /\ context \in [Handlers -> Seq(Turn)]
    /\ \A h \in Handlers : Len(context[h]) <= MaxHistory
    /\ outbox \in [Handlers -> Seq(Turn)]
    /\ hooks \in Handlers \union {NoHandler}
    /\ held \in [Handlers -> Handlers \union {NoHandler}]
    /\ left \subseteq Handlers
    /\ said \in Seq(Turn)
    /\ astray \subseteq Handlers

\* No turn twice in s, the user's turn of a handler before its answers, and
\* these in the order they were made, unless the handler is among the mixed.
InOrder(s, mixed) ==
    \A i, j \in 1 .. Len(s) :
        (i < j /\ s[i][1] = s[j][1])
            => IF s[i][1] \in mixed THEN s[j][2] \notin {0, s[i][2]}
                                    ELSE s[i][2] < s[j][2]

\* No turn ever appears twice, the user's words come before the answers to
\* them, and the answers of a run keep their order as long as none of them was
\* pushed on the queue of another message (whose loop may insert the second
\* round before the run's own loop inserts the first): in Redis, in
\* PostgreSQL, in the arrays in flight and in the context an agent is given.
\* This is what "append to Redis before writing PostgreSQL"
\* (chat.gateway.ts:160-161) and run_task's append before onAgentStreamEnd
\* are for: a row written first would come back through a cache miss and be
\* pushed a second time.
TurnsOnceInOrder ==
    /\ InOrder(cache, astray)
    /\ InOrder(db, astray)
    /\ \A h \in Handlers : InOrder(local[h], astray) /\ InOrder(context[h], astray)

Holds(s, t) == \E i \in 1 .. Len(s) : s[i] = t

\* s consists of turns of r, in the order they have there.
Follows(s, r) ==
    /\ \A i \in 1 .. Len(s) : Holds(r, s[i])
    /\ \A i, j \in 1 .. Len(s) : \A k, l \in 1 .. Len(r) :
          (i < j /\ s[i] = r[k] /\ s[j] = r[l]) => k < l

\* The context an agent is given is the end of the conversation: turns that
\* were said, in their order, nothing left out after the first of them, and
\* either maxHistory of them or all there are, whether they come from Redis
\* or, after the TTL ran out, from PostgreSQL.  Only a blank answer may be
\* left out, for it has no row: Redis shows it (workflow.graph.ts:153) until
\* the key expires, PostgreSQL never does (chat.gateway.ts:520).
\* (A conversation of more than MAX_MESSAGES turns is reloaded from its
\* beginning; see the README.)
IsHistory(c, r) ==
    /\ Follows(c, r)
    /\ \A k, l \in 1 .. Len(r) :
          (k < l /\ Holds(c, r[k]) /\ r[l] \notin Blank) => Holds(c, r[l])
    /\ \/ Len(c) = MaxHistory
       \/ \A k \in 1 .. Len(r) : r[k] \notin Blank => Holds(c, r[k])

ContextIsHistory ==
    \A h \in Handlers :
        (pc[h] = "thinking" /\ Len(said) <= MaxMessages) => IsHistory(context[h], said)

\* The turn a handler has just appended is in the context its first agent
\* reads, unless newer turns have pushed it out of the window.
OwnTurnInContext ==
    \A h \in Handlers :
        (pc[h] = "thinking" /\ Len(said) <= MaxHistory)
            => Holds(context[h], <<h, 0>>)

\* Every turn that an agent's run appended to the context ends up in
\* PostgreSQL, the intermediate rounds of a handoff chain included
\* (chat.gateway.ts:206-207), unless its text is blank.
EveryTurnMirrored ==
    \A t \in Turn \ Blank : Holds(said, t) ~> Holds(db, t)
=============================================================================

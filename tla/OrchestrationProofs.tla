------------------------ MODULE OrchestrationProofs ------------------------
(***************************************************************************)
(* Proofs about Orchestration for every set of messages, sessions, agents  *)
(* and names and every recursion limit: its type invariant, which bounds   *)
(* the turns of a run, that hooks are given back, that sessions stay       *)
(* apart, that no reader sleeps on a queue of a run that is over and that  *)
(* no turn is stored twice.  A measure bounds the steps of each background *)
(* task.  The last part is about OrchestrationRuns: the run and the queue  *)
(* of a message are those of a message on its own.                         *)
(***************************************************************************)
EXTENDS OrchestrationRuns, SequenceTheorems, TLAPS

Nodes == {"hydrate", "route", "run_task", "streaming", "logging",
          "check_output", "await_review", "route_agent", "handle_error",
          "end", "error"}

Statuses == {"routing", "running", "handoff", "awaiting_review",
             "completed", "failed"}

\* A graph state, between its nodes or inside run_task.
AnyRun ==
    [node : Nodes, active : MaybeName, handoff : MaybeName, result : Results,
     status : Statuses, review : BOOLEAN, error : BOOLEAN,
     steps : 0 .. RecursionLimit]

\* A turn costs three supersteps: run_task, check_output and route_agent.
StepsCover(r, t) ==
    /\ 3 * t <= RecursionLimit
    /\ ~Over(r) => r.steps < RecursionLimit
    /\ r.node \in {"hydrate", "route"} => t = 0
    /\ r.node = "route" => 1 <= r.steps
    /\ r.node \in {"run_task", "streaming"} => 3 * t + 2 <= r.steps
    /\ r.node = "logging" => 3 * t <= r.steps + 1
    /\ r.node = "check_output" => 3 * t <= r.steps
    /\ r.node \in {"await_review", "route_agent", "handle_error"} =>
            3 * t + 1 <= r.steps

\* An agent that runs has a name.
Named(r) == r.node \in {"streaming", "logging"} => r.active \in Names

GoodRun(r, t) == r \in AnyRun /\ StepsCover(r, t) /\ Named(r)

LEMMA RunFields ==
    ASSUME NEW r \in AnyRun
    PROVE  /\ r.node \in Nodes /\ r.active \in MaybeName
           /\ r.handoff \in MaybeName /\ r.result \in Results
           /\ r.status \in Statuses /\ r.review \in BOOLEAN
           /\ r.error \in BOOLEAN /\ r.steps \in 0 .. RecursionLimit
           /\ r.steps \in Nat /\ RecursionLimit \in Nat
BY GraphAssumption DEF AnyRun

LEMMA GotoIsRun ==
    ASSUME NEW r \in AnyRun, r.steps < RecursionLimit, NEW n \in Nodes
    PROVE  /\ Goto(r, n) \in AnyRun
           /\ Goto(r, n).steps = r.steps + 1
           /\ Goto(r, n).node = IF n # "end" /\ r.steps + 1 = RecursionLimit
                                THEN "error" ELSE n
           /\ Goto(r, n).active = r.active
           /\ Goto(r, n).result = r.result
<1>1. r.steps + 1 \in 0 .. RecursionLimit
  BY RunFields
<1>2. "error" \in Nodes
  BY DEF Nodes
<1> QED
  BY <1>1, <1>2 DEF Goto, AnyRun

\* A step to a node other than the end either gets there or is refused by the
\* recursion limit.
LEMMA GotoCovers ==
    ASSUME NEW r, NEW t \in Nat, GoodRun(r, t), ~Over(r), NEW n \in Nodes,
           n \notin {"hydrate", "streaming", "logging"},
           \/ n = "route" /\ r.node = "hydrate"
           \/ n = "run_task" /\ r.node \in {"route", "route_agent"}
           \/ n = "check_output" /\ r.node \in {"run_task", "streaming", "logging"}
           \/ /\ n \in {"await_review", "route_agent", "handle_error"}
              /\ r.node \in {"check_output", "handle_error", "await_review"}
           \/ n = "end"
    PROVE  GoodRun(Goto(r, n), t) /\ Goto(r, n).node \notin {"streaming", "logging"}
<1>1. /\ Goto(r, n) \in AnyRun
      /\ Goto(r, n).steps = r.steps + 1
      /\ Goto(r, n).node = IF n # "end" /\ r.steps + 1 = RecursionLimit
                           THEN "error" ELSE n
  BY GotoIsRun DEF GoodRun, StepsCover
<1>2. r.steps \in Nat /\ RecursionLimit \in Nat
  BY RunFields DEF GoodRun
<1>3. Goto(r, n).node \notin {"streaming", "logging", "hydrate"}
  BY <1>1
<1>4. StepsCover(Goto(r, n), t)
  BY <1>1, <1>2 DEF GoodRun, StepsCover, Over
<1> QED
  BY <1>1, <1>3, <1>4 DEF GoodRun, Named

\* What the nodes set beside the step does not matter to the bound.
LEMMA SameStep ==
    ASSUME NEW r, NEW u \in AnyRun, NEW t \in Nat, GoodRun(r, t),
           r.node \notin {"streaming", "logging"},
           u.node = r.node, u.steps = r.steps
    PROVE  GoodRun(u, t)
<1>1. StepsCover(u, t)
  BY DEF GoodRun, StepsCover, Over
<1> QED
  BY <1>1 DEF GoodRun, Named

LEMMA HydrateGood ==
    ASSUME NEW r, NEW t \in Nat, GoodRun(r, t), r.node = "hydrate"
    PROVE  GoodRun(Hydrate(r), t)
BY GotoCovers DEF Hydrate, Over, Nodes

LEMMA RouteMessageGood ==
    ASSUME NEW r, NEW t \in Nat, GoodRun(r, t), r.node = "route"
    PROVE  GoodRun(RouteMessage(r, <<>>), t)
<1> DEFINE g == Goto(r, "run_task")
           u == [g EXCEPT !.active = DefaultName, !.status = "running"]
<1>1. GoodRun(g, t) /\ g.node \notin {"streaming", "logging"}
  BY GotoCovers DEF Over, Nodes
<1>2. RouteMessage(r, <<>>) = u
  BY DEF RouteMessage, PlanMentions
<1>3. DefaultName \in MaybeName /\ "running" \in Statuses
  BY GraphAssumption DEF MaybeName, Statuses
<1> HIDE DEF g
<1>4. u \in AnyRun /\ u.node = g.node /\ u.steps = g.steps
  BY <1>1, <1>3 DEF GoodRun, AnyRun
<1> QED
  BY <1>1, <1>2, <1>4, SameStep

LEMMA TaskRefusedGood ==
    ASSUME NEW r, NEW t \in Nat, GoodRun(r, t), r.node = "run_task"
    PROVE  GoodRun(TaskRefused(r), t)
<1> DEFINE g == Goto(r, "check_output")
           u == [g EXCEPT !.status = "failed", !.error = TRUE]
<1>1. GoodRun(g, t) /\ g.node \notin {"streaming", "logging"}
  BY GotoCovers DEF Over, Nodes
<1>2. TaskRefused(r) = u
  BY DEF TaskRefused
<1> HIDE DEF g
<1>3. u \in AnyRun /\ u.node = g.node /\ u.steps = g.steps
  BY <1>1 DEF GoodRun, AnyRun, Statuses
<1> QED
  BY <1>1, <1>2, <1>3, SameStep

LEMMA TaskBegunGood ==
    ASSUME NEW r, NEW t \in Nat, GoodRun(r, t), r.node = "run_task", ~Refuses(r)
    PROVE  GoodRun(TaskBegun(r), t)
<1> DEFINE u == [r EXCEPT !.node = "streaming"]
<1>1. /\ u \in AnyRun /\ u.node = "streaming" /\ u.steps = r.steps
      /\ u.active = r.active
  BY DEF GoodRun, AnyRun, Nodes
<1>2. r.active \in Names
  BY DEF Refuses, GoodRun, AnyRun, MaybeName
<1>3. StepsCover(u, t)
  BY <1>1 DEF GoodRun, StepsCover, Over
<1> QED
  BY <1>1, <1>2, <1>3 DEF TaskBegun, GoodRun, Named

LEMMA ContextFailedGood ==
    ASSUME NEW r, NEW t \in Nat, GoodRun(r, t), r.node = "streaming"
    PROVE  GoodRun(ContextFailed(r), t)
<1> DEFINE u == [r EXCEPT !.node = "error", !.steps = @ + 1]
<1>1. r.steps + 1 \in 0 .. RecursionLimit
  BY RunFields DEF GoodRun, StepsCover, Over
<1>2. u \in AnyRun /\ u.node = "error"
  BY <1>1 DEF GoodRun, AnyRun, Nodes
<1>3. StepsCover(u, t)
  BY <1>2 DEF GoodRun, StepsCover, Over
<1> QED
  BY <1>2, <1>3 DEF ContextFailed, GoodRun, Named

\* The turn is counted when its text is handed over.
LEMMA HandOverGood ==
    ASSUME NEW r, NEW t \in Nat, GoodRun(r, t), r.node = "streaming"
    PROVE  GoodRun([r EXCEPT !.node = "logging"], t + 1)
<1> DEFINE u == [r EXCEPT !.node = "logging"]
<1>1. /\ u \in AnyRun /\ u.node = "logging" /\ u.steps = r.steps
      /\ u.active = r.active
  BY DEF GoodRun, AnyRun, Nodes
<1>2. r.steps \in Nat /\ RecursionLimit \in Nat
  BY RunFields DEF GoodRun
<1>3. StepsCover(u, t + 1)
  BY <1>1, <1>2 DEF GoodRun, StepsCover, Over
<1> QED
  BY <1>1, <1>3 DEF GoodRun, Named

LEMMA ResultOfAgent ==
    ASSUME NEW r, NEW t \in Nat, GoodRun(r, t),
           r.node \in {"streaming", "logging"}, NEW o \in Outcomes, NEW w \in BOOLEAN
    PROVE  /\ [agent |-> AgentOf[r.active], review |-> o.review,
               handoff |-> o.handoff, failed |-> FALSE] \in Results
           /\ [NoResult EXCEPT !.agent = AgentOf[r.active], !.failed = w] \in Results
<1>1. AgentOf[r.active] \in Agents \union {None}
  BY GraphAssumption DEF GoodRun, Named
<1> QED
  BY <1>1 DEF Results, NoResult, Outcomes, MaybeName

LEMMA TaskDoneGood ==
    ASSUME NEW r, NEW t \in Nat, GoodRun(r, t), r.node = "logging",
           NEW o \in Outcomes
    PROVE  GoodRun(TaskDone(r, o), t)
<1> DEFINE g == Goto(r, "check_output")
           res == [agent |-> AgentOf[r.active], review |-> o.review,
                   handoff |-> o.handoff, failed |-> FALSE]
           u == [g EXCEPT !.result = res, !.status = "running",
                          !.review = FALSE, !.error = FALSE]
<1>1. GoodRun(g, t) /\ g.node \notin {"streaming", "logging"}
  BY GotoCovers DEF Over, Nodes
<1>2. TaskDone(r, o) = u
  BY DEF TaskDone
<1>3. res \in Results
  BY ResultOfAgent
<1> HIDE DEF g, res
<1>4. u \in AnyRun /\ u.node = g.node /\ u.steps = g.steps
  BY <1>1, <1>3 DEF GoodRun, AnyRun, Statuses
<1> QED
  BY <1>1, <1>2, <1>4, SameStep

LEMMA TaskFailedGood ==
    ASSUME NEW r, NEW t \in Nat, GoodRun(r, t),
           r.node \in {"streaming", "logging"}, NEW w \in BOOLEAN
    PROVE  GoodRun(TaskFailed(r, w), t)
<1> DEFINE g == Goto(r, "check_output")
           res == [NoResult EXCEPT !.agent = AgentOf[r.active], !.failed = w]
           u == [g EXCEPT !.result = res, !.status = "failed",
                          !.review = FALSE, !.error = TRUE]
<1>1. GoodRun(g, t) /\ g.node \notin {"streaming", "logging"}
  BY GotoCovers DEF Over, Nodes
<1>2. TaskFailed(r, w) = u
  BY DEF TaskFailed
<1>3. res \in Results
  <2>1. [review |-> FALSE, handoff |-> None] \in Outcomes
    BY DEF Outcomes, MaybeName
  <2> QED
    BY <2>1, ResultOfAgent
<1> HIDE DEF g, res
<1>4. u \in AnyRun /\ u.node = g.node /\ u.steps = g.steps
  BY <1>1, <1>3 DEF GoodRun, AnyRun, Statuses
<1> QED
  BY <1>1, <1>2, <1>4, SameStep

LEMMA CheckOutputGood ==
    ASSUME NEW r, NEW t \in Nat, GoodRun(r, t), r.node = "check_output"
    PROVE  GoodRun(CheckOutput(r), t)
<1> DEFINE to == IF r.result.handoff = r.active THEN None ELSE r.result.handoff
           next == IF r.result.failed THEN "handle_error"
                   ELSE IF r.result.review THEN "await_review"
                   ELSE IF to # None THEN "route_agent"
                   ELSE "end"
           status == IF r.result.failed THEN "failed"
                     ELSE IF r.result.review THEN "awaiting_review"
                     ELSE IF to # None THEN "handoff"
                     ELSE "completed"
           g == Goto(r, next)
           u == [g EXCEPT !.handoff = to, !.status = status,
                          !.review = r.result.review, !.error = r.result.failed]
<1>1. CheckOutput(r) = u
  BY DEF CheckOutput
<1>2. next \in {"handle_error", "await_review", "route_agent", "end"}
  OBVIOUS
<1>3. /\ to \in MaybeName /\ status \in Statuses
      /\ r.result.review \in BOOLEAN /\ r.result.failed \in BOOLEAN
  BY DEF GoodRun, AnyRun, Results, MaybeName, Statuses
<1> HIDE DEF to, next, status
<1>4. GoodRun(g, t) /\ g.node \notin {"streaming", "logging"}
  BY <1>2, GotoCovers DEF Over, Nodes
<1> HIDE DEF g
<1>5. u \in AnyRun /\ u.node = g.node /\ u.steps = g.steps
  BY <1>3, <1>4 DEF GoodRun, AnyRun
<1> QED
  BY <1>1, <1>4, <1>5, SameStep

LEMMA AwaitReviewGood ==
    ASSUME NEW r, NEW t \in Nat, GoodRun(r, t), r.node = "await_review"
    PROVE  GoodRun(AwaitReview(r), t)
BY GotoCovers DEF AwaitReview, Over, Nodes

LEMMA RouteAgentGood ==
    ASSUME NEW r, NEW t \in Nat, GoodRun(r, t), r.node = "route_agent"
    PROVE  GoodRun(RouteAgent(r), t)
<1> DEFINE g == Goto(r, "run_task")
           u == [g EXCEPT !.active = r.handoff, !.handoff = None,
                          !.result = NoResult, !.status = "running",
                          !.review = FALSE, !.error = FALSE]
<1>1. GoodRun(g, t) /\ g.node \notin {"streaming", "logging"}
  BY GotoCovers DEF Over, Nodes
<1>2. RouteAgent(r) = u
  BY DEF RouteAgent
<1>3. r.handoff \in MaybeName /\ None \in MaybeName /\ NoResult \in Results
  BY DEF GoodRun, AnyRun, MaybeName, NoResult, Results
<1> HIDE DEF g
<1>4. u \in AnyRun /\ u.node = g.node /\ u.steps = g.steps
  BY <1>1, <1>3 DEF GoodRun, AnyRun, Statuses
<1> QED
  BY <1>1, <1>2, <1>4, SameStep

LEMMA HandleErrorGood ==
    ASSUME NEW r, NEW t \in Nat, GoodRun(r, t), r.node = "handle_error"
    PROVE  GoodRun(HandleError(r), t)
<1> DEFINE g == Goto(r, "await_review")
           u == [g EXCEPT !.status = "awaiting_review"]
<1>1. GoodRun(g, t) /\ g.node \notin {"streaming", "logging"}
  BY GotoCovers DEF Over, Nodes
<1>2. HandleError(r) = u
  BY DEF HandleError
<1> HIDE DEF g
<1>3. u \in AnyRun /\ u.node = g.node /\ u.steps = g.steps
  BY <1>1 DEF GoodRun, AnyRun, Statuses
<1> QED
  BY <1>1, <1>2, <1>3, SameStep
-----------------------------------------------------------------------------
(***************************************************************************)
(* The queues.                                                             *)
(***************************************************************************)
Readers == {"asking", "parked", "holding", "returned", "threw", "gone"}

LEMMA QueueFields ==
    ASSUME NEW q \in Q!Queue(Items)
    PROVE  /\ q.items \in Seq(Items) /\ q.waiters \in Nat
           /\ q.done \in BOOLEAN /\ q.err \in BOOLEAN /\ q.reader \in Readers
BY DEF Q!Queue, Readers

LEMMA WakeKeeps ==
    ASSUME NEW q \in Q!Queue(Items), NEW n \in Nat
    PROVE  Q!Wake(q, n) \in Q!Queue(Items) /\ Q!Wake(q, n).items = q.items
<1> DEFINE w == IF n < q.waiters THEN q.waiters - n ELSE 0
           r == IF q.waiters > 0 /\ n > 0 /\ q.reader = "parked"
                THEN "asking" ELSE q.reader
<1>1. w \in Nat /\ r \in Readers
  BY QueueFields DEF Readers
<1>2. Q!Wake(q, n) = [q EXCEPT !.waiters = w, !.reader = r]
  BY DEF Q!Wake, Q!Queue
<1> HIDE DEF w, r
<1> QED
  BY <1>1, <1>2 DEF Q!Queue, Readers

LEMMA PushKeeps ==
    ASSUME NEW q \in Q!Queue(Items), NEW e \in Items
    PROVE  /\ Q!Push(q, e) \in Q!Queue(Items)
           /\ Q!Push(q, e).items = Append(q.items, e)
<1> DEFINE longer == Append(q.items, e)
           p == [q EXCEPT !.items = longer]
<1>1. longer \in Seq(Items)
  BY QueueFields, AppendProperties
<1> HIDE DEF longer
<1>2. p \in Q!Queue(Items) /\ p.items = longer
  BY <1>1 DEF Q!Queue
<1>3. Q!Push(q, e) = Q!Wake(p, 1)
  BY DEF Q!Push, longer
<1> HIDE DEF p
<1> QED
  BY <1>2, <1>3, WakeKeeps DEF longer

LEMMA EndKeeps ==
    ASSUME NEW q \in Q!Queue(Items)
    PROVE  /\ Q!End(q) \in Q!Queue(Items) /\ Q!End(q).items = q.items
           /\ Q!Fail(q) \in Q!Queue(Items) /\ Q!Fail(q).items = q.items
<1> DEFINE d == [q EXCEPT !.done = TRUE]
           f == [q EXCEPT !.err = TRUE, !.done = TRUE]
<1>1. /\ d \in Q!Queue(Items) /\ d.items = q.items
      /\ f \in Q!Queue(Items) /\ f.items = q.items
  BY DEF Q!Queue
<1>2. Q!End(q) = Q!Wake(d, q.waiters) /\ Q!Fail(q) = Q!Wake(f, q.waiters)
  BY DEF Q!End, Q!Fail
<1> HIDE DEF d, f
<1>3. q.waiters \in Nat
  BY QueueFields
<1> QED
  BY <1>1, <1>2, <1>3, WakeKeeps

LEMMA YieldKeeps ==
    ASSUME NEW q \in Q!Queue(Items), q.items # <<>>
    PROVE  /\ Q!Yield(q) \in Q!Queue(Items)
           /\ Q!Yield(q).items = Tail(q.items)
           /\ Head(q.items) \in Items
<1> DEFINE shorter == Tail(q.items)
<1>1. q.items \in Seq(Items)
  BY QueueFields
<1>2. shorter \in Seq(Items) /\ Head(q.items) \in Items
  BY <1>1, HeadTailProperties
<1>3. Q!Yield(q) = [q EXCEPT !.items = shorter, !.reader = "holding"]
  BY DEF Q!Yield
<1> HIDE DEF shorter
<1>4. Q!Yield(q) \in Q!Queue(Items) /\ Q!Yield(q).items = shorter
  BY <1>2, <1>3 DEF Q!Queue
<1> QED
  BY <1>2, <1>4 DEF shorter

LEMMA ReaderKeeps ==
    ASSUME NEW q \in Q!Queue(Items)
    PROVE  /\ Q!AskAgain(q) \in Q!Queue(Items) /\ Q!AskAgain(q).items = q.items
           /\ Q!Abandon(q) \in Q!Queue(Items) /\ Q!Abandon(q).items = q.items
           /\ Q!Finish(q) \in Q!Queue(Items) /\ Q!Finish(q).items = q.items
           /\ Q!Park(q) \in Q!Queue(Items) /\ Q!Park(q).items = q.items
<1>1. Q!AskAgain(q) \in Q!Queue(Items) /\ Q!AskAgain(q).items = q.items
  BY DEF Q!AskAgain, Q!Queue
<1>2. Q!Abandon(q) \in Q!Queue(Items) /\ Q!Abandon(q).items = q.items
  BY DEF Q!Abandon, Q!Queue
<1>3. Q!Finish(q) \in Q!Queue(Items) /\ Q!Finish(q).items = q.items
  BY DEF Q!Finish, Q!Queue
<1>4. Q!Park(q) \in Q!Queue(Items) /\ Q!Park(q).items = q.items
  <2> DEFINE w == q.waiters + 1
  <2>1. w \in Nat
    BY QueueFields
  <2>2. Q!Park(q) = [q EXCEPT !.waiters = w, !.reader = "parked"]
    BY DEF Q!Park
  <2> HIDE DEF w
  <2> QED
    BY <2>1, <2>2 DEF Q!Queue
<1> QED
  BY <1>1, <1>2, <1>3, <1>4

\* What a queue of session s may hold, f being the sessions of the messages.
Sound(e, s, f) == f[e.from] = s /\ (e.turn # <<>> => f[e.turn[1]] = s)

AllSound(seq, s, f) == \A i \in 1 .. Len(seq) : Sound(seq[i], s, f)

LEMMA AppendSound ==
    ASSUME NEW seq \in Seq(Items), NEW e \in Items, NEW s, NEW f,
           AllSound(seq, s, f), Sound(e, s, f)
    PROVE  AllSound(Append(seq, e), s, f)
<1> SUFFICES ASSUME NEW i \in 1 .. Len(Append(seq, e))
             PROVE  Sound(Append(seq, e)[i], s, f)
  BY DEF AllSound
<1>1. Len(Append(seq, e)) = Len(seq) + 1 /\ Len(seq) \in Nat
  BY AppendProperties, LenProperties
<1>2. CASE i = Len(seq) + 1
  <2>1. Append(seq, e)[i] = e
    BY <1>2, AppendProperties
  <2> QED
    BY <2>1
<1>3. CASE i # Len(seq) + 1
  <2>1. i \in 1 .. Len(seq)
    BY <1>1, <1>3
  <2>2. Append(seq, e)[i] = seq[i]
    BY <2>1, AppendProperties
  <2> QED
    BY <2>1, <2>2 DEF AllSound
<1> QED
  BY <1>2, <1>3

LEMMA TailSound ==
    ASSUME NEW seq \in Seq(Items), seq # <<>>, NEW s, NEW f, AllSound(seq, s, f)
    PROVE  AllSound(Tail(seq), s, f) /\ Sound(Head(seq), s, f)
<1>1. Len(Tail(seq)) = Len(seq) - 1 /\ Len(seq) \in Nat /\ Len(seq) > 0
  BY HeadTailProperties, LenProperties, EmptySeq
<1>2. \A i \in 1 .. Len(Tail(seq)) : Tail(seq)[i] = seq[i + 1]
  BY HeadTailProperties
<1>3. \A i \in 1 .. Len(Tail(seq)) : i + 1 \in 1 .. Len(seq)
  BY <1>1
<1>4. Head(seq) = seq[1]
  BY <1>1
<1> QED
  BY <1>1, <1>2, <1>3, <1>4 DEF AllSound
-----------------------------------------------------------------------------
(***************************************************************************)
(* The inductive invariant.                                                *)
(***************************************************************************)
Shape ==
    /\ session \in [Handlers -> Sessions]
    /\ started \subseteq Handlers /\ finished \subseteq started
    /\ run \in [Handlers -> AnyRun]
    /\ queue \in [Handlers -> Q!Queue(Items)]
    /\ item \in [Handlers -> Turn \union {<<>>}]
    /\ hooks \in [Sessions -> Handlers \union {NoHandler}]
    /\ held \in [Handlers -> Handlers \union {NoHandler}]
    /\ turns \in [Handlers -> Nat]
    /\ rows \in [Sessions -> [Turn -> Nat]]

RunsGood == \A h \in Handlers : GoodRun(run[h], turns[h])

\* Whatever is on its way to a loop belongs to the session of the loop.
QueuesSound == \A h \in Handlers : AllSound(queue[h].items, session[h], session)

LoopsSound ==
    \A h \in Handlers :
        /\ item[h] # <<>> => session[item[h][1]] = session[h]
        /\ held[h] # NoHandler => session[held[h]] = session[h]

RowsSound ==
    \A s \in Sessions, t \in Turn : rows[s][t] > 0 => session[t[1]] = s

IInv ==
    /\ Shape
    /\ RunsGood
    /\ HooksReleased
    /\ QueuesSound
    /\ LoopsSound
    /\ RowsSound

LEMMA NewRunGood == GoodRun(NewRun, 0)
<1>1. NewRun \in AnyRun
  BY GraphAssumption DEF NewRun, AnyRun, Nodes, Statuses, MaybeName, NoResult, Results
<1>2. NewRun.node = "hydrate" /\ NewRun.steps = 0
  BY DEF NewRun
<1>3. StepsCover(NewRun, 0)
  BY <1>2, GraphAssumption DEF StepsCover, Over
<1> QED
  BY <1>1, <1>2, <1>3 DEF GoodRun, Named

LEMMA NewQueueEmpty ==
    Q!NewQueue \in Q!Queue(Items) /\ Q!NewQueue.items = <<>>
BY EmptySeq DEF Q!NewQueue, Q!Queue

LEMMA InitHolds == Init => IInv
<1> SUFFICES ASSUME Init PROVE IInv
  OBVIOUS
<1>1. Shape
  <2>1. run \in [Handlers -> AnyRun]
    BY NewRunGood DEF Init, GoodRun
  <2>2. queue \in [Handlers -> Q!Queue(Items)]
    BY NewQueueEmpty DEF Init
  <2> QED
    BY <2>1, <2>2 DEF Init, Shape
<1>2. RunsGood
  BY NewRunGood DEF Init, RunsGood
<1>3. HooksReleased
  BY DEF Init, HooksReleased
<1>4. QueuesSound
  <2> SUFFICES ASSUME NEW h \in Handlers
               PROVE  AllSound(queue[h].items, session[h], session)
    BY DEF QueuesSound
  <2>1. queue[h].items = <<>>
    BY NewQueueEmpty DEF Init
  <2> QED
    BY <2>1 DEF AllSound
<1>5. LoopsSound
  BY DEF Init, LoopsSound
<1>6. RowsSound
  BY DEF Init, RowsSound
<1> QED
  BY <1>1, <1>2, <1>3, <1>4, <1>5, <1>6 DEF IInv

\* What the steps that change one queue have in common.
LEMMA QueueStep ==
    ASSUME IInv, NEW h \in Handlers, NEW q \in Q!Queue(Items),
           AllSound(q.items, session[h], session),
           session' = session, queue' = [queue EXCEPT ![h] = q]
    PROVE  queue' \in [Handlers -> Q!Queue(Items)] /\ QueuesSound'
<1>1. queue' \in [Handlers -> Q!Queue(Items)]
  BY DEF IInv, Shape
<1>2. ASSUME NEW g \in Handlers
      PROVE  AllSound(queue'[g].items, session[g], session)
  <2>1. CASE g = h
    BY <2>1 DEF IInv, Shape
  <2>2. CASE g # h
    BY <2>2 DEF IInv, Shape, QueuesSound
  <2> QED
    BY <2>1, <2>2
<1> QED
  BY <1>1, <1>2 DEF QueuesSound

\* stateToEvent yields one of the events that are only forwarded, or none.
LEMMA EventsForward ==
    ASSUME NEW r \in AnyRun, StateToEvent(r) # <<>>, NEW h \in Handlers
    PROVE  Forwarded(h, Head(StateToEvent(r))) \in Items
<1>1. Head(StateToEvent(r)).type \in {"task_start", "complete", "needs_review",
                                      "needs_decision", "handoff"}
  BY DEF StateToEvent, Event
<1> QED
  BY <1>1 DEF Forwarded, Items

LEMMA BecomesKeeps ==
    ASSUME IInv, NEW h \in Handlers, NEW r, GoodRun(r, turns[h]), Becomes(h, r),
           held' = held \/ held' = [held EXCEPT ![h] = NoHandler]
    PROVE  IInv'
<1>1. /\ session' = session /\ started' = started /\ finished' = finished
      /\ item' = item /\ hooks' = hooks /\ turns' = turns /\ rows' = rows
      /\ run' = [run EXCEPT ![h] = r]
  BY DEF Becomes
<1>2. queue' \in [Handlers -> Q!Queue(Items)] /\ QueuesSound'
  <2>1. CASE StateToEvent(r) = <<>>
    <3>1. queue' = queue
      BY <2>1 DEF Becomes
    <3> QED
      BY <1>1, <3>1 DEF IInv, Shape, QueuesSound
  <2>2. CASE StateToEvent(r) # <<>>
    <3> DEFINE e == Forwarded(h, Head(StateToEvent(r)))
               q == Q!Push(queue[h], e)
    <3>1. queue' = [queue EXCEPT ![h] = q]
      BY <2>2 DEF Becomes
    <3>2. e \in Items
      BY <2>2, EventsForward DEF GoodRun
    <3>3. Sound(e, session[h], session)
      BY DEF Sound, Forwarded
    <3> HIDE DEF e
    <3>4. queue[h] \in Q!Queue(Items) /\ AllSound(queue[h].items, session[h], session)
      BY DEF IInv, Shape, QueuesSound
    <3>5. q \in Q!Queue(Items) /\ q.items = Append(queue[h].items, e)
      BY <3>2, <3>4, PushKeeps
    <3>6. queue[h].items \in Seq(Items)
      BY <3>4, QueueFields
    <3>7. AllSound(q.items, session[h], session)
      BY <3>2, <3>3, <3>4, <3>5, <3>6, AppendSound
    <3> HIDE DEF q
    <3> QED
      BY <1>1, <3>1, <3>5, <3>7, QueueStep
  <2> QED
    BY <2>1, <2>2
<1>3. Shape'
  BY <1>1, <1>2 DEF IInv, Shape, GoodRun
<1>4. RunsGood'
  BY <1>1 DEF IInv, Shape, RunsGood
<1>5. HooksReleased' /\ RowsSound'
  BY <1>1 DEF IInv, HooksReleased, RowsSound
<1>6. LoopsSound'
  BY <1>1 DEF IInv, Shape, LoopsSound
<1> QED
  BY <1>2, <1>3, <1>4, <1>5, <1>6 DEF IInv
-----------------------------------------------------------------------------
(***************************************************************************)
(* Every step keeps it.                                                    *)
(***************************************************************************)
LEMMA StartKeeps ==
    ASSUME IInv, NEW h \in Handlers, Start(h)
    PROVE  IInv'
<1>1. Shape'
  BY DEF IInv, Shape, Start
<1>2. HooksReleased'
  BY DEF IInv, Shape, HooksReleased, Start
<1>3. RunsGood' /\ QueuesSound' /\ LoopsSound' /\ RowsSound'
  BY DEF IInv, RunsGood, QueuesSound, LoopsSound, RowsSound, Start
<1> QED
  BY <1>1, <1>2, <1>3 DEF IInv

LEMMA NodeKeeps ==
    ASSUME IInv, NEW h \in Handlers, Node(h)
    PROVE  IInv'
<1>1. GoodRun(run[h], turns[h]) /\ turns[h] \in Nat /\ held' = held
  BY DEF IInv, Shape, RunsGood, Node
<1>2. CASE run[h].node = "hydrate" /\ Becomes(h, Hydrate(run[h]))
  BY <1>1, <1>2, HydrateGood, BecomesKeeps
<1>3. CASE run[h].node = "route" /\ Becomes(h, RouteMessage(run[h], <<>>))
  BY <1>1, <1>3, RouteMessageGood, BecomesKeeps
<1>4. CASE run[h].node = "run_task" /\ Refuses(run[h]) /\ Becomes(h, TaskRefused(run[h]))
  BY <1>1, <1>4, TaskRefusedGood, BecomesKeeps
<1>5. CASE run[h].node = "check_output" /\ Becomes(h, CheckOutput(run[h]))
  BY <1>1, <1>5, CheckOutputGood, BecomesKeeps
<1>6. CASE run[h].node = "await_review" /\ Becomes(h, AwaitReview(run[h]))
  BY <1>1, <1>6, AwaitReviewGood, BecomesKeeps
<1>7. CASE run[h].node = "route_agent" /\ Becomes(h, RouteAgent(run[h]))
  BY <1>1, <1>7, RouteAgentGood, BecomesKeeps
<1>8. CASE run[h].node = "handle_error" /\ Becomes(h, HandleError(run[h]))
  BY <1>1, <1>8, HandleErrorGood, BecomesKeeps
<1> QED
  BY <1>2, <1>3, <1>4, <1>5, <1>6, <1>7, <1>8 DEF Node

LEMMA BeginTaskKeeps ==
    ASSUME IInv, NEW h \in Handlers, BeginTask(h)
    PROVE  IInv'
<1> DEFINE r == TaskBegun(run[h])
<1>1. /\ run' = [run EXCEPT ![h] = r]
      /\ held' = [held EXCEPT ![h] = hooks[session[h]]]
      /\ UNCHANGED <<session, started, finished, queue, item, hooks, turns, rows>>
  BY DEF BeginTask
<1>2. GoodRun(r, turns[h])
  BY TaskBegunGood DEF IInv, Shape, RunsGood, BeginTask
<1> HIDE DEF r
<1>3. Shape'
  BY <1>1, <1>2 DEF IInv, Shape, GoodRun
<1>4. RunsGood'
  BY <1>1, <1>2 DEF IInv, Shape, RunsGood
<1>5. LoopsSound'
  BY <1>1 DEF IInv, Shape, LoopsSound, HooksReleased
<1>6. HooksReleased' /\ QueuesSound' /\ RowsSound'
  BY <1>1 DEF IInv, HooksReleased, QueuesSound, RowsSound
<1> QED
  BY <1>3, <1>4, <1>5, <1>6 DEF IInv

LEMMA LoseContextKeeps ==
    ASSUME IInv, NEW h \in Handlers, LoseContext(h)
    PROVE  IInv'
<1> DEFINE r == ContextFailed(run[h])
<1>1. /\ run' = [run EXCEPT ![h] = r]
      /\ held' = [held EXCEPT ![h] = NoHandler]
      /\ UNCHANGED <<session, started, finished, queue, item, hooks, turns, rows>>
  BY DEF LoseContext
<1>2. GoodRun(r, turns[h])
  BY ContextFailedGood DEF IInv, Shape, RunsGood, LoseContext, Streaming
<1> HIDE DEF r
<1>3. Shape'
  BY <1>1, <1>2 DEF IInv, Shape, GoodRun
<1>4. RunsGood'
  BY <1>1, <1>2 DEF IInv, Shape, RunsGood
<1>5. LoopsSound'
  BY <1>1 DEF IInv, Shape, LoopsSound
<1>6. HooksReleased' /\ QueuesSound' /\ RowsSound'
  BY <1>1 DEF IInv, HooksReleased, QueuesSound, RowsSound
<1> QED
  BY <1>3, <1>4, <1>5, <1>6 DEF IInv

LEMMA FailTaskKeeps ==
    ASSUME IInv, NEW h \in Handlers, FailTask(h)
    PROVE  IInv'
<1>1. PICK w \in BOOLEAN : Becomes(h, TaskFailed(run[h], w))
  BY DEF FailTask
<1>2. GoodRun(TaskFailed(run[h], w), turns[h])
  BY TaskFailedGood DEF IInv, Shape, RunsGood, FailTask, Streaming
<1> QED
  BY <1>1, <1>2, BecomesKeeps DEF FailTask

LEMMA EndTaskKeeps ==
    ASSUME IInv, NEW h \in Handlers, EndTask(h)
    PROVE  IInv'
<1>1. /\ GoodRun(run[h], turns[h]) /\ turns[h] \in Nat /\ held' = held
      /\ run[h].node = "logging"
  BY DEF IInv, Shape, RunsGood, EndTask
<1>2. ASSUME NEW o \in Answers, Becomes(h, TaskDone(run[h], o))
      PROVE  IInv'
  <2>1. o \in Outcomes
    BY OrchestrationAssumption
  <2>2. GoodRun(TaskDone(run[h], o), turns[h])
    BY <1>1, <2>1, TaskDoneGood
  <2> QED
    BY <1>1, <1>2, <2>2, BecomesKeeps
<1>3. ASSUME NEW w \in BOOLEAN, Becomes(h, TaskFailed(run[h], w))
      PROVE  IInv'
  <2>1. GoodRun(TaskFailed(run[h], w), turns[h])
    BY <1>1, TaskFailedGood
  <2> QED
    BY <1>1, <1>3, <2>1, BecomesKeeps
<1> QED
  BY <1>2, <1>3 DEF EndTask

\* The turn goes to the queue of the hooks, which are of the same session.
LEMMA HandOverKeeps ==
    ASSUME IInv, NEW h \in Handlers, HandOver(h)
    PROVE  IInv'
<1> DEFINE r == [run[h] EXCEPT !.node = "logging"]
           e == TurnEnd(<<h, turns[h] + 1>>)
<1>1. /\ run' = [run EXCEPT ![h] = r]
      /\ turns' = [turns EXCEPT ![h] = @ + 1]
      /\ held' = [held EXCEPT ![h] = NoHandler]
      /\ UNCHANGED <<session, started, finished, item, hooks, rows>>
  BY DEF HandOver, IInv, Shape
<1>2. turns[h] \in Nat
  BY DEF IInv, Shape
<1>3. GoodRun(r, turns[h] + 1)
  BY <1>2, HandOverGood DEF IInv, RunsGood, HandOver, Streaming
<1> HIDE DEF r
<1>4. turns[h] + 1 \in 1 .. MaxTurns
  BY <1>2, <1>3, GraphAssumption DEF GoodRun, StepsCover, MaxTurns
<1>5. queue' \in [Handlers -> Q!Queue(Items)] /\ QueuesSound'
  <2>1. CASE held[h] = NoHandler
    <3>1. queue' = queue
      BY <2>1 DEF HandOver
    <3> QED
      BY <1>1, <3>1 DEF IInv, Shape, QueuesSound
  <2>2. CASE held[h] # NoHandler
    <3> DEFINE g == held[h]
               q == Q!Push(queue[g], e)
    <3>1. g \in Handlers /\ session[g] = session[h]
      BY <2>2 DEF IInv, Shape, LoopsSound
    <3>2. queue' = [queue EXCEPT ![g] = q]
      BY <2>2 DEF HandOver
    <3>3. e \in Items
      BY <1>4 DEF TurnEnd, Items, Turn
    <3>4. Sound(e, session[g], session)
      BY <3>1 DEF Sound, TurnEnd
    <3> HIDE DEF e, g
    <3>5. queue[g] \in Q!Queue(Items) /\ AllSound(queue[g].items, session[g], session)
      BY <3>1 DEF IInv, Shape, QueuesSound
    <3>6. q \in Q!Queue(Items) /\ q.items = Append(queue[g].items, e)
      BY <3>3, <3>5, PushKeeps
    <3>7. queue[g].items \in Seq(Items)
      BY <3>5, QueueFields
    <3>8. AllSound(q.items, session[g], session)
      BY <3>3, <3>4, <3>5, <3>6, <3>7, AppendSound
    <3> HIDE DEF q
    <3> QED
      BY <1>1, <3>1, <3>2, <3>6, <3>8, QueueStep
  <2> QED
    BY <2>1, <2>2
<1>6. Shape'
  <2>1. turns' \in [Handlers -> Nat]
    BY <1>1, <1>2 DEF IInv, Shape
  <2>2. run' \in [Handlers -> AnyRun] /\ held' \in [Handlers -> Handlers \union {NoHandler}]
    BY <1>1, <1>3 DEF IInv, Shape, GoodRun
  <2> QED
    BY <1>1, <1>5, <2>1, <2>2 DEF IInv, Shape
<1>7. RunsGood'
  BY <1>1, <1>3 DEF IInv, Shape, RunsGood
<1>8. LoopsSound'
  BY <1>1 DEF IInv, Shape, LoopsSound
<1>9. HooksReleased' /\ RowsSound'
  BY <1>1 DEF IInv, HooksReleased, RowsSound
<1> QED
  BY <1>5, <1>6, <1>7, <1>8, <1>9 DEF IInv

\* Whoever set the hooks of the session, no other session had hooks of h.
LEMMA FinishRunKeeps ==
    ASSUME IInv, NEW h \in Handlers, FinishRun(h)
    PROVE  IInv'
<1> DEFINE q == IF run[h].node = "end" THEN Q!End(queue[h]) ELSE Q!Fail(queue[h])
<1>1. /\ finished' = finished \union {h} /\ h \in started
      /\ hooks' = [hooks EXCEPT ![session[h]] = NoHandler]
      /\ queue' = [queue EXCEPT ![h] = q]
      /\ UNCHANGED <<session, started, run, item, held, turns, rows>>
  BY DEF FinishRun
<1>2. queue[h] \in Q!Queue(Items) /\ AllSound(queue[h].items, session[h], session)
  BY DEF IInv, Shape, QueuesSound
<1>3. q \in Q!Queue(Items) /\ q.items = queue[h].items
  BY <1>2, EndKeeps
<1> HIDE DEF q
<1>4. queue' \in [Handlers -> Q!Queue(Items)] /\ QueuesSound'
  BY <1>1, <1>2, <1>3, QueueStep
<1>5. Shape'
  BY <1>1, <1>4 DEF IInv, Shape
<1>6. HooksReleased'
  BY <1>1 DEF IInv, Shape, HooksReleased
<1>7. RunsGood' /\ LoopsSound' /\ RowsSound'
  BY <1>1 DEF IInv, RunsGood, LoopsSound, RowsSound
<1> QED
  BY <1>4, <1>5, <1>6, <1>7 DEF IInv

\* A loop takes an item, or only the state of its generator changes.
LEMMA LoopStep ==
    ASSUME IInv, NEW h \in Handlers, NEW q \in Q!Queue(Items),
           AllSound(q.items, session[h], session),
           queue' = [queue EXCEPT ![h] = q],
           NEW t \in Turn \union {<<>>}, t # <<>> => session[t[1]] = session[h],
           item' = [item EXCEPT ![h] = t],
           rows' \in [Sessions -> [Turn -> Nat]], RowsSound',
           UNCHANGED <<session, started, finished, run, hooks, held, turns>>
    PROVE  IInv'
<1>1. queue' \in [Handlers -> Q!Queue(Items)] /\ QueuesSound'
  BY QueueStep
<1>2. Shape'
  BY <1>1 DEF IInv, Shape
<1>3. LoopsSound'
  BY DEF IInv, Shape, LoopsSound
<1>4. RunsGood' /\ HooksReleased'
  BY DEF IInv, RunsGood, HooksReleased
<1> QED
  BY <1>1, <1>2, <1>3, <1>4 DEF IInv

LEMMA TakeKeeps ==
    ASSUME IInv, NEW h \in Handlers, Take(h)
    PROVE  IInv'
<1> DEFINE e == Head(queue[h].items)
           y == Q!Yield(queue[h])
           stored == e.type = "agent_stream_end"
           q == IF stored THEN y ELSE Q!AskAgain(y)
           t == IF stored THEN e.turn ELSE item[h]
<1>1. /\ queue[h] \in Q!Queue(Items) /\ queue[h].items # <<>>
      /\ AllSound(queue[h].items, session[h], session)
      /\ queue[h].items \in Seq(Items)
  BY QueueFields DEF IInv, Shape, QueuesSound, Take, Q!Yields
<1>2. /\ y \in Q!Queue(Items) /\ y.items = Tail(queue[h].items)
      /\ e \in Items
  BY <1>1, YieldKeeps
<1>3. AllSound(y.items, session[h], session) /\ Sound(e, session[h], session)
  BY <1>1, <1>2, TailSound
<1>4. /\ queue' = [queue EXCEPT ![h] = q]
      /\ item' = [item EXCEPT ![h] = t]
      /\ UNCHANGED <<session, started, finished, run, hooks, held, turns, rows>>
  BY DEF Take, IInv, Shape
<1>5. item[h] \in Turn \union {<<>>} /\ (item[h] # <<>> => session[item[h][1]] = session[h])
  BY DEF IInv, Shape, LoopsSound
<1> HIDE DEF y, e
<1>6. t \in Turn \union {<<>>} /\ (t # <<>> => session[t[1]] = session[h])
  BY <1>2, <1>3, <1>5 DEF Items, Sound
<1>7. q \in Q!Queue(Items) /\ AllSound(q.items, session[h], session)
  BY <1>2, <1>3, ReaderKeeps
<1>8. rows' \in [Sessions -> [Turn -> Nat]] /\ RowsSound'
  BY <1>4 DEF IInv, Shape, RowsSound
<1> HIDE DEF q, t
<1> QED
  BY <1>4, <1>6, <1>7, <1>8, LoopStep

\* Steps of the generator alone.
LEMMA GeneratorStep ==
    ASSUME IInv, NEW h \in Handlers, NEW q \in Q!Queue(Items),
           q.items = queue[h].items, queue' = [queue EXCEPT ![h] = q],
           UNCHANGED <<session, started, finished, run, item, hooks, held, turns, rows>>
    PROVE  IInv'
<1>1. /\ AllSound(q.items, session[h], session)
      /\ item[h] \in Turn \union {<<>>} /\ item' = [item EXCEPT ![h] = item[h]]
      /\ item[h] # <<>> => session[item[h][1]] = session[h]
      /\ rows' \in [Sessions -> [Turn -> Nat]] /\ RowsSound'
  BY DEF IInv, Shape, QueuesSound, LoopsSound, RowsSound
<1> QED
  BY <1>1, LoopStep

LEMMA WaitKeeps ==
    ASSUME IInv, NEW h \in Handlers, Wait(h)
    PROVE  IInv'
<1>1. queue[h] \in Q!Queue(Items) /\ queue' = [queue EXCEPT ![h] = Q!Park(queue[h])]
  BY DEF IInv, Shape, Wait
<1> QED
  BY <1>1, ReaderKeeps, GeneratorStep DEF Wait

LEMMA StopKeeps ==
    ASSUME IInv, NEW h \in Handlers, Stop(h)
    PROVE  IInv'
<1>1. queue[h] \in Q!Queue(Items) /\ queue' = [queue EXCEPT ![h] = Q!Finish(queue[h])]
  BY DEF IInv, Shape, Stop
<1> QED
  BY <1>1, ReaderKeeps, GeneratorStep DEF Stop

LEMMA MirrorKeeps ==
    ASSUME IInv, NEW h \in Handlers, Mirror(h)
    PROVE  IInv'
<1> DEFINE q == Q!AskAgain(queue[h])
           t == <<>>
           s == session[h]
<1>1. /\ queue' = [queue EXCEPT ![h] = q]
      /\ item' = [item EXCEPT ![h] = t]
      /\ \/ rows' = rows
         \/ rows' = [rows EXCEPT ![s] = [rows[s] EXCEPT ![item[h]] = @ + 1]]
      /\ UNCHANGED <<session, started, finished, run, hooks, held, turns>>
  BY DEF Mirror
<1>2. /\ s \in Sessions /\ item[h] \in Turn /\ session[item[h][1]] = s
      /\ rows \in [Sessions -> [Turn -> Nat]]
  BY DEF Mirror, IInv, Shape, LoopsSound
<1>3. rows' \in [Sessions -> [Turn -> Nat]]
  <2>1. CASE rows' = rows
    BY <1>2, <2>1
  <2>2. CASE rows' = [rows EXCEPT ![s] = [rows[s] EXCEPT ![item[h]] = @ + 1]]
    BY <1>2, <2>2
  <2> QED
    BY <1>1, <2>1, <2>2
<1>4. RowsSound'
  <2> SUFFICES ASSUME NEW z \in Sessions, NEW u \in Turn, rows'[z][u] > 0
               PROVE  session[u[1]] = z
    BY <1>1 DEF RowsSound
  <2>1. CASE z = s /\ u = item[h]
    BY <1>2, <2>1
  <2>2. CASE ~(z = s /\ u = item[h])
    <3>1. rows'[z][u] = rows[z][u]
      BY <1>1, <1>2, <2>2
    <3> QED
      BY <3>1 DEF IInv, RowsSound
  <2> QED
    BY <2>1, <2>2
<1>5. q \in Q!Queue(Items) /\ AllSound(q.items, session[h], session)
  BY ReaderKeeps DEF IInv, Shape, QueuesSound
<1> HIDE DEF q, s
<1> QED
  BY <1>1, <1>3, <1>4, <1>5, LoopStep

LEMMA MirrorFailsKeeps ==
    ASSUME IInv, NEW h \in Handlers, MirrorFails(h)
    PROVE  IInv'
<1> DEFINE q == Q!Abandon(queue[h])
           t == <<>>
<1>1. /\ queue' = [queue EXCEPT ![h] = q]
      /\ item' = [item EXCEPT ![h] = t]
      /\ UNCHANGED <<session, started, finished, run, hooks, held, turns, rows>>
  BY DEF MirrorFails
<1>2. rows' \in [Sessions -> [Turn -> Nat]] /\ RowsSound'
  BY <1>1 DEF IInv, Shape, RowsSound
<1>3. q \in Q!Queue(Items) /\ AllSound(q.items, session[h], session)
  BY ReaderKeeps DEF IInv, Shape, QueuesSound
<1> HIDE DEF q
<1> QED
  BY <1>1, <1>2, <1>3, LoopStep

LEMMA StutterKeeps ==
    ASSUME IInv, UNCHANGED vars
    PROVE  IInv'
BY DEF IInv, Shape, RunsGood, HooksReleased, QueuesSound, LoopsSound, RowsSound, vars

LEMMA NextKeeps == IInv /\ [Next]_vars => IInv'
<1> SUFFICES ASSUME IInv, [Next]_vars PROVE IInv'
  OBVIOUS
<1>1. CASE UNCHANGED vars
  BY <1>1, StutterKeeps
<1>2. ASSUME NEW h \in Handlers, Start(h) PROVE IInv'
  BY <1>2, StartKeeps
<1>3. ASSUME NEW h \in Handlers, Background(h) PROVE IInv'
  BY <1>3, NodeKeeps, BeginTaskKeeps, LoseContextKeeps, FailTaskKeeps,
     HandOverKeeps, EndTaskKeeps, FinishRunKeeps DEF Background
<1>4. ASSUME NEW h \in Handlers, Loop(h) PROVE IInv'
  BY <1>4, TakeKeeps, WaitKeeps, StopKeeps, MirrorKeeps, MirrorFailsKeeps DEF Loop
<1> QED
  BY <1>1, <1>2, <1>3, <1>4 DEF Next

LEMMA Invariant == Spec => []IInv
<1>1. Init => IInv
  BY InitHolds
<1>2. IInv /\ [Next]_vars => IInv'
  BY NextKeeps
<1> QED
  BY <1>1, <1>2, PTL DEF Spec

\* The state of streamExecute keeps its shape; in particular the turns of a
\* run are bounded by a third of LangGraph's recursion limit, however often
\* agents hand off to each other.
THEOREM TypeCorrect == Spec => []TypeOK
<1>1. IInv => TypeOK
  <2> SUFFICES ASSUME IInv PROVE TypeOK
    OBVIOUS
  <2>1. ASSUME NEW h \in Handlers
        PROVE  turns[h] \in 0 .. MaxTurns
    BY GraphAssumption DEF IInv, Shape, RunsGood, GoodRun, StepsCover, MaxTurns
  <2>2. ASSUME NEW h \in Handlers
        PROVE  run[h] \in Runs \/ run[h].node = "logging"
    <3>1. run[h] \in AnyRun
      BY DEF IInv, Shape
    <3>2. CASE run[h].node # "logging"
      BY <3>1, <3>2 DEF AnyRun, Nodes, Statuses, Runs
    <3> QED
      BY <3>2
  <2>3. turns \in [Handlers -> 0 .. MaxTurns]
    BY <2>1 DEF IInv, Shape
  <2> QED
    BY <2>2, <2>3 DEF IInv, Shape, TypeOK
<1> QED
  BY <1>1, Invariant, PTL

\* sessionStreamHooks never keeps the hooks of a run that is over, nor those
\* of another session.
THEOREM Released == Spec => []HooksReleased
<1>1. IInv => HooksReleased
  BY DEF IInv
<1> QED
  BY <1>1, Invariant, PTL

\* No event, no pair of hooks and no row ever crosses from one session into
\* another, for any number of concurrent messages.
THEOREM Isolation == Spec => []SessionsIsolated
<1>1. IInv => SessionsIsolated
  BY DEF IInv, QueuesSound, AllSound, Sound, LoopsSound, RowsSound, SessionsIsolated
<1> QED
  BY <1>1, Invariant, PTL
-----------------------------------------------------------------------------
(***************************************************************************)
(* Nobody sleeps on: an invariant of the queues on top of the other one.   *)
(***************************************************************************)
\* A sleeping reader has a waiter and an open, empty queue; a run that is over
\* has closed its queue.
Wakes(q, over) ==
    /\ q.reader = "parked" => q.items = <<>> /\ q.waiters > 0 /\ ~q.done
    /\ over => q.done

Wakeful ==
    \A h \in Handlers :
        /\ Wakes(queue[h], h \in finished)
        /\ queue[h].reader = "parked" => h \in started

LEMMA WakeWakes ==
    ASSUME NEW q \in Q!Queue(Items), NEW n \in Nat,
           q.reader = "parked" => q.waiters > 0 /\ n > 0
    PROVE  Q!Wake(q, n).reader # "parked" /\ Q!Wake(q, n).done = q.done
<1> DEFINE w == IF n < q.waiters THEN q.waiters - n ELSE 0
           r == IF q.waiters > 0 /\ n > 0 /\ q.reader = "parked"
                THEN "asking" ELSE q.reader
<1>1. r # "parked"
  OBVIOUS
<1>2. Q!Wake(q, n) = [q EXCEPT !.waiters = w, !.reader = r]
  BY DEF Q!Wake, Q!Queue
<1> HIDE DEF w, r
<1> QED
  BY <1>1, <1>2 DEF Q!Queue

LEMMA PushWakes ==
    ASSUME NEW q \in Q!Queue(Items), NEW e \in Items, NEW o, Wakes(q, o)
    PROVE  Q!Push(q, e).reader # "parked" /\ Wakes(Q!Push(q, e), o)
<1> DEFINE longer == Append(q.items, e)
           p == [q EXCEPT !.items = longer]
<1>1. longer \in Seq(Items)
  BY QueueFields, AppendProperties
<1> HIDE DEF longer
<1>2. /\ p \in Q!Queue(Items) /\ p.done = q.done
      /\ p.reader = q.reader /\ p.waiters = q.waiters
  BY <1>1 DEF Q!Queue
<1>3. Q!Push(q, e) = Q!Wake(p, 1)
  BY DEF Q!Push, longer
<1>4. p.reader = "parked" => p.waiters > 0
  BY <1>2 DEF Wakes
<1> HIDE DEF p
<1>5. Q!Wake(p, 1).reader # "parked" /\ Q!Wake(p, 1).done = p.done
  BY <1>2, <1>4, WakeWakes
<1> QED
  BY <1>2, <1>3, <1>5 DEF Wakes

LEMMA EndWakes ==
    ASSUME NEW q \in Q!Queue(Items), NEW o, Wakes(q, o)
    PROVE  /\ Q!End(q).reader # "parked" /\ Q!End(q).done
           /\ Q!Fail(q).reader # "parked" /\ Q!Fail(q).done
<1> DEFINE d == [q EXCEPT !.done = TRUE]
           f == [q EXCEPT !.err = TRUE, !.done = TRUE]
<1>1. /\ d \in Q!Queue(Items) /\ d.done /\ d.reader = q.reader /\ d.waiters = q.waiters
      /\ f \in Q!Queue(Items) /\ f.done /\ f.reader = q.reader /\ f.waiters = q.waiters
  BY DEF Q!Queue
<1>2. Q!End(q) = Q!Wake(d, q.waiters) /\ Q!Fail(q) = Q!Wake(f, q.waiters)
  BY DEF Q!End, Q!Fail
<1>3. q.waiters \in Nat /\ (q.reader = "parked" => q.waiters > 0)
  BY QueueFields DEF Wakes
<1> HIDE DEF d, f
<1> QED
  BY <1>1, <1>2, <1>3, WakeWakes

LEMMA ReaderWakes ==
    ASSUME NEW q \in Q!Queue(Items)
    PROVE  /\ Q!Yield(q).reader = "holding" /\ Q!Yield(q).done = q.done
           /\ Q!AskAgain(q).reader = "asking" /\ Q!AskAgain(q).done = q.done
           /\ Q!Finish(q).reader # "parked" /\ Q!Finish(q).done = q.done
           /\ Q!Abandon(q).reader = "gone" /\ Q!Abandon(q).done = q.done
<1>1. Q!Yield(q).reader = "holding" /\ Q!Yield(q).done = q.done
  BY DEF Q!Yield, Q!Queue
<1>2. Q!AskAgain(q).reader = "asking" /\ Q!AskAgain(q).done = q.done
  BY DEF Q!AskAgain, Q!Queue
<1>3. Q!Finish(q).reader # "parked" /\ Q!Finish(q).done = q.done
  BY DEF Q!Finish, Q!Queue
<1>4. Q!Abandon(q).reader = "gone" /\ Q!Abandon(q).done = q.done
  BY DEF Q!Abandon, Q!Queue
<1> QED
  BY <1>1, <1>2, <1>3, <1>4

LEMMA ParkWakes ==
    ASSUME NEW q \in Q!Queue(Items), Q!Parks(q), NEW o, Wakes(q, o)
    PROVE  Wakes(Q!Park(q), o)
<1> DEFINE w == q.waiters + 1
<1>1. w \in Nat /\ w > 0
  BY QueueFields
<1>2. Q!Park(q) = [q EXCEPT !.waiters = w, !.reader = "parked"]
  BY DEF Q!Park
<1> HIDE DEF w
<1>3. /\ Q!Park(q).items = q.items /\ Q!Park(q).waiters = w
      /\ Q!Park(q).done = q.done
  BY <1>2 DEF Q!Queue
<1> QED
  BY <1>1, <1>3 DEF Wakes, Q!Parks

\* What the steps that change one queue have in common.
LEMMA WakefulStep ==
    ASSUME IInv, Wakeful, NEW g \in Handlers, NEW q, Wakes(q, g \in finished),
           q.reader = "parked" => g \in started,
           queue' = [queue EXCEPT ![g] = q],
           UNCHANGED <<started, finished>>
    PROVE  Wakeful'
<1> SUFFICES ASSUME NEW h \in Handlers
             PROVE  /\ Wakes(queue'[h], h \in finished)
                    /\ queue'[h].reader = "parked" => h \in started
  BY DEF Wakeful, Wakes
<1>1. CASE h = g
  BY <1>1 DEF IInv, Shape
<1>2. CASE h # g
  BY <1>2 DEF IInv, Shape, Wakeful
<1> QED
  BY <1>1, <1>2

LEMMA PushStep ==
    ASSUME IInv, Wakeful, NEW g \in Handlers, NEW e \in Items,
           queue' = [queue EXCEPT ![g] = Q!Push(queue[g], e)],
           UNCHANGED <<started, finished>>
    PROVE  Wakeful'
<1> DEFINE q == Q!Push(queue[g], e)
<1>1. queue[g] \in Q!Queue(Items) /\ Wakes(queue[g], g \in finished)
  BY DEF IInv, Shape, Wakeful
<1>2. q.reader # "parked" /\ Wakes(q, g \in finished)
  BY <1>1, PushWakes
<1> HIDE DEF q
<1> QED
  BY <1>2, WakefulStep DEF q

LEMMA SameQueues ==
    ASSUME Wakeful, queue' = queue, finished' = finished,
           started \subseteq started'
    PROVE  Wakeful'
BY DEF Wakeful, Wakes

LEMMA BecomesWakeful ==
    ASSUME IInv, IInv', Wakeful, NEW h \in Handlers, NEW r, Becomes(h, r)
    PROVE  Wakeful'
<1>1. UNCHANGED <<started, finished>>
  BY DEF Becomes
<1>2. r \in AnyRun
  <2>1. run' = [run EXCEPT ![h] = r] /\ run' \in [Handlers -> AnyRun]
    BY DEF Becomes, IInv, Shape
  <2> QED
    BY <2>1 DEF IInv, Shape
<1>3. CASE StateToEvent(r) = <<>>
  <2>1. queue' = queue
    BY <1>3 DEF Becomes
  <2> QED
    BY <1>1, <2>1, SameQueues
<1>4. CASE StateToEvent(r) # <<>>
  <2> DEFINE e == Forwarded(h, Head(StateToEvent(r)))
  <2>1. e \in Items
    BY <1>2, <1>4, EventsForward
  <2>2. queue' = [queue EXCEPT ![h] = Q!Push(queue[h], e)]
    BY <1>4 DEF Becomes
  <2> HIDE DEF e
  <2> QED
    BY <1>1, <2>1, <2>2, PushStep
<1> QED
  BY <1>3, <1>4

LEMMA BackgroundWakeful ==
    ASSUME IInv, IInv', Wakeful, NEW h \in Handlers, Background(h)
    PROVE  Wakeful'
<1>1. ASSUME NEW r, Becomes(h, r) PROVE Wakeful'
  BY <1>1, BecomesWakeful
<1>2. CASE Node(h)
  BY <1>1, <1>2 DEF Node
<1>3. CASE BeginTask(h)
  BY <1>3, SameQueues DEF BeginTask
<1>4. CASE LoseContext(h)
  BY <1>4, SameQueues DEF LoseContext
<1>5. CASE FailTask(h)
  BY <1>1, <1>5 DEF FailTask
<1>6. CASE HandOver(h)
  <2>1. UNCHANGED <<started, finished>>
    BY <1>6 DEF HandOver
  <2>2. CASE held[h] = NoHandler
    BY <1>6, <2>1, <2>2, SameQueues DEF HandOver
  <2>3. CASE held[h] # NoHandler
    <3> DEFINE g == held[h]
               e == TurnEnd(<<h, turns[h] + 1>>)
    <3>1. g \in Handlers
      BY <2>3 DEF IInv, Shape
    <3>2. e \in Items
      <4>1. turns' = [turns EXCEPT ![h] = @ + 1] /\ turns[h] \in Nat
        BY <1>6 DEF HandOver, IInv, Shape
      <4>2. turns'[h] = turns[h] + 1
        BY <4>1 DEF IInv, Shape
      <4>3. turns'[h] \in 0 .. MaxTurns
        BY GraphAssumption DEF IInv, Shape, RunsGood, GoodRun, StepsCover, MaxTurns
      <4>4. turns[h] + 1 \in 1 .. MaxTurns
        BY <4>1, <4>2, <4>3
      <4> QED
        BY <4>4 DEF TurnEnd, Items, Turn
    <3>3. queue' = [queue EXCEPT ![g] = Q!Push(queue[g], e)]
      BY <1>6, <2>3 DEF HandOver
    <3> HIDE DEF e, g
    <3> QED
      BY <2>1, <3>1, <3>2, <3>3, PushStep
  <2> QED
    BY <2>2, <2>3
<1>7. CASE EndTask(h)
  BY <1>1, <1>7 DEF EndTask
<1>8. CASE FinishRun(h)
  <2> DEFINE q == IF run[h].node = "end" THEN Q!End(queue[h]) ELSE Q!Fail(queue[h])
  <2>1. /\ finished' = finished \union {h} /\ started' = started
        /\ queue' = [queue EXCEPT ![h] = q]
    BY <1>8 DEF FinishRun
  <2>2. queue[h] \in Q!Queue(Items) /\ Wakes(queue[h], h \in finished)
    BY DEF IInv, Shape, Wakeful
  <2>3. q.reader # "parked" /\ q.done
    BY <2>2, EndWakes
  <2> HIDE DEF q
  <2>4. ASSUME NEW g \in Handlers
        PROVE  /\ Wakes(queue'[g], g \in finished')
               /\ queue'[g].reader = "parked" => g \in started'
    <3>1. CASE g = h
      BY <2>1, <2>3, <3>1 DEF IInv, Shape, Wakes
    <3>2. CASE g # h
      BY <2>1, <3>2 DEF IInv, Shape, Wakeful, Wakes
    <3> QED
      BY <3>1, <3>2
  <2> QED
    BY <2>4 DEF Wakeful
<1> QED
  BY <1>2, <1>3, <1>4, <1>5, <1>6, <1>7, <1>8 DEF Background

LEMMA LoopWakeful ==
    ASSUME IInv, Wakeful, NEW h \in Handlers, Loop(h)
    PROVE  Wakeful'
<1>1. /\ queue[h] \in Q!Queue(Items) /\ Wakes(queue[h], h \in finished)
  BY DEF IInv, Shape, Wakeful
<1>2. UNCHANGED <<started, finished>>
  BY DEF Loop, Take, Wait, Stop, Mirror, MirrorFails
\* The reader goes on, is busy or is done.
<1>3. ASSUME NEW q, q.reader # "parked", q.done = queue[h].done,
             queue' = [queue EXCEPT ![h] = q]
      PROVE  Wakeful'
  <2>1. Wakes(q, h \in finished)
    BY <1>1, <1>3 DEF Wakes
  <2> QED
    BY <1>2, <1>3, <2>1, WakefulStep
<1>4. CASE Take(h)
  <2> DEFINE y == Q!Yield(queue[h])
             q == IF Head(queue[h].items).type = "agent_stream_end"
                  THEN y ELSE Q!AskAgain(y)
  <2>1. queue' = [queue EXCEPT ![h] = q]
    BY <1>4 DEF Take
  <2>2. y \in Q!Queue(Items)
    BY <1>1, <1>4, YieldKeeps DEF Take, Q!Yields
  <2>3. q.reader # "parked" /\ q.done = queue[h].done
    BY <1>1, <2>2, ReaderWakes
  <2> HIDE DEF q
  <2> QED
    BY <1>3, <2>1, <2>3
<1>5. CASE Wait(h)
  <2>1. queue' = [queue EXCEPT ![h] = Q!Park(queue[h])] /\ Q!Parks(queue[h])
        /\ h \in started
    BY <1>5 DEF Wait
  <2>2. Wakes(Q!Park(queue[h]), h \in finished)
    BY <1>1, <2>1, ParkWakes
  <2> QED
    BY <1>2, <2>1, <2>2, WakefulStep
<1>6. CASE Stop(h)
  BY <1>1, <1>3, <1>6, ReaderWakes DEF Stop
<1>7. CASE Mirror(h)
  BY <1>1, <1>3, <1>7, ReaderWakes DEF Mirror
<1>8. CASE MirrorFails(h)
  BY <1>1, <1>3, <1>8, ReaderWakes DEF MirrorFails
<1> QED
  BY <1>4, <1>5, <1>6, <1>7, <1>8 DEF Loop

\* No reader sleeps on a queue that has something for it, or whose run is
\* over: for any number of messages, in any interleaving, with any failures.
THEOREM NobodySleepsOn == Spec => []NobodyLeftWaiting
<1>1. Init => Wakeful
  BY DEF Init, Wakeful, Wakes, Q!NewQueue
<1>2. IInv /\ IInv' /\ Wakeful /\ [Next]_vars => Wakeful'
  <2> SUFFICES ASSUME IInv, IInv', Wakeful, [Next]_vars PROVE Wakeful'
    OBVIOUS
  <2>1. CASE UNCHANGED vars
    BY <2>1, SameQueues DEF vars
  <2>2. ASSUME NEW h \in Handlers, Start(h) PROVE Wakeful'
    BY <2>2, SameQueues DEF Start
  <2>3. ASSUME NEW h \in Handlers, Background(h) PROVE Wakeful'
    BY <2>3, BackgroundWakeful
  <2>4. ASSUME NEW h \in Handlers, Loop(h) PROVE Wakeful'
    BY <2>4, LoopWakeful
  <2> QED
    BY <2>1, <2>2, <2>3, <2>4 DEF Next
<1>3. Wakeful => NobodyLeftWaiting
  BY DEF Wakeful, Wakes, NobodyLeftWaiting
<1> QED
  BY <1>1, <1>2, <1>3, Invariant, PTL DEF Spec
-----------------------------------------------------------------------------
(***************************************************************************)
(* A turn has one place.                                                   *)
(***************************************************************************)
Queued(t, h, i) == i \in 1 .. Len(queue[h].items) /\ queue[h].items[i].turn = t

\* Nowhere twice, and once in a row nowhere else.
OnePlace ==
    \A t \in Turn, h, g \in Handlers, i, j \in Nat :
        /\ Queued(t, h, i) /\ Queued(t, g, j) => h = g /\ i = j
        /\ item[h] = t /\ item[g] = t => h = g
        /\ Queued(t, h, i) => item[g] # t
        /\ Queued(t, h, i) \/ item[h] = t =>
              t[2] <= turns[t[1]] /\ \A s \in Sessions : rows[s][t] = 0

\* A turn that is in a row has been taken.
RowsOnce ==
    \A s \in Sessions, t \in Turn :
        rows[s][t] <= 1 /\ (rows[s][t] > 0 => t[2] <= turns[t[1]])

\* A turn leaves a place or, in the queue of g, moves up by k.
LEMMA FewerPlaces ==
    ASSUME IInv, OnePlace, RowsOnce, NEW g \in Handlers, NEW k \in Nat,
           \A t \in Turn, h \in Handlers, i \in Nat :
              Queued(t, h, i)' => Queued(t, h, IF h = g THEN i + k ELSE i),
           \A h \in Handlers : item'[h] \in {item[h], <<>>},
           turns' = turns, rows' = rows
    PROVE  OnePlace' /\ RowsOnce'
<1>1. <<>> \notin Turn
  BY DEF Turn
<1>2. ASSUME NEW t \in Turn, NEW h \in Handlers, item'[h] = t PROVE item[h] = t
  BY <1>1, <1>2
<1>3. ASSUME NEW t \in Turn, NEW h \in Handlers, NEW f \in Handlers, NEW i \in Nat, NEW j \in Nat
      PROVE  /\ Queued(t, h, i)' /\ Queued(t, f, j)' => h = f /\ i = j
             /\ item'[h] = t /\ item'[f] = t => h = f
             /\ Queued(t, h, i)' => item'[f] # t
             /\ Queued(t, h, i)' \/ item'[h] = t =>
                   t[2] <= turns[t[1]] /\ \A s \in Sessions : rows[s][t] = 0
  <2> DEFINE m == IF h = g THEN i + k ELSE i
             n == IF f = g THEN j + k ELSE j
  <2>1. m \in Nat /\ n \in Nat
    OBVIOUS
  <2>2. (Queued(t, h, i)' => Queued(t, h, m)) /\ (Queued(t, f, j)' => Queued(t, f, n))
    OBVIOUS
  <2>3. h = f /\ m = n => i = j
    OBVIOUS
  <2> HIDE DEF m, n
  <2>4. /\ Queued(t, h, m) /\ Queued(t, f, n) => h = f /\ m = n
        /\ item[h] = t /\ item[f] = t => h = f
        /\ Queued(t, h, m) => item[f] # t
        /\ Queued(t, h, m) \/ item[h] = t =>
              t[2] <= turns[t[1]] /\ \A s \in Sessions : rows[s][t] = 0
    BY <2>1 DEF OnePlace
  <2> QED
    BY <1>2, <2>2, <2>3, <2>4
<1>4. OnePlace'
  BY <1>3 DEF OnePlace
<1> QED
  BY <1>4 DEF RowsOnce

\* Steps that touch neither queues nor loops.
LEMMA SamePlaces ==
    ASSUME OnePlace, RowsOnce, UNCHANGED <<queue, item, turns, rows>>
    PROVE  OnePlace' /\ RowsOnce'
BY DEF OnePlace, RowsOnce, Queued

\* One queue changes: it is as it was, loses its head, or gets an event that
\* is only forwarded.
LEMMA QueuePlaces ==
    ASSUME IInv, OnePlace, RowsOnce, NEW g \in Handlers, NEW q \in Q!Queue(Items),
           queue' = [queue EXCEPT ![g] = q],
           \/ q.items = queue[g].items
           \/ \E e \in Items : e.turn = <<>> /\ q.items = Append(queue[g].items, e)
           \/ queue[g].items # <<>> /\ q.items = Tail(queue[g].items),
           \A h \in Handlers : item'[h] \in {item[h], <<>>},
           turns' = turns, rows' = rows
    PROVE  OnePlace' /\ RowsOnce'
<1> DEFINE seq == queue[g].items
           k == IF q.items # seq /\ seq # <<>> /\ q.items = Tail(seq) THEN 1 ELSE 0
<1>1. seq \in Seq(Items)
  BY QueueFields DEF IInv, Shape
<1>2. <<>> \notin Turn
  BY DEF Turn
<1>3. /\ queue'[g].items = q.items
      /\ \A h \in Handlers : h # g => queue'[h].items = queue[h].items
  BY DEF IInv, Shape
<1>4. ASSUME NEW t \in Turn, NEW i \in 1 .. Len(q.items), q.items[i].turn = t
      PROVE  i + k \in 1 .. Len(seq) /\ seq[i + k].turn = t
  <2> HIDE DEF seq
  <2>1. CASE q.items = seq
    BY <1>1, <1>4, <2>1
  <2>2. ASSUME NEW e \in Items, e.turn = <<>>, q.items = Append(seq, e) PROVE i + k \in 1 .. Len(seq) /\ seq[i + k].turn = t
    <3>1. /\ Len(q.items) = Len(seq) + 1 /\ q.items[Len(seq) + 1] = e
          /\ \A n \in 1 .. Len(seq) : q.items[n] = seq[n]
      BY <1>1, <2>2
    <3>2. Len(seq) \in Nat /\ (seq # <<>> => Len(Tail(seq)) = Len(seq) - 1)
      BY <1>1
    <3>3. k = 0
      BY <3>1, <3>2
    <3>4. i # Len(seq) + 1
      BY <1>2, <1>4, <2>2, <3>1
    <3> QED
      BY <1>4, <3>1, <3>2, <3>3, <3>4
  <2>3. CASE q.items # seq /\ seq # <<>> /\ q.items = Tail(seq)
    <3>1. k = 1
      BY <2>3
    <3>2. Len(q.items) = Len(seq) - 1 /\ \A n \in 1 .. Len(q.items) : q.items[n] = seq[n + 1]
      BY <1>1, <2>3
    <3> QED
      BY <1>1, <1>4, <3>1, <3>2
  <2> QED
    BY <2>1, <2>2, <2>3 DEF seq
<1>5. k \in Nat
  OBVIOUS
<1> HIDE DEF k
<1>6. ASSUME NEW t \in Turn, NEW h \in Handlers, NEW i \in Nat, Queued(t, h, i)'
      PROVE  Queued(t, h, IF h = g THEN i + k ELSE i)
  <2>1. i \in 1 .. Len(queue'[h].items) /\ queue'[h].items[i].turn = t
    BY <1>6 DEF Queued
  <2> QED
    BY <1>3, <1>4, <2>1 DEF Queued
<1> QED
  BY <1>5, <1>6, FewerPlaces

LEMMA BecomesPlaces ==
    ASSUME IInv, IInv', OnePlace, RowsOnce, NEW h \in Handlers, NEW r, Becomes(h, r)
    PROVE  OnePlace' /\ RowsOnce'
<1>1. item' = item /\ turns' = turns /\ rows' = rows
  BY DEF Becomes
<1>2. r \in AnyRun
  <2>1. run' = [run EXCEPT ![h] = r] /\ run' \in [Handlers -> AnyRun]
    BY DEF Becomes, IInv, Shape
  <2> QED
    BY <2>1 DEF IInv, Shape
<1>3. CASE StateToEvent(r) = <<>>
  <2>1. queue' = queue
    BY <1>3 DEF Becomes
  <2> QED
    BY <1>1, <2>1, SamePlaces
<1>4. CASE StateToEvent(r) # <<>>
  <2> DEFINE e == Forwarded(h, Head(StateToEvent(r)))
             q == Q!Push(queue[h], e)
  <2>1. e \in Items /\ e.turn = <<>>
    BY <1>2, <1>4, EventsForward DEF Forwarded
  <2>2. queue' = [queue EXCEPT ![h] = q]
    BY <1>4 DEF Becomes
  <2> HIDE DEF e
  <2>3. q \in Q!Queue(Items) /\ q.items = Append(queue[h].items, e)
    BY <2>1, PushKeeps DEF IInv, Shape
  <2> HIDE DEF q
  <2> QED
    BY <1>1, <2>1, <2>2, <2>3, QueuePlaces
<1> QED
  BY <1>3, <1>4

\* The turn is new: it is nowhere yet, so that its place in the queue is its
\* only one.
LEMMA HandOverPlaces ==
    ASSUME IInv, OnePlace, RowsOnce, NEW h \in Handlers, HandOver(h)
    PROVE  OnePlace' /\ RowsOnce'
<1> DEFINE n == turns[h] + 1
           u == <<h, n>>
           e == TurnEnd(u)
           r == [run[h] EXCEPT !.node = "logging"]
<1>1. /\ turns' = [turns EXCEPT ![h] = n] /\ turns[h] \in Nat /\ item' = item /\ rows' = rows
  BY DEF HandOver, IInv, Shape
<1>2. /\ turns'[h] = n /\ \A g \in Handlers : turns'[g] \in Nat /\ turns[g] \in Nat /\ turns[g] <= turns'[g]
  BY <1>1 DEF IInv, Shape
<1>3. u \in Turn
  <2>1. GoodRun(r, n)
    BY <1>1, HandOverGood DEF IInv, RunsGood, HandOver, Streaming
  <2>2. n \in 1 .. MaxTurns
    BY <1>1, <2>1, GraphAssumption DEF GoodRun, StepsCover, MaxTurns
  <2> QED
    BY <2>2 DEF Turn
<1>4. /\ u[1] = h /\ u[2] = n /\ ~(n <= turns[h])
      /\ \A t \in Turn : t[1] \in Handlers /\ t[2] \in Nat
  BY <1>1 DEF Turn
<1>5. RowsOnce'
  BY <1>1, <1>2, <1>4 DEF RowsOnce
<1>6. \A g \in Handlers, i \in Nat : ~Queued(u, g, i) /\ item[g] # u
  BY <1>3, <1>4 DEF OnePlace
<1>7. \A s \in Sessions : rows[s][u] = 0
  <2>1. \A s \in Sessions : rows[s][u] \in Nat
    BY <1>3 DEF IInv, Shape
  <2> QED
    BY <1>3, <1>4, <2>1 DEF RowsOnce
<1>8. CASE held[h] = NoHandler
  <2>1. queue' = queue
    BY <1>8 DEF HandOver
  <2>2. \A t \in Turn : t[2] <= turns[t[1]] => t[2] <= turns'[t[1]]
    BY <1>2, <1>4
  <2> QED
    BY <1>1, <1>5, <2>1, <2>2 DEF OnePlace, Queued
<1>9. CASE held[h] # NoHandler
  <2> DEFINE g == held[h]
             q == Q!Push(queue[g], e)
             m == Len(queue[g].items) + 1
  <2>1. g \in Handlers
    BY <1>9 DEF IInv, Shape
  <2>2. queue' = [queue EXCEPT ![g] = q]
    BY <1>9 DEF HandOver
  <2>3. e \in Items /\ e.turn = u
    <3>1. u[1] \in Handlers
      BY <1>4
    <3> QED
      BY <1>3, <3>1 DEF TurnEnd, Items
  <2> HIDE DEF e, g
  <2>4. queue[g] \in Q!Queue(Items) /\ queue[g].items \in Seq(Items)
    BY <2>1, QueueFields DEF IInv, Shape
  <2>5. q.items = Append(queue[g].items, e)
    BY <2>3, <2>4, PushKeeps
  <2> HIDE DEF q
  <2>6. /\ queue'[g].items = Append(queue[g].items, e)
        /\ \A f \in Handlers : f # g => queue'[f].items = queue[f].items
    BY <2>1, <2>2, <2>5 DEF IInv, Shape
  <2>7. /\ Len(queue'[g].items) = m /\ m \in Nat /\ queue'[g].items[m] = e
        /\ \A i \in 1 .. m - 1 : queue'[g].items[i] = queue[g].items[i]
    BY <2>3, <2>4, <2>6
  <2>8. ASSUME NEW t \in Turn, NEW f \in Handlers, NEW i \in Nat, Queued(t, f, i)'
        PROVE  IF t = u THEN f = g /\ i = m ELSE Queued(t, f, i)
    <3>1. i \in 1 .. Len(queue'[f].items) /\ queue'[f].items[i].turn = t
      BY <2>8 DEF Queued
    <3>2. CASE f = g /\ i = m
      BY <2>3, <2>7, <3>1, <3>2
    <3>3. CASE f = g /\ i # m
      <4>1. i \in 1 .. m - 1 /\ Queued(t, f, i)
        BY <2>7, <3>1, <3>3 DEF Queued
      <4> QED
        BY <1>6, <4>1
    <3>4. CASE f # g
      <4>1. Queued(t, f, i)
        BY <2>6, <3>1, <3>4 DEF Queued
      <4> QED
        BY <1>6, <4>1
    <3> QED
      BY <3>2, <3>3, <3>4
  <2>9. ASSUME NEW t \in Turn, NEW f \in Handlers, NEW k \in Handlers, NEW i \in Nat, NEW j \in Nat
        PROVE  /\ Queued(t, f, i)' /\ Queued(t, k, j)' => f = k /\ i = j
               /\ item[f] = t /\ item[k] = t => f = k
               /\ Queued(t, f, i)' => item[k] # t
               /\ Queued(t, f, i)' \/ item[f] = t =>
                     t[2] <= turns'[t[1]] /\ \A s \in Sessions : rows[s][t] = 0
    <3>1. CASE t = u
      BY <1>2, <1>4, <1>6, <1>7, <2>8, <3>1
    <3>2. CASE t # u
      <4>1. (Queued(t, f, i)' => Queued(t, f, i)) /\ (Queued(t, k, j)' => Queued(t, k, j))
        BY <2>8, <3>2
      <4>2. t[2] <= turns[t[1]] => t[2] <= turns'[t[1]]
        BY <1>2, <1>4
      <4>3. /\ Queued(t, f, i) /\ Queued(t, k, j) => f = k /\ i = j
            /\ item[f] = t /\ item[k] = t => f = k
            /\ Queued(t, f, i) => item[k] # t
            /\ Queued(t, f, i) \/ item[f] = t =>
                  t[2] <= turns[t[1]] /\ \A s \in Sessions : rows[s][t] = 0
        BY DEF OnePlace
      <4> QED
        BY <4>1, <4>2, <4>3
    <3> QED
      BY <3>1, <3>2
  <2>10. OnePlace'
    BY <1>1, <2>9 DEF OnePlace
  <2> QED
    BY <1>5, <2>10
<1> QED
  BY <1>8, <1>9

\* The head of the queue is the loop's from now on, and nobody else's.
LEMMA TakePlaces ==
    ASSUME IInv, IInv', OnePlace, RowsOnce, NEW h \in Handlers, Take(h)
    PROVE  OnePlace' /\ RowsOnce'
<1> DEFINE seq == queue[h].items
           e == Head(seq)
           y == Q!Yield(queue[h])
           q == IF e.type = "agent_stream_end" THEN y ELSE Q!AskAgain(y)
           u == e.turn
<1>1. queue[h] \in Q!Queue(Items) /\ seq # <<>> /\ seq \in Seq(Items)
  BY QueueFields DEF IInv, Shape, Take, Q!Yields
<1>2. y \in Q!Queue(Items) /\ y.items = Tail(seq) /\ e \in Items
  BY <1>1, YieldKeeps
<1>3. queue' = [queue EXCEPT ![h] = q] /\ turns' = turns /\ rows' = rows
  BY DEF Take
<1>4. q \in Q!Queue(Items) /\ q.items = Tail(seq)
  BY <1>2, ReaderKeeps
<1>5. CASE e.type # "agent_stream_end"
  <2>1. item' = item
    BY <1>5 DEF Take
  <2> HIDE DEF q
  <2> QED
    BY <1>1, <1>3, <1>4, <2>1, QueuePlaces
<1>6. CASE e.type = "agent_stream_end"
  <2>1. item' = [item EXCEPT ![h] = u] /\ u \in Turn
    BY <1>2, <1>6 DEF Take, Items
  <2> HIDE DEF q, e
  <2>2. /\ item'[h] = u /\ \A f \in Handlers : f # h => item'[f] = item[f]
    BY <2>1 DEF IInv, Shape
  <2>3. /\ queue'[h].items = Tail(seq)
        /\ \A f \in Handlers : f # h => queue'[f].items = queue[f].items
    BY <1>3, <1>4 DEF IInv, Shape
  <2>4. Queued(u, h, 1)
    BY <1>1 DEF Queued, e
  <2>5. ASSUME NEW t \in Turn, NEW f \in Handlers, NEW i \in Nat, Queued(t, f, i)'
        PROVE  Queued(t, f, IF f = h THEN i + 1 ELSE i) /\ t # u
    <3>1. i \in 1 .. Len(queue'[f].items) /\ queue'[f].items[i].turn = t
      BY <2>5 DEF Queued
    <3>2. CASE f = h
      <4>1. Len(Tail(seq)) = Len(seq) - 1 /\ \A n \in 1 .. Len(Tail(seq)) : Tail(seq)[n] = seq[n + 1]
        BY <1>1
      <4>2. Queued(t, h, i + 1)
        <5>1. i \in 1 .. Len(Tail(seq)) /\ Tail(seq)[i].turn = t
          BY <2>3, <3>1, <3>2
        <5>2. Len(seq) \in Nat
          BY <1>1
        <5> HIDE DEF seq
        <5>3. i + 1 \in 1 .. Len(seq) /\ seq[i + 1].turn = t
          BY <4>1, <5>1, <5>2
        <5> QED
          BY <5>3 DEF Queued, seq
      <4>3. i \in Nat /\ i + 1 \in Nat /\ i + 1 # 1 /\ 1 \in Nat
        BY <3>1
      <4>4. t # u
        BY <2>1, <2>4, <4>2, <4>3 DEF OnePlace
      <4> QED
        BY <3>2, <4>2, <4>4
    <3>3. CASE f # h
      <4>1. Queued(t, f, i)
        BY <2>3, <3>1, <3>3 DEF Queued
      <4>2. t # u
        <5>1. Queued(t, f, i) /\ Queued(t, h, 1) => f = h
          BY DEF OnePlace
        <5> QED
          BY <2>4, <3>3, <4>1, <5>1
      <4> QED
        BY <3>3, <4>1, <4>2
    <3> QED
      BY <3>2, <3>3
  <2>6. /\ \A f \in Handlers : item[f] # u
        /\ u[2] <= turns[u[1]] /\ \A s \in Sessions : rows[s][u] = 0
    BY <2>1, <2>4 DEF OnePlace
  <2>7. ASSUME NEW t \in Turn, NEW f \in Handlers, NEW k \in Handlers, NEW i \in Nat, NEW j \in Nat
        PROVE  /\ Queued(t, f, i)' /\ Queued(t, k, j)' => f = k /\ i = j
               /\ item'[f] = t /\ item'[k] = t => f = k
               /\ Queued(t, f, i)' => item'[k] # t
               /\ Queued(t, f, i)' \/ item'[f] = t =>
                     t[2] <= turns[t[1]] /\ \A s \in Sessions : rows[s][t] = 0
    <3> DEFINE m == IF f = h THEN i + 1 ELSE i
               n == IF k = h THEN j + 1 ELSE j
    <3>1. m \in Nat /\ n \in Nat /\ (f = k /\ m = n => i = j)
      OBVIOUS
    <3>2. /\ Queued(t, f, i)' => Queued(t, f, m) /\ t # u
          /\ Queued(t, k, j)' => Queued(t, k, n) /\ t # u
      BY <2>5
    <3> HIDE DEF m, n
    <3>3. /\ Queued(t, f, m) /\ Queued(t, k, n) => f = k /\ m = n
          /\ item[f] = t /\ item[k] = t => f = k
          /\ Queued(t, f, m) => item[k] # t
          /\ Queued(t, f, m) \/ item[f] = t =>
                t[2] <= turns[t[1]] /\ \A s \in Sessions : rows[s][t] = 0
      BY <3>1 DEF OnePlace
    <3>4. (item'[f] = t => item[f] = t \/ (f = h /\ t = u)) /\ (item'[k] = t => item[k] = t \/ (k = h /\ t = u))
      BY <2>2
    <3> QED
      BY <2>6, <3>1, <3>2, <3>3, <3>4
  <2>8. OnePlace'
    BY <1>3, <2>7 DEF OnePlace
  <2> QED
    BY <1>3, <2>8 DEF RowsOnce
<1> QED
  BY <1>5, <1>6

\* The turn leaves the loop for its row, or for nothing if it is blank.
LEMMA MirrorPlaces ==
    ASSUME IInv, OnePlace, RowsOnce, NEW h \in Handlers, Mirror(h)
    PROVE  OnePlace' /\ RowsOnce'
<1> DEFINE u == item[h]
           q == Q!AskAgain(queue[h])
<1>1. /\ u \in Turn /\ session[h] \in Sessions /\ rows \in [Sessions -> [Turn -> Nat]]
      /\ item' = [item EXCEPT ![h] = <<>>] /\ turns' = turns
      /\ queue' = [queue EXCEPT ![h] = q]
      /\ rows' = rows \/ rows' = [rows EXCEPT ![session[h]][u] = @ + 1]
  BY DEF IInv, Shape, Mirror
<1>2. <<>> \notin Turn
  BY DEF Turn
<1>3. u[2] <= turns[u[1]] /\ \A s \in Sessions : rows[s][u] = 0
  BY <1>1 DEF OnePlace
<1>4. /\ \A s \in Sessions, t \in Turn : t # u => rows'[s][t] = rows[s][t]
      /\ \A s \in Sessions : rows'[s][u] \in {0, 1}
      /\ \A s \in Sessions : s # session[h] => rows'[s][u] = 0
  <2>1. CASE rows' = rows
    BY <1>3, <2>1
  <2>2. CASE rows' = [rows EXCEPT ![session[h]][u] = @ + 1]
    BY <1>1, <1>3, <2>2
  <2> QED
    BY <1>1, <2>1, <2>2
<1>5. queue[h] \in Q!Queue(Items) /\ q.items = queue[h].items
  BY ReaderKeeps DEF IInv, Shape
<1> HIDE DEF q
<1>6. \A f \in Handlers : queue'[f].items = queue[f].items
  BY <1>1, <1>5 DEF IInv, Shape
<1>7. item'[h] = <<>> /\ \A f \in Handlers : f # h => item'[f] = item[f]
  BY <1>1 DEF IInv, Shape
<1>8. ASSUME NEW t \in Turn, NEW f \in Handlers, NEW i \in Nat
      PROVE  /\ Queued(t, f, i)' <=> Queued(t, f, i)
             /\ item'[f] = t => item[f] = t /\ t # u
             /\ Queued(t, f, i) => t # u
  <2>1. Queued(t, f, i)' <=> Queued(t, f, i)
    BY <1>6 DEF Queued
  <2>2. item'[f] = t => item[f] = t /\ t # u
    BY <1>1, <1>2, <1>7 DEF OnePlace
  <2>3. Queued(t, f, i) => item[h] # t
    BY DEF OnePlace
  <2> QED
    BY <2>1, <2>2, <2>3
<1>9. RowsOnce'
  <2> SUFFICES ASSUME NEW s \in Sessions, NEW t \in Turn
               PROVE  rows'[s][t] <= 1 /\ (rows'[s][t] > 0 => t[2] <= turns[t[1]])
    BY <1>1 DEF RowsOnce
  <2>1. CASE t = u
    BY <1>3, <1>4, <2>1
  <2>2. CASE t # u
    BY <1>4, <2>2 DEF RowsOnce
  <2> QED
    BY <2>1, <2>2
<1>10. OnePlace'
  BY <1>1, <1>4, <1>8 DEF OnePlace
<1> QED
  BY <1>9, <1>10

\* Whatever the interleaving of the runs of a session, and whichever loop a
\* turn is given to, the turn is inserted into the messages at most once.
THEOREM StoredOnce == Spec => []MirroredAtMostOnce
<1>1. Init => OnePlace /\ RowsOnce
  BY DEF Init, OnePlace, RowsOnce, Queued, Q!NewQueue, Turn
<1>2. IInv /\ IInv' /\ OnePlace /\ RowsOnce /\ [Next]_vars => OnePlace' /\ RowsOnce'
  <2> SUFFICES ASSUME IInv, IInv', OnePlace, RowsOnce, [Next]_vars PROVE OnePlace' /\ RowsOnce'
    OBVIOUS
  <2>1. CASE UNCHANGED vars
    BY <2>1, SamePlaces DEF vars
  <2>2. ASSUME NEW h \in Handlers, NEW r, Becomes(h, r) PROVE OnePlace' /\ RowsOnce'
    BY <2>2, BecomesPlaces
  <2>3. ASSUME NEW h \in Handlers, Start(h) \/ BeginTask(h) \/ LoseContext(h) PROVE OnePlace' /\ RowsOnce'
    BY <2>3, SamePlaces DEF Start, BeginTask, LoseContext
  <2>4. ASSUME NEW h \in Handlers, Node(h) \/ FailTask(h) \/ EndTask(h) PROVE OnePlace' /\ RowsOnce'
    BY <2>2, <2>4 DEF Node, FailTask, EndTask
  <2>5. ASSUME NEW h \in Handlers, NEW q \in Q!Queue(Items), q.items = queue[h].items,
               queue' = [queue EXCEPT ![h] = q], turns' = turns, rows' = rows,
               item' = item \/ item' = [item EXCEPT ![h] = <<>>]
        PROVE  OnePlace' /\ RowsOnce'
    <3>1. \A f \in Handlers : item'[f] \in {item[f], <<>>}
      BY <2>5 DEF IInv, Shape
    <3> QED
      BY <2>5, <3>1, QueuePlaces
  <2>6. ASSUME NEW h \in Handlers, FinishRun(h) \/ Wait(h) \/ Stop(h) \/ MirrorFails(h)
        PROVE  OnePlace' /\ RowsOnce'
    <3>1. queue[h] \in Q!Queue(Items)
      BY DEF IInv, Shape
    <3>2. CASE FinishRun(h)
      <4> DEFINE q == IF run[h].node = "end" THEN Q!End(queue[h]) ELSE Q!Fail(queue[h])
      <4>1. q \in Q!Queue(Items) /\ q.items = queue[h].items
        BY <3>1, EndKeeps
      <4>2. queue' = [queue EXCEPT ![h] = q] /\ turns' = turns /\ rows' = rows /\ item' = item
        BY <3>2 DEF FinishRun
      <4> HIDE DEF q
      <4> QED
        BY <2>5, <4>1, <4>2
    <3>3. CASE Wait(h) \/ Stop(h) \/ MirrorFails(h)
      BY <2>5, <3>1, <3>3, ReaderKeeps DEF Wait, Stop, MirrorFails
    <3> QED
      BY <2>6, <3>2, <3>3
  <2>7. ASSUME NEW h \in Handlers, Background(h) PROVE OnePlace' /\ RowsOnce'
    BY <2>3, <2>4, <2>6, <2>7, HandOverPlaces DEF Background
  <2>8. ASSUME NEW h \in Handlers, Loop(h) PROVE OnePlace' /\ RowsOnce'
    BY <2>6, <2>8, TakePlaces, MirrorPlaces DEF Loop
  <2> QED
    BY <2>1, <2>3, <2>7, <2>8 DEF Next
<1>3. RowsOnce => MirroredAtMostOnce
  BY DEF RowsOnce, MirroredAtMostOnce
<1> QED
  BY <1>1, <1>2, <1>3, Invariant, PTL DEF Spec
-----------------------------------------------------------------------------
(***************************************************************************)
(* A message that has its session for itself loses no turn.                *)
(***************************************************************************)
Ended == {"returned", "threw"}

\* Only a run that is over closes its queue, only a closed queue ends a loop,
\* and only a loop that is busy has a turn.
QueueRuns(q, i, over) ==
    /\ q.done => over
    /\ q.reader \in Ended => q.done
    /\ i # <<>> => q.reader = "holding"

LoopsRun == \A h \in Handlers : QueueRuns(queue[h], item[h], h \in finished)

RunsStarted == \A h \in Handlers : run[h].node = "streaming" => h \in started \ finished

\* The i-th turn of h is blank, in its row, in the hands of h's loop or in
\* h's queue.
Placed(h, i) ==
    \/ <<h, i>> \in Blank
    \/ rows[session[h]][<<h, i>>] > 0
    \/ item[h] = <<h, i>>
    \/ \E n \in Nat : Queued(<<h, i>>, h, n)

\* Nobody else touches the hooks of h's session, so that what h's run hands
\* over comes to h's own queue; and nothing comes after the loop's end.
Undisturbed(h) ==
    /\ h \in started \ finished => hooks[session[h]] = h
    /\ run[h].node = "streaming" => held[h] = h
    /\ queue[h].reader \in Ended => queue[h].items = <<>>
    /\ queue[h].reader # "gone" => \A i \in 1 .. turns[h] : Placed(h, i)

AloneUndisturbed == \A h \in Handlers : Alone(h) => Undisturbed(h)

Complete == LoopsRun /\ RunsStarted /\ AloneUndisturbed

LEMMA WakeReader ==
    ASSUME NEW q \in Q!Queue(Items), NEW n \in Nat
    PROVE  /\ Q!Wake(q, n).done = q.done
           /\ \/ Q!Wake(q, n).reader = q.reader
              \/ q.reader = "parked" /\ Q!Wake(q, n).reader = "asking"
<1> DEFINE w == IF n < q.waiters THEN q.waiters - n ELSE 0
           r == IF q.waiters > 0 /\ n > 0 /\ q.reader = "parked"
                THEN "asking" ELSE q.reader
<1>1. r = q.reader \/ (q.reader = "parked" /\ r = "asking")
  OBVIOUS
<1>2. Q!Wake(q, n) = [q EXCEPT !.waiters = w, !.reader = r]
  BY DEF Q!Wake, Q!Queue
<1> HIDE DEF w, r
<1> QED
  BY <1>1, <1>2 DEF Q!Queue

\* A push and the end of a run wake the reader and move it nowhere else.
LEMMA PushReader ==
    ASSUME NEW q \in Q!Queue(Items), NEW e \in Items
    PROVE  /\ Q!Push(q, e).done = q.done
           /\ \/ Q!Push(q, e).reader = q.reader
              \/ q.reader = "parked" /\ Q!Push(q, e).reader = "asking"
<1> DEFINE longer == Append(q.items, e)
           p == [q EXCEPT !.items = longer]
<1>1. longer \in Seq(Items)
  BY QueueFields, AppendProperties
<1> HIDE DEF longer
<1>2. p \in Q!Queue(Items) /\ p.done = q.done /\ p.reader = q.reader
  BY <1>1 DEF Q!Queue
<1>3. Q!Push(q, e) = Q!Wake(p, 1)
  BY DEF Q!Push, longer
<1> HIDE DEF p
<1> QED
  BY <1>2, <1>3, WakeReader

LEMMA EndReader ==
    ASSUME NEW q \in Q!Queue(Items), NEW e \in {Q!End(q), Q!Fail(q)}
    PROVE  /\ e.done
           /\ e.reader = q.reader \/ (q.reader = "parked" /\ e.reader = "asking")
<1> DEFINE d == [q EXCEPT !.done = TRUE]
           f == [q EXCEPT !.err = TRUE, !.done = TRUE]
<1>1. /\ d \in Q!Queue(Items) /\ d.done /\ d.reader = q.reader
      /\ f \in Q!Queue(Items) /\ f.done /\ f.reader = q.reader
  BY DEF Q!Queue
<1>2. Q!End(q) = Q!Wake(d, q.waiters) /\ Q!Fail(q) = Q!Wake(f, q.waiters)
  BY DEF Q!End, Q!Fail
<1>3. q.waiters \in Nat
  BY QueueFields
<1> HIDE DEF d, f
<1> QED
  BY <1>1, <1>2, <1>3, WakeReader

LEMMA FinishReader ==
    ASSUME NEW q \in Q!Queue(Items)
    PROVE  /\ Q!Finish(q).reader \in Ended /\ Q!Finish(q).done = q.done
           /\ Q!Park(q).reader = "parked" /\ Q!Park(q).done = q.done
BY DEF Q!Finish, Q!Park, Q!Queue, Ended

\* Where run_task waits: only its own first step leads there.
Middle == {"streaming", "logging"}

LEMMA NodesLeave ==
    ASSUME NEW r \in AnyRun, NEW t, GoodRun(r, t)
    PROVE  /\ r.node = "hydrate" => Hydrate(r).node \notin Middle
           /\ r.node = "route" => RouteMessage(r, <<>>).node \notin Middle
           /\ r.node \in {"run_task", "streaming", "logging"} =>
                 /\ TaskRefused(r).node \notin Middle
                 /\ \A w : TaskFailed(r, w).node \notin Middle
                 /\ \A o \in Outcomes : TaskDone(r, o).node \notin Middle
           /\ r.node = "check_output" => CheckOutput(r).node \notin Middle
           /\ r.node = "await_review" => AwaitReview(r).node \notin Middle
           /\ r.node = "route_agent" => RouteAgent(r).node \notin Middle
           /\ r.node = "handle_error" => HandleError(r).node \notin Middle
<1>1. ASSUME ~Over(r), NEW n \in Nodes, n \notin Middle
      PROVE  Goto(r, n) \in AnyRun /\ Goto(r, n).node \notin Middle
  BY <1>1, GotoIsRun DEF GoodRun, StepsCover, Middle
<1>2. r.node \in {"hydrate", "route", "run_task", "streaming", "logging", "check_output",
                  "await_review", "route_agent", "handle_error"} => ~Over(r)
  BY DEF Over
<1>3. r.node = "hydrate" => Hydrate(r).node \notin Middle
  BY <1>1, <1>2 DEF Hydrate, Nodes, Middle
<1>4. r.node = "route" => RouteMessage(r, <<>>).node \notin Middle
  <2> DEFINE g == Goto(r, "run_task")
  <2> SUFFICES ASSUME r.node = "route" PROVE RouteMessage(r, <<>>).node \notin Middle
    OBVIOUS
  <2>1. g \in AnyRun /\ g.node \notin Middle
    BY <1>1, <1>2 DEF Nodes, Middle
  <2>2. RouteMessage(r, <<>>) = [g EXCEPT !.active = DefaultName, !.status = "running"]
    BY DEF RouteMessage, PlanMentions
  <2> HIDE DEF g
  <2> QED
    BY <2>1, <2>2 DEF AnyRun
<1>5. ASSUME r.node \in {"run_task", "streaming", "logging"}
      PROVE  /\ TaskRefused(r).node \notin Middle
             /\ \A w : TaskFailed(r, w).node \notin Middle
             /\ \A o \in Outcomes : TaskDone(r, o).node \notin Middle
  <2> DEFINE g == Goto(r, "check_output")
  <2>1. g \in AnyRun /\ g.node \notin Middle
    BY <1>1, <1>2, <1>5 DEF Nodes, Middle
  <2>2. /\ TaskRefused(r) = [g EXCEPT !.status = "failed", !.error = TRUE]
        /\ \A w : \E res :
              TaskFailed(r, w) = [g EXCEPT !.result = res, !.status = "failed",
                                           !.review = FALSE, !.error = TRUE]
        /\ \A o \in Outcomes : \E res :
              TaskDone(r, o) = [g EXCEPT !.result = res, !.status = "running",
                                         !.review = FALSE, !.error = FALSE]
    BY DEF TaskRefused, TaskFailed, TaskDone
  <2> HIDE DEF g
  <2>3. TaskRefused(r).node \notin Middle
    BY <2>1, <2>2 DEF AnyRun
  <2>4. \A res : [g EXCEPT !.result = res, !.status = "failed",
                           !.review = FALSE, !.error = TRUE].node = g.node
    BY <2>1 DEF AnyRun
  <2>5. \A res : [g EXCEPT !.result = res, !.status = "running",
                           !.review = FALSE, !.error = FALSE].node = g.node
    BY <2>1 DEF AnyRun
  <2>6. ASSUME NEW w PROVE TaskFailed(r, w).node \notin Middle
    <3>1. PICK res : TaskFailed(r, w) = [g EXCEPT !.result = res, !.status = "failed",
                                                  !.review = FALSE, !.error = TRUE]
      BY <2>2
    <3> QED
      BY <2>1, <2>4, <3>1, Zenon
  <2>7. \A o \in Outcomes : TaskDone(r, o).node \notin Middle
    BY <2>1, <2>2, <2>5
  <2> QED
    BY <2>3, <2>6, <2>7
<1>6. r.node = "check_output" => CheckOutput(r).node \notin Middle
  <2> SUFFICES ASSUME r.node = "check_output" PROVE CheckOutput(r).node \notin Middle
    OBVIOUS
  <2> DEFINE to == IF r.result.handoff = r.active THEN None ELSE r.result.handoff
             next == IF r.result.failed THEN "handle_error"
                     ELSE IF r.result.review THEN "await_review"
                     ELSE IF to # None THEN "route_agent"
                     ELSE "end"
             status == IF r.result.failed THEN "failed"
                       ELSE IF r.result.review THEN "awaiting_review"
                       ELSE IF to # None THEN "handoff"
                       ELSE "completed"
             g == Goto(r, next)
  <2>1. next \in {"handle_error", "await_review", "route_agent", "end"}
    OBVIOUS
  <2>2. CheckOutput(r) = [g EXCEPT !.handoff = to, !.status = status,
                                   !.review = r.result.review, !.error = r.result.failed]
    BY DEF CheckOutput
  <2> HIDE DEF to, next, status
  <2>3. g \in AnyRun /\ g.node \notin Middle
    BY <1>1, <1>2, <2>1 DEF Nodes, Middle
  <2> HIDE DEF g
  <2> QED
    BY <2>2, <2>3 DEF AnyRun
<1>7. r.node = "await_review" => AwaitReview(r).node \notin Middle
  BY <1>1, <1>2 DEF AwaitReview, Nodes, Middle
<1>8. r.node = "route_agent" => RouteAgent(r).node \notin Middle
  <2> DEFINE g == Goto(r, "run_task")
  <2> SUFFICES ASSUME r.node = "route_agent" PROVE RouteAgent(r).node \notin Middle
    OBVIOUS
  <2>1. g \in AnyRun /\ g.node \notin Middle
    BY <1>1, <1>2 DEF Nodes, Middle
  <2>2. RouteAgent(r) = [g EXCEPT !.active = r.handoff, !.handoff = None,
                                  !.result = NoResult, !.status = "running",
                                  !.review = FALSE, !.error = FALSE]
    BY DEF RouteAgent
  <2> HIDE DEF g
  <2> QED
    BY <2>1, <2>2 DEF AnyRun
<1>9. r.node = "handle_error" => HandleError(r).node \notin Middle
  <2> DEFINE g == Goto(r, "await_review")
  <2> SUFFICES ASSUME r.node = "handle_error" PROVE HandleError(r).node \notin Middle
    OBVIOUS
  <2>1. g \in AnyRun /\ g.node \notin Middle
    BY <1>1, <1>2 DEF Nodes, Middle
  <2>2. HandleError(r) = [g EXCEPT !.status = "awaiting_review"]
    BY DEF HandleError
  <2> HIDE DEF g
  <2> QED
    BY <2>1, <2>2 DEF AnyRun
<1> QED
  BY <1>3, <1>4, <1>5, <1>6, <1>7, <1>8, <1>9

LEMMA LeavesStreaming ==
    ASSUME IInv, NEW h \in Handlers, Node(h) \/ FailTask(h) \/ EndTask(h)
    PROVE  \E r : Becomes(h, r) /\ r.node \notin Middle
<1>1. GoodRun(run[h], turns[h]) /\ run[h] \in AnyRun
  BY DEF IInv, Shape, RunsGood
<1> QED
  BY <1>1, NodesLeave, OrchestrationAssumption DEF Node, FailTask, EndTask, Streaming

\* What the steps of h do to the queues: only h's own and, by HandOver, the
\* one whose hooks h holds.
LEMMA LoopsRunStep ==
    ASSUME IInv, LoopsRun, NEW g \in Handlers, NEW q,
           QueueRuns(q, item'[g], g \in finished'),
           queue' = [queue EXCEPT ![g] = q], finished \subseteq finished',
           \A f \in Handlers \ {g} : item'[f] = item[f]
    PROVE  LoopsRun'
<1> SUFFICES ASSUME NEW f \in Handlers
             PROVE  QueueRuns(queue'[f], item'[f], f \in finished')
  BY DEF LoopsRun, QueueRuns
<1>1. CASE f = g
  BY <1>1 DEF IInv, Shape
<1>2. CASE f # g
  BY <1>2 DEF IInv, Shape, LoopsRun, QueueRuns
<1> QED
  BY <1>1, <1>2

LEMMA PushRuns ==
    ASSUME IInv, LoopsRun, NEW g \in Handlers, NEW e \in Items,
           queue' = [queue EXCEPT ![g] = Q!Push(queue[g], e)],
           finished' = finished, item' = item
    PROVE  LoopsRun'
<1> DEFINE q == Q!Push(queue[g], e)
<1>1. queue[g] \in Q!Queue(Items) /\ QueueRuns(queue[g], item[g], g \in finished)
  BY DEF IInv, Shape, LoopsRun
<1>2. /\ q.done = queue[g].done
      /\ q.reader = queue[g].reader \/ (queue[g].reader = "parked" /\ q.reader = "asking")
  BY <1>1, PushReader
<1> HIDE DEF q
<1>3. QueueRuns(q, item'[g], g \in finished')
  BY <1>1, <1>2 DEF QueueRuns, Ended
<1> QED
  BY <1>3, LoopsRunStep DEF q

LEMMA SameLoops ==
    ASSUME LoopsRun, UNCHANGED <<queue, item, finished>>
    PROVE  LoopsRun'
BY DEF LoopsRun, QueueRuns

LEMMA BecomesRuns ==
    ASSUME IInv, IInv', LoopsRun, NEW h \in Handlers, NEW r, Becomes(h, r)
    PROVE  LoopsRun'
<1>1. finished' = finished /\ item' = item
  BY DEF Becomes
<1>2. r \in AnyRun
  <2>1. run' = [run EXCEPT ![h] = r] /\ run' \in [Handlers -> AnyRun]
    BY DEF Becomes, IInv, Shape
  <2> QED
    BY <2>1 DEF IInv, Shape
<1>3. CASE StateToEvent(r) = <<>>
  BY <1>1, <1>3, SameLoops DEF Becomes
<1>4. CASE StateToEvent(r) # <<>>
  <2> DEFINE e == Forwarded(h, Head(StateToEvent(r)))
  <2>1. e \in Items /\ queue' = [queue EXCEPT ![h] = Q!Push(queue[h], e)]
    BY <1>2, <1>4, EventsForward DEF Becomes
  <2> HIDE DEF e
  <2> QED
    BY <1>1, <2>1, PushRuns
<1> QED
  BY <1>3, <1>4

\* What is handed over is a turn.
LEMMA TurnHandedOver ==
    ASSUME IInv, NEW h \in Handlers, HandOver(h)
    PROVE  <<h, turns[h] + 1>> \in Turn /\ TurnEnd(<<h, turns[h] + 1>>) \in Items
<1> DEFINE n == turns[h] + 1
           r == [run[h] EXCEPT !.node = "logging"]
<1>1. turns[h] \in Nat
  BY DEF IInv, Shape
<1>2. GoodRun(r, n)
  BY <1>1, HandOverGood DEF IInv, RunsGood, HandOver, Streaming
<1>3. n \in 1 .. MaxTurns
  BY <1>1, <1>2, GraphAssumption DEF GoodRun, StepsCover, MaxTurns
<1> HIDE DEF n
<1>4. <<h, n>> \in Turn
  BY <1>3 DEF Turn
<1>5. TurnEnd(<<h, n>>) \in Items
  BY <1>4 DEF TurnEnd, Items
<1> QED
  BY <1>4, <1>5 DEF n

LEMMA BackgroundRuns ==
    ASSUME IInv, IInv', LoopsRun, NEW h \in Handlers, Background(h)
    PROVE  LoopsRun'
<1>1. ASSUME NEW r, Becomes(h, r) PROVE LoopsRun'
  BY <1>1, BecomesRuns
<1>2. CASE Node(h) \/ FailTask(h) \/ EndTask(h)
  BY <1>1, <1>2 DEF Node, FailTask, EndTask
<1>3. CASE BeginTask(h) \/ LoseContext(h)
  BY <1>3, SameLoops DEF BeginTask, LoseContext
<1>4. CASE HandOver(h)
  <2>1. finished' = finished /\ item' = item
    BY <1>4 DEF HandOver
  <2>2. CASE held[h] = NoHandler
    BY <1>4, <2>1, <2>2, SameLoops DEF HandOver
  <2>3. CASE held[h] # NoHandler
    <3> DEFINE e == TurnEnd(<<h, turns[h] + 1>>)
    <3>1. e \in Items
      BY <1>4, TurnHandedOver
    <3>2. held[h] \in Handlers
      BY <2>3 DEF IInv, Shape
    <3>3. queue' = [queue EXCEPT ![held[h]] = Q!Push(queue[held[h]], e)]
      BY <1>4, <2>3 DEF HandOver
    <3> HIDE DEF e
    <3> QED
      BY <2>1, <3>1, <3>2, <3>3, PushRuns
  <2> QED
    BY <2>2, <2>3
<1>5. CASE FinishRun(h)
  <2> DEFINE q == IF run[h].node = "end" THEN Q!End(queue[h]) ELSE Q!Fail(queue[h])
  <2>1. /\ finished' = finished \union {h} /\ item' = item
        /\ queue' = [queue EXCEPT ![h] = q]
    BY <1>5 DEF FinishRun
  <2>2. queue[h] \in Q!Queue(Items) /\ QueueRuns(queue[h], item[h], h \in finished)
    BY DEF IInv, Shape, LoopsRun
  <2>3. /\ q.done
        /\ q.reader = queue[h].reader \/ (queue[h].reader = "parked" /\ q.reader = "asking")
    BY <2>2, EndReader
  <2> HIDE DEF q
  <2>4. QueueRuns(q, item'[h], h \in finished')
    BY <2>1, <2>2, <2>3 DEF QueueRuns
  <2> QED
    BY <2>1, <2>4, LoopsRunStep
<1> QED
  BY <1>2, <1>3, <1>4, <1>5 DEF Background

LEMMA LoopRuns ==
    ASSUME IInv, LoopsRun, NEW h \in Handlers, Loop(h)
    PROVE  LoopsRun'
<1>1. /\ queue[h] \in Q!Queue(Items) /\ item[h] \in Turn \union {<<>>}
      /\ QueueRuns(queue[h], item[h], h \in finished)
  BY DEF IInv, Shape, LoopsRun
<1>2. finished' = finished /\ \A f \in Handlers \ {h} : item'[f] = item[f]
  BY DEF IInv, Shape, Loop, Take, Wait, Stop, Mirror, MirrorFails
<1>3. ASSUME NEW q, q.done = queue[h].done, q.reader \in Ended => q.done,
             item'[h] # <<>> => q.reader = "holding",
             queue' = [queue EXCEPT ![h] = q]
      PROVE  LoopsRun'
  <2>1. QueueRuns(q, item'[h], h \in finished')
    BY <1>1, <1>2, <1>3 DEF QueueRuns
  <2> QED
    BY <1>2, <1>3, <2>1, LoopsRunStep
<1>4. CASE Take(h)
  <2> DEFINE y == Q!Yield(queue[h])
             q == IF Head(queue[h].items).type = "agent_stream_end"
                  THEN y ELSE Q!AskAgain(y)
  <2>1. queue' = [queue EXCEPT ![h] = q]
    BY <1>4 DEF Take
  <2>2. y \in Q!Queue(Items) /\ y.reader = "holding" /\ y.done = queue[h].done
    BY <1>1, <1>4, YieldKeeps, ReaderWakes DEF Take, Q!Yields
  <2>3. Q!AskAgain(y).reader = "asking" /\ Q!AskAgain(y).done = queue[h].done
    BY <2>2, ReaderWakes
  <2>4. item[h] = <<>>
    BY <1>1, <1>4 DEF Take, Q!Yields, QueueRuns
  <2>5. item'[h] # <<>> => q = y
    BY <1>4, <2>4 DEF Take
  <2> HIDE DEF y
  <2>6. q.done = queue[h].done /\ q.reader \notin Ended /\ (item'[h] # <<>> => q.reader = "holding")
    BY <2>2, <2>3, <2>5 DEF Ended
  <2> HIDE DEF q
  <2> QED
    BY <1>3, <2>1, <2>6
<1>5. CASE Wait(h)
  <2>1. item[h] = <<>> /\ item' = item
    BY <1>1, <1>5 DEF Wait, Q!Parks, QueueRuns
  <2>2. Q!Park(queue[h]).done = queue[h].done /\ Q!Park(queue[h]).reader = "parked"
    BY <1>1, FinishReader
  <2> QED
    BY <1>3, <1>5, <2>1, <2>2 DEF Wait, Ended
<1>6. CASE Stop(h)
  <2>1. item[h] = <<>> /\ item' = item /\ queue[h].done
    BY <1>1, <1>6 DEF Stop, Q!Finishes, QueueRuns
  <2>2. Q!Finish(queue[h]).done = queue[h].done
    BY <1>1, FinishReader
  <2> QED
    BY <1>3, <1>6, <2>1, <2>2 DEF Stop
<1>7. CASE Mirror(h) \/ MirrorFails(h)
  <2>1. item'[h] = <<>>
    BY <1>7 DEF Mirror, MirrorFails, IInv, Shape
  <2>2. /\ Q!AskAgain(queue[h]).done = queue[h].done /\ Q!AskAgain(queue[h]).reader = "asking"
        /\ Q!Abandon(queue[h]).done = queue[h].done /\ Q!Abandon(queue[h]).reader = "gone"
    BY <1>1, ReaderWakes
  <2> QED
    BY <1>3, <1>7, <2>1, <2>2 DEF Mirror, MirrorFails, Ended
<1> QED
  BY <1>4, <1>5, <1>6, <1>7 DEF Loop

LEMMA RunsStartedStep ==
    ASSUME IInv, RunsStarted, NEW h \in Handlers, Start(h) \/ Background(h) \/ Loop(h)
    PROVE  RunsStarted'
<1>1. CASE Start(h) \/ Loop(h)
  BY <1>1 DEF RunsStarted, Start, Loop, Take, Wait, Stop, Mirror, MirrorFails
<1>2. CASE Node(h) \/ FailTask(h) \/ EndTask(h)
  <2>1. PICK r : Becomes(h, r) /\ r.node # "streaming"
    BY <1>2, LeavesStreaming DEF Middle
  <2> QED
    BY <2>1 DEF IInv, Shape, RunsStarted, Becomes
<1>3. CASE BeginTask(h)
  BY <1>3 DEF IInv, Shape, RunsStarted, BeginTask
<1>4. CASE LoseContext(h)
  <2>1. ContextFailed(run[h]).node = "error"
    BY DEF IInv, Shape, ContextFailed, AnyRun
  <2> QED
    BY <1>4, <2>1 DEF IInv, Shape, RunsStarted, LoseContext
<1>5. CASE HandOver(h)
  <2>1. [run[h] EXCEPT !.node = "logging"].node = "logging"
    BY DEF IInv, Shape, AnyRun
  <2> QED
    BY <1>5, <2>1 DEF IInv, Shape, RunsStarted, HandOver
<1>6. CASE FinishRun(h)
  BY <1>6 DEF IInv, Shape, RunsStarted, FinishRun, Over
<1> QED
  BY <1>1, <1>2, <1>3, <1>4, <1>5, <1>6 DEF Background

\* A step of h leaves the messages of other sessions alone.
LEMMA OtherSessions ==
    ASSUME IInv, NEW h \in Handlers, Start(h) \/ Background(h) \/ Loop(h),
           NEW f \in Handlers, session[f] # session[h]
    PROVE  /\ queue'[f] = queue[f] /\ item'[f] = item[f] /\ run'[f] = run[f]
           /\ held'[f] = held[f] /\ turns'[f] = turns[f]
           /\ hooks'[session[f]] = hooks[session[f]]
           /\ rows'[session[f]] = rows[session[f]]
           /\ f \in started' <=> f \in started
           /\ f \in finished' <=> f \in finished
<1>0. /\ f # h /\ session \in [Handlers -> Sessions]
      /\ held \in [Handlers -> Handlers \union {NoHandler}]
      /\ hooks \in [Sessions -> Handlers \union {NoHandler}]
      /\ rows \in [Sessions -> [Turn -> Nat]] /\ turns \in [Handlers -> Nat]
      /\ DOMAIN queue = Handlers /\ DOMAIN run = Handlers /\ DOMAIN item = Handlers
  BY DEF IInv, Shape
<1>1. CASE Start(h)
  BY <1>0, <1>1 DEF Start
<1>2. ASSUME NEW r, Becomes(h, r), held' = held \/ held' = [held EXCEPT ![h] = NoHandler]
      PROVE  /\ queue'[f] = queue[f] /\ run'[f] = run[f] /\ held'[f] = held[f]
             /\ UNCHANGED <<session, started, finished, item, hooks, turns, rows>>
  BY <1>0, <1>2 DEF Becomes
<1>3. CASE Node(h) \/ FailTask(h) \/ EndTask(h)
  <2>1. \E r : Becomes(h, r) /\ (held' = held \/ held' = [held EXCEPT ![h] = NoHandler])
    BY <1>3 DEF Node, FailTask, EndTask
  <2> QED
    BY <1>2, <2>1
<1>4. CASE BeginTask(h) \/ LoseContext(h)
  BY <1>0, <1>4 DEF BeginTask, LoseContext
<1>5. CASE HandOver(h)
  <2>1. /\ run'[f] = run[f] /\ held'[f] = held[f] /\ turns'[f] = turns[f]
        /\ UNCHANGED <<session, started, finished, item, hooks, rows>>
    BY <1>0, <1>5 DEF HandOver
  <2>2. queue'[f] = queue[f]
    <3>1. held[h] # NoHandler => session[held[h]] = session[h]
      BY DEF IInv, LoopsSound
    <3>2. held[h] # f
      BY <3>1, OrchestrationAssumption
    <3> QED
      BY <1>0, <1>5, <3>2 DEF HandOver
  <2> QED
    BY <2>1, <2>2
<1>6. CASE FinishRun(h)
  BY <1>0, <1>6 DEF FinishRun
<1>7. CASE Loop(h)
  <2>1. /\ queue'[f] = queue[f] /\ item'[f] = item[f]
        /\ UNCHANGED <<session, started, finished, run, hooks, held, turns>>
    BY <1>0, <1>7 DEF Loop, Take, Wait, Stop, Mirror, MirrorFails
  <2>2. rows'[session[f]] = rows[session[f]]
    BY <1>0, <1>7 DEF Loop, Take, Wait, Stop, Mirror, MirrorFails
  <2> QED
    BY <2>1, <2>2
<1> QED
  BY <1>1, <1>3, <1>4, <1>5, <1>6, <1>7 DEF Background

\* A turn keeps its place when nothing but the end of its queue changes.
LEMMA PlacedStays ==
    ASSUME IInv, NEW h \in Handlers, NEW i, Placed(h, i),
           \/ queue'[h].items = queue[h].items
           \/ \E e \in Items : queue'[h].items = Append(queue[h].items, e),
           session' = session, rows' = rows, item'[h] = item[h]
    PROVE  Placed(h, i)'
<1>1. queue[h].items \in Seq(Items)
  BY QueueFields DEF IInv, Shape
<1>2. ASSUME NEW n \in Nat, Queued(<<h, i>>, h, n) PROVE Queued(<<h, i>>, h, n)'
  <2>1. CASE queue'[h].items = queue[h].items
    BY <1>2, <2>1 DEF Queued
  <2>2. ASSUME NEW e \in Items, queue'[h].items = Append(queue[h].items, e)
        PROVE  Queued(<<h, i>>, h, n)'
    <3> DEFINE s == queue[h].items
    <3>1. Len(Append(s, e)) = Len(s) + 1 /\ Len(s) \in Nat
          /\ \A j \in 1 .. Len(s) : Append(s, e)[j] = s[j]
      BY <1>1, AppendProperties, LenProperties
    <3>2. n \in 1 .. Len(s) /\ s[n].turn = <<h, i>>
      BY <1>2 DEF Queued
    <3>3. n \in 1 .. Len(Append(s, e)) /\ Append(s, e)[n].turn = <<h, i>>
      BY <3>1, <3>2
    <3> QED
      BY <2>2, <3>3 DEF Queued
  <2> QED
    BY <2>1, <2>2
<1> QED
  BY <1>2 DEF Placed

\* A step of h that gives it no turn and ends no loop.
LEMMA UndisturbedStep ==
    ASSUME IInv, NEW h \in Handlers, Undisturbed(h),
           session' = session, rows' = rows, item'[h] = item[h], turns'[h] = turns[h],
           \/ queue'[h].items = queue[h].items
           \/ \E e \in Items : queue'[h].items = Append(queue[h].items, e),
           queue'[h].reader = "gone" \/ queue[h].reader # "gone",
           queue'[h].reader \in Ended => queue'[h].items = <<>>,
           h \in started' \ finished' => hooks'[session[h]] = h,
           run'[h].node = "streaming" => held'[h] = h
    PROVE  Undisturbed(h)'
<1>1. ASSUME NEW i \in 1 .. turns[h], queue'[h].reader # "gone" PROVE Placed(h, i)'
  <2>1. Placed(h, i)
    BY <1>1 DEF Undisturbed
  <2> QED
    BY <2>1, PlacedStays
<1> QED
  BY <1>1 DEF Undisturbed

LEMMA BecomesUndisturbed ==
    ASSUME IInv, IInv', LoopsRun', NEW h \in Handlers, Undisturbed(h), NEW r, Becomes(h, r),
           r.node # "streaming"
    PROVE  Undisturbed(h)'
<1>1. /\ h \in started \ finished /\ run'[h] = r
      /\ UNCHANGED <<session, started, finished, item, hooks, turns, rows>>
  BY DEF Becomes, IInv, Shape
<1>2. queue'[h].reader \notin Ended
  BY <1>1 DEF LoopsRun, QueueRuns
<1>3. r \in AnyRun
  BY <1>1 DEF IInv, Shape
<1>4. /\ \/ queue'[h].items = queue[h].items
         \/ \E e \in Items : queue'[h].items = Append(queue[h].items, e)
      /\ queue'[h].reader = "gone" \/ queue[h].reader # "gone"
  <2>1. CASE StateToEvent(r) = <<>>
    BY <2>1 DEF Becomes
  <2>2. CASE StateToEvent(r) # <<>>
    <3> DEFINE e == Forwarded(h, Head(StateToEvent(r)))
               q == Q!Push(queue[h], e)
    <3>1. e \in Items /\ queue' = [queue EXCEPT ![h] = q]
      BY <1>3, <2>2, EventsForward DEF Becomes
    <3> HIDE DEF e
    <3>2. /\ q.items = Append(queue[h].items, e)
          /\ q.reader = queue[h].reader \/ (queue[h].reader = "parked" /\ q.reader = "asking")
      BY <3>1, PushKeeps, PushReader DEF IInv, Shape
    <3>3. queue'[h] = q
      BY <3>1 DEF IInv, Shape
    <3> HIDE DEF q
    <3> QED
      BY <3>1, <3>2, <3>3
  <2> QED
    BY <2>1, <2>2
<1>5. hooks'[session[h]] = h
  BY <1>1 DEF Undisturbed
<1> QED
  BY <1>1, <1>2, <1>4, <1>5, UndisturbedStep

\* The turn comes to h's own queue.
LEMMA HandOverUndisturbed ==
    ASSUME IInv, LoopsRun', NEW h \in Handlers, Undisturbed(h), HandOver(h)
    PROVE  Undisturbed(h)'
<1> DEFINE n == turns[h] + 1
           e == TurnEnd(<<h, n>>)
           q == Q!Push(queue[h], e)
           s == queue[h].items
<1>1. held[h] = h /\ held[h] # NoHandler /\ h \in started \ finished
  BY OrchestrationAssumption DEF Undisturbed, HandOver, Streaming
<1>2. /\ queue' = [queue EXCEPT ![h] = q]
      /\ UNCHANGED <<session, started, finished, item, hooks, rows>>
  BY <1>1 DEF HandOver
<1>3. turns'[h] = n /\ turns[h] \in Nat
  BY DEF HandOver, IInv, Shape
<1>4. run'[h].node = "logging"
  BY DEF HandOver, IInv, Shape, AnyRun
<1>5. e \in Items /\ e.turn = <<h, n>>
  BY TurnHandedOver DEF TurnEnd
<1> HIDE DEF e
<1>6. /\ q.items = Append(s, e)
      /\ q.reader = queue[h].reader \/ (queue[h].reader = "parked" /\ q.reader = "asking")
  BY <1>5, PushKeeps, PushReader DEF IInv, Shape
<1>7. queue'[h] = q
  BY <1>2 DEF IInv, Shape
<1>8. queue'[h].reader \notin Ended
  BY <1>1, <1>2 DEF LoopsRun, QueueRuns
<1> HIDE DEF q
<1>9. ASSUME NEW i, i = n PROVE Placed(h, i)'
  <2>1. s \in Seq(Items)
    BY QueueFields DEF IInv, Shape
  <2>2. /\ Len(Append(s, e)) = Len(s) + 1 /\ Len(s) \in Nat
        /\ Append(s, e)[Len(s) + 1] = e
    BY <1>5, <2>1, AppendProperties, LenProperties
  <2>3. \E k \in Nat : /\ k \in 1 .. Len(queue'[h].items)
                       /\ queue'[h].items[k].turn = <<h, n>>
    BY <1>5, <1>6, <1>7, <2>2
  <2>4. \E k \in Nat : Queued(<<h, i>>, h, k)'
    BY <1>9, <2>3 DEF Queued
  <2> QED
    BY <2>4 DEF Placed
<1>10. ASSUME NEW i \in 1 .. turns[h], queue'[h].reader # "gone" PROVE Placed(h, i)'
  <2>1. Placed(h, i)
    BY <1>6, <1>7, <1>10 DEF Undisturbed
  <2>2. \E x \in Items : queue'[h].items = Append(queue[h].items, x)
    BY <1>5, <1>6, <1>7
  <2> QED
    BY <1>2, <2>1, <2>2, PlacedStays
<1>11. ASSUME NEW i \in 1 .. turns'[h], queue'[h].reader # "gone" PROVE Placed(h, i)'
  <2>1. CASE i = n
    BY <1>9, <2>1
  <2>2. CASE i # n
    <3>1. i \in 1 .. turns[h]
      BY <1>3, <2>2
    <3> QED
      BY <1>10, <1>11, <3>1
  <2> QED
    BY <2>1, <2>2
<1>12. hooks'[session'[h]] = h
  BY <1>1, <1>2 DEF Undisturbed
<1> QED
  BY <1>4, <1>8, <1>11, <1>12 DEF Undisturbed

\* The head of the queue is the loop's.
LEMMA TakeUndisturbed ==
    ASSUME IInv, LoopsRun, NEW h \in Handlers, Undisturbed(h), Take(h)
    PROVE  Undisturbed(h)'
<1> DEFINE s == queue[h].items
           e == Head(s)
           y == Q!Yield(queue[h])
           q == IF e.type = "agent_stream_end" THEN y ELSE Q!AskAgain(y)
<1>1. /\ queue[h] \in Q!Queue(Items) /\ s # <<>> /\ s \in Seq(Items)
      /\ queue[h].reader = "asking" /\ item[h] = <<>>
  BY QueueFields DEF IInv, Shape, Take, Q!Yields, LoopsRun, QueueRuns
<1>2. y \in Q!Queue(Items) /\ y.items = Tail(s) /\ e \in Items
  BY <1>1, YieldKeeps
<1>3. /\ queue' = [queue EXCEPT ![h] = q]
      /\ UNCHANGED <<session, started, finished, run, hooks, held, turns, rows>>
  BY DEF Take
<1>4. q.items = Tail(s) /\ q.reader \in {"holding", "asking"}
  BY <1>1, <1>2, ReaderKeeps, ReaderWakes
<1>5. queue'[h] = q
  BY <1>3 DEF IInv, Shape
<1>6. e.type = "agent_stream_end" => item'[h] = e.turn
  BY DEF Take, IInv, Shape
<1>7. e.turn # <<>> => e.type = "agent_stream_end"
  BY <1>2 DEF Items
<1>8. s[1] = e
  BY <1>1
<1> HIDE DEF q, e
<1>9. ASSUME NEW i \in 1 .. turns[h] PROVE Placed(h, i)'
  <2>1. Placed(h, i)
    BY <1>1, <1>9 DEF Undisturbed
  <2>2. item[h] # <<h, i>>
    BY <1>1
  <2>3. CASE <<h, i>> \in Blank \/ rows[session[h]][<<h, i>>] > 0
    BY <1>3, <2>3 DEF Placed
  <2>4. ASSUME NEW n \in Nat, Queued(<<h, i>>, h, n) PROVE Placed(h, i)'
    <3>1. n \in 1 .. Len(s) /\ s[n].turn = <<h, i>>
      BY <2>4 DEF Queued
    <3>2. CASE n = 1
      <4>1. e.turn = <<h, i>>
        BY <1>8, <3>1, <3>2
      <4>2. <<h, i>> # <<>>
        OBVIOUS
      <4> QED
        BY <1>6, <1>7, <4>1, <4>2 DEF Placed
    <3>3. CASE n # 1
      <4>1. /\ Len(Tail(s)) = Len(s) - 1 /\ Len(s) \in Nat
            /\ \A j \in 1 .. Len(Tail(s)) : Tail(s)[j] = s[j + 1]
        BY <1>1, HeadTailProperties, LenProperties
      <4> HIDE DEF s
      <4>2. n - 1 \in Nat /\ n - 1 \in 1 .. Len(Tail(s)) /\ (n - 1) + 1 = n
        BY <3>1, <3>3, <4>1
      <4>3. Tail(s)[n - 1].turn = <<h, i>>
        BY <3>1, <4>1, <4>2
      <4>4. Queued(<<h, i>>, h, n - 1)'
        BY <1>4, <1>5, <4>2, <4>3 DEF Queued
      <4> QED
        BY <4>2, <4>4 DEF Placed
    <3> QED
      BY <3>2, <3>3
  <2> QED
    BY <2>1, <2>2, <2>3, <2>4 DEF Placed
<1>10. /\ h \in started' \ finished' => hooks'[session'[h]] = h
       /\ run'[h].node = "streaming" => held'[h] = h
  BY <1>3 DEF Undisturbed
<1> QED
  BY <1>3, <1>4, <1>5, <1>9, <1>10 DEF Undisturbed, Ended

LEMMA MirrorUndisturbed ==
    ASSUME IInv, LoopsRun, NEW h \in Handlers, Undisturbed(h), Mirror(h)
    PROVE  Undisturbed(h)'
<1>1. /\ queue[h] \in Q!Queue(Items) /\ queue[h].reader = "holding"
      /\ item[h] \in Turn /\ session[h] \in Sessions /\ rows \in [Sessions -> [Turn -> Nat]]
  BY DEF IInv, Shape, Mirror, LoopsRun, QueueRuns
<1>2. /\ queue'[h] = Q!AskAgain(queue[h])
      /\ UNCHANGED <<session, started, finished, run, hooks, held, turns>>
  <2>1. /\ queue' = [queue EXCEPT ![h] = Q!AskAgain(queue[h])]
        /\ UNCHANGED <<session, started, finished, run, hooks, held, turns>>
    BY DEF Mirror
  <2> QED
    BY <2>1 DEF IInv, Shape
<1>3. queue'[h].items = queue[h].items /\ queue'[h].reader = "asking"
  <2>1. Q!AskAgain(queue[h]).items = queue[h].items
    BY <1>1, ReaderKeeps
  <2>2. Q!AskAgain(queue[h]).reader = "asking"
    BY <1>1, ReaderWakes
  <2> QED
    BY <1>2, <2>1, <2>2
<1>4. IF item[h] \in Blank THEN rows' = rows
      ELSE rows' = [rows EXCEPT ![session[h]] = [rows[session[h]] EXCEPT ![item[h]] = @ + 1]]
  BY DEF Mirror
<1>5. /\ item[h] \in Blank \/ rows'[session[h]][item[h]] > 0
      /\ \A t \in Turn : t # item[h] => rows'[session[h]][t] = rows[session[h]][t]
  BY <1>1, <1>4
<1>6. ASSUME NEW i \in 1 .. turns[h] PROVE Placed(h, i)'
  <2>1. Placed(h, i)
    BY <1>1, <1>6 DEF Undisturbed
  <2>2. <<h, i>> \in Turn
    <3>1. turns[h] \in 0 .. MaxTurns /\ MaxTurns \in Nat /\ turns[h] \in Nat
      BY GraphAssumption DEF IInv, Shape, RunsGood, GoodRun, StepsCover, MaxTurns
    <3> QED
      BY <3>1 DEF Turn
  <2>3. CASE <<h, i>> \in Blank
    BY <2>3 DEF Placed
  <2>4. CASE item[h] = <<h, i>> \/ rows[session[h]][<<h, i>>] > 0
    BY <1>2, <1>5, <2>2, <2>4 DEF Placed
  <2>5. ASSUME NEW n \in Nat, Queued(<<h, i>>, h, n) PROVE Placed(h, i)'
    <3>1. Queued(<<h, i>>, h, n)'
      BY <1>3, <2>5 DEF Queued
    <3> QED
      BY <3>1 DEF Placed
  <2> QED
    BY <2>1, <2>3, <2>4, <2>5 DEF Placed
<1>7. /\ h \in started' \ finished' => hooks'[session'[h]] = h
      /\ run'[h].node = "streaming" => held'[h] = h
  BY <1>2 DEF Undisturbed
<1> QED
  BY <1>2, <1>3, <1>6, <1>7 DEF Undisturbed, Ended

LEMMA AloneStep ==
    ASSUME IInv, IInv', LoopsRun, LoopsRun', RunsStarted, NEW h \in Handlers, Undisturbed(h),
           Start(h) \/ Background(h) \/ Loop(h)
    PROVE  Undisturbed(h)'
<1>0. /\ queue[h] \in Q!Queue(Items) /\ QueueRuns(queue[h], item[h], h \in finished)
      /\ QueueRuns(queue'[h], item'[h], h \in finished')
  BY DEF IInv, Shape, LoopsRun
<1>1. CASE Start(h)
  <2>1. /\ hooks'[session[h]] = h /\ run[h].node # "streaming"
        /\ UNCHANGED <<session, run, queue, item, held, turns, rows>>
    BY <1>1 DEF IInv, Shape, RunsStarted, Start
  <2>2. queue'[h].reader \in Ended => queue'[h].items = <<>>
    BY <2>1 DEF Undisturbed
  <2> QED
    BY <2>1, <2>2, UndisturbedStep
<1>2. CASE Node(h) \/ FailTask(h) \/ EndTask(h)
  BY <1>2, LeavesStreaming, BecomesUndisturbed DEF Middle
<1>3. CASE BeginTask(h) \/ LoseContext(h)
  <2>1. /\ h \in started \ finished
        /\ UNCHANGED <<session, started, finished, queue, item, hooks, turns, rows>>
    BY <1>3 DEF BeginTask, LoseContext, Streaming
  <2>2. hooks[session[h]] = h /\ (queue[h].reader \in Ended => queue[h].items = <<>>)
    BY <2>1 DEF Undisturbed
  <2>3. run'[h].node = "streaming" => held'[h] = h
    <3>1. CASE BeginTask(h)
      BY <2>2, <3>1 DEF BeginTask, IInv, Shape
    <3>2. CASE LoseContext(h)
      <4>1. ContextFailed(run[h]).node = "error"
        BY DEF IInv, Shape, ContextFailed, AnyRun
      <4> QED
        BY <3>2, <4>1 DEF LoseContext, IInv, Shape
    <3> QED
      BY <1>3, <3>1, <3>2
  <2> QED
    BY <2>1, <2>2, <2>3, UndisturbedStep
<1>4. CASE HandOver(h)
  BY <1>4, HandOverUndisturbed
<1>5. CASE FinishRun(h)
  <2> DEFINE q == IF run[h].node = "end" THEN Q!End(queue[h]) ELSE Q!Fail(queue[h])
  <2>1. /\ h \in finished' /\ run'[h].node # "streaming" /\ queue'[h] = q
        /\ UNCHANGED <<session, item, turns, rows>>
    BY <1>5 DEF FinishRun, IInv, Shape, Over
  <2>2. /\ q.items = queue[h].items
        /\ q.reader = queue[h].reader \/ (queue[h].reader = "parked" /\ q.reader = "asking")
    BY <1>0, EndKeeps, EndReader
  <2> HIDE DEF q
  <2>3. q.reader \in Ended => q.items = <<>>
    BY <2>2 DEF Undisturbed, Ended
  <2> QED
    BY <2>1, <2>2, <2>3, UndisturbedStep
<1>6. CASE Take(h)
  BY <1>6, TakeUndisturbed
<1>7. CASE Mirror(h)
  BY <1>7, MirrorUndisturbed
<1>8. CASE Wait(h) \/ Stop(h)
  <2>1. /\ queue[h].reader = "asking" /\ queue[h].items = <<>>
        /\ queue'[h] \in {Q!Park(queue[h]), Q!Finish(queue[h])}
        /\ UNCHANGED <<session, started, finished, run, item, hooks, held, turns, rows>>
    BY <1>8 DEF Wait, Stop, Q!Parks, Q!Finishes, IInv, Shape
  <2>2. queue'[h].items = queue[h].items
    BY <1>0, <2>1, ReaderKeeps
  <2>3. /\ h \in started' \ finished' => hooks'[session[h]] = h
        /\ run'[h].node = "streaming" => held'[h] = h
    BY <2>1 DEF Undisturbed
  <2> QED
    BY <2>1, <2>2, <2>3, UndisturbedStep
<1>9. CASE MirrorFails(h)
  <2>1. /\ queue'[h] = Q!Abandon(queue[h])
        /\ UNCHANGED <<session, started, finished, run, hooks, held, turns>>
    BY <1>9 DEF MirrorFails, IInv, Shape
  <2>2. queue'[h].reader = "gone"
    BY <1>0, <2>1, ReaderWakes
  <2> QED
    BY <2>1, <2>2 DEF Undisturbed, Ended
<1> QED
  BY <1>1, <1>2, <1>3, <1>4, <1>5, <1>6, <1>7, <1>8, <1>9 DEF Background, Loop

LEMMA CompleteStep ==
    ASSUME IInv, IInv', Complete, [Next]_vars
    PROVE  Complete'
<1>1. CASE UNCHANGED vars
  <2>1. LoopsRun' /\ RunsStarted'
    BY <1>1, SameLoops DEF vars, Complete, RunsStarted
  <2>2. \A h : (Alone(h)' <=> Alone(h)) /\ (Undisturbed(h) => Undisturbed(h)')
    BY <1>1 DEF vars, Alone, Undisturbed, Placed, Queued
  <2> QED
    BY <2>1, <2>2 DEF Complete, AloneUndisturbed
<1>2. ASSUME NEW h \in Handlers, Start(h) \/ Background(h) \/ Loop(h) PROVE Complete'
  <2>1. LoopsRun /\ RunsStarted /\ AloneUndisturbed
    BY DEF Complete
  <2>2. LoopsRun'
    BY <1>2, <2>1, BackgroundRuns, LoopRuns, SameLoops DEF Start
  <2>3. RunsStarted'
    BY <1>2, <2>1, RunsStartedStep
  <2>4. session' = session
    BY <1>2 DEF Start, Background, Node, BeginTask, LoseContext, FailTask, HandOver, EndTask,
       FinishRun, Becomes, Loop, Take, Wait, Stop, Mirror, MirrorFails
  <2>5. ASSUME NEW f \in Handlers, Alone(f) PROVE Undisturbed(f)'
    <3>1. Undisturbed(f)
      BY <2>1, <2>5 DEF AloneUndisturbed
    <3>2. CASE f = h
      BY <1>2, <2>1, <2>2, <3>1, <3>2, AloneStep
    <3>3. CASE f # h
      <4>1. session[f] # session[h]
        BY <2>5, <3>3 DEF Alone
      <4>2. /\ queue'[f] = queue[f] /\ item'[f] = item[f] /\ run'[f] = run[f]
            /\ held'[f] = held[f] /\ turns'[f] = turns[f]
            /\ hooks'[session[f]] = hooks[session[f]]
            /\ rows'[session[f]] = rows[session[f]]
            /\ f \in started' <=> f \in started
            /\ f \in finished' <=> f \in finished
        BY <1>2, <4>1, OtherSessions
      <4>3. \A i : Placed(f, i) => Placed(f, i)'
        BY <2>4, <4>2 DEF Placed, Queued
      <4> QED
        BY <2>4, <3>1, <4>2, <4>3 DEF Undisturbed
    <3> QED
      BY <3>2, <3>3
  <2>6. AloneUndisturbed'
    BY <2>4, <2>5 DEF AloneUndisturbed, Alone
  <2> QED
    BY <2>2, <2>3, <2>6 DEF Complete
<1> QED
  BY <1>1, <1>2 DEF Next

\* A message that shares its session with no other, when it is answered, has
\* every turn of its run that has a text in the database, for any number of
\* other messages and handoffs, in any interleaving, with failures of agents,
\* stores and context.  A turn whose text is blank is dropped
\* (chat.gateway.ts:520) and has no row.
THEOREM NoTurnLost == Spec => []AnsweredMeansMirrored
<1>1. Init => Complete
  <2> SUFFICES ASSUME Init PROVE Complete
    OBVIOUS
  <2>1. \A h \in Handlers : /\ queue[h] = Q!NewQueue /\ item[h] = <<>> /\ turns[h] = 0
                            /\ run[h].node = "hydrate" /\ started = {}
    BY DEF Init, NewRun
  <2>2. Q!NewQueue.reader = "asking" /\ ~Q!NewQueue.done
    BY DEF Q!NewQueue
  <2> QED
    BY <2>1, <2>2 DEF Complete, LoopsRun, QueueRuns, RunsStarted, AloneUndisturbed,
                      Undisturbed, Ended
<1>2. IInv /\ Complete /\ MirroredAtMostOnce => AnsweredMeansMirrored
  <2> SUFFICES ASSUME IInv, Complete, MirroredAtMostOnce, NEW h \in Handlers, Alone(h),
                      queue[h].reader \in Ended, NEW i \in 1 .. turns[h],
                      <<h, i>> \notin Blank
               PROVE  rows[session[h]][<<h, i>>] = 1
    BY DEF AnsweredMeansMirrored, Mirrored, Ended
  <2>1. /\ queue[h].items = <<>> /\ item[h] = <<>> /\ Placed(h, i)
    BY DEF Complete, LoopsRun, QueueRuns, AloneUndisturbed, Undisturbed, Ended
  <2>2. \A n \in Nat : ~Queued(<<h, i>>, h, n)
    BY <2>1 DEF Queued
  <2>3. <<h, i>> \in Turn
    <3>1. turns[h] \in 0 .. MaxTurns /\ MaxTurns \in Nat /\ turns[h] \in Nat
      BY GraphAssumption DEF IInv, Shape, RunsGood, GoodRun, StepsCover, MaxTurns
    <3> QED
      BY <3>1 DEF Turn
  <2>4. session[h] \in Sessions /\ rows[session[h]][<<h, i>>] \in Nat
    BY <2>3 DEF IInv, Shape
  <2>5. rows[session[h]][<<h, i>>] > 0 /\ rows[session[h]][<<h, i>>] <= 1
    BY <2>1, <2>2, <2>3, <2>4 DEF Placed, MirroredAtMostOnce
  <2> QED
    BY <2>4, <2>5
<1> QED
  BY <1>1, <1>2, CompleteStep, Invariant, StoredOnce, PTL DEF Spec
-----------------------------------------------------------------------------
(***************************************************************************)
(* Every step of a background task brings it nearer to its end.            *)
(***************************************************************************)
\* The steps between two awaits that a run may still take.
Left(r) ==
    IF Over(r) THEN 0
    ELSE 3 * (RecursionLimit - r.steps)
         + (IF r.node = "streaming" THEN 2 ELSE IF r.node = "logging" THEN 1 ELSE 3)

\* Those of the task of h, its finally block included.
Remaining(h) == IF h \in finished THEN 0 ELSE 1 + Left(run[h])

LEMMA OneSuperstep ==
    ASSUME NEW r \in AnyRun, ~Over(r), r.steps < RecursionLimit
    PROVE  /\ Hydrate(r).steps = r.steps + 1
           /\ RouteMessage(r, <<>>).steps = r.steps + 1
           /\ TaskRefused(r).steps = r.steps + 1
           /\ \A o : TaskDone(r, o).steps = r.steps + 1
           /\ \A w : TaskFailed(r, w).steps = r.steps + 1
           /\ CheckOutput(r).steps = r.steps + 1
           /\ AwaitReview(r).steps = r.steps + 1
           /\ RouteAgent(r).steps = r.steps + 1
           /\ HandleError(r).steps = r.steps + 1
<1>1. \A n \in Nodes : Goto(r, n) \in AnyRun /\ Goto(r, n).steps = r.steps + 1
  BY GotoIsRun
<1>2. /\ "route" \in Nodes /\ "run_task" \in Nodes /\ "check_output" \in Nodes
      /\ "route_agent" \in Nodes /\ "await_review" \in Nodes
  BY DEF Nodes
<1>3. \A g \in AnyRun : \A s : [g EXCEPT !.status = s].steps = g.steps
  BY DEF AnyRun
<1>4. \A g \in AnyRun : \A a, s, x, y :
        [g EXCEPT !.result = a, !.status = s, !.review = x, !.error = y].steps = g.steps
  BY DEF AnyRun
<1>5. \A g \in AnyRun : \A a, s, x, y :
        [g EXCEPT !.handoff = a, !.status = s, !.review = x, !.error = y].steps = g.steps
  BY DEF AnyRun
<1>6. Hydrate(r).steps = r.steps + 1 /\ AwaitReview(r).steps = r.steps + 1
  BY <1>1, <1>2 DEF Hydrate, AwaitReview
<1>7. RouteMessage(r, <<>>).steps = r.steps + 1
  <2> DEFINE g == Goto(r, "run_task")
  <2>1. g \in AnyRun /\ g.steps = r.steps + 1
    BY <1>1, <1>2
  <2>2. RouteMessage(r, <<>>) = [g EXCEPT !.active = DefaultName, !.status = "running"]
    BY DEF RouteMessage, PlanMentions
  <2> HIDE DEF g
  <2> QED
    BY <2>1, <2>2 DEF AnyRun
<1>8. TaskRefused(r).steps = r.steps + 1 /\ HandleError(r).steps = r.steps + 1
  <2> DEFINE g == Goto(r, "check_output")
  <2>1. g \in AnyRun /\ g.steps = r.steps + 1
    BY <1>1, <1>2
  <2>2. TaskRefused(r) = [g EXCEPT !.status = "failed", !.error = TRUE]
    BY DEF TaskRefused
  <2> HIDE DEF g
  <2>3. TaskRefused(r).steps = r.steps + 1
    BY <2>1, <2>2 DEF AnyRun
  <2>4. HandleError(r) = [Goto(r, "await_review") EXCEPT !.status = "awaiting_review"]
    BY DEF HandleError
  <2>5. HandleError(r).steps = r.steps + 1
    BY <1>1, <1>2, <1>3, <2>4
  <2> QED
    BY <2>3, <2>5
<1>9. /\ \A o : TaskDone(r, o).steps = r.steps + 1
      /\ \A w : TaskFailed(r, w).steps = r.steps + 1
  BY <1>1, <1>2, <1>4 DEF TaskDone, TaskFailed
<1>10. CheckOutput(r).steps = r.steps + 1
  <2> DEFINE to == IF r.result.handoff = r.active THEN None ELSE r.result.handoff
             next == IF r.result.failed THEN "handle_error"
                     ELSE IF r.result.review THEN "await_review"
                     ELSE IF to # None THEN "route_agent"
                     ELSE "end"
             status == IF r.result.failed THEN "failed"
                       ELSE IF r.result.review THEN "awaiting_review"
                       ELSE IF to # None THEN "handoff"
                       ELSE "completed"
  <2>1. next \in Nodes
    BY DEF Nodes
  <2>2. CheckOutput(r) =
          [Goto(r, next) EXCEPT !.handoff = to, !.status = status,
                                !.review = r.result.review, !.error = r.result.failed]
    BY DEF CheckOutput
  <2> HIDE DEF to, next, status
  <2> QED
    BY <1>1, <1>5, <2>1, <2>2
<1>11. RouteAgent(r).steps = r.steps + 1
  <2> DEFINE g == Goto(r, "run_task")
  <2>1. g \in AnyRun /\ g.steps = r.steps + 1
    BY <1>1, <1>2
  <2>2. RouteAgent(r) = [g EXCEPT !.active = r.handoff, !.handoff = None,
                                  !.result = NoResult, !.status = "running",
                                  !.review = FALSE, !.error = FALSE]
    BY DEF RouteAgent
  <2> HIDE DEF g
  <2> QED
    BY <2>1, <2>2 DEF AnyRun
<1> QED
  BY <1>6, <1>7, <1>8, <1>9, <1>10, <1>11

LEMMA Shrinks ==
    ASSUME NEW r \in AnyRun, NEW u \in AnyRun, ~Over(r), u.steps = r.steps + 1
    PROVE  Left(u) < Left(r)
<1>1. /\ r.steps \in Nat /\ u.steps \in Nat /\ RecursionLimit \in Nat
      /\ u.steps <= RecursionLimit
  BY RunFields
<1>2. Left(u) <= 3 * (RecursionLimit - u.steps) + 3
  BY <1>1 DEF Left
<1>3. Left(r) >= 3 * (RecursionLimit - r.steps) + 1
  BY <1>1 DEF Left
<1>4. Left(u) \in Int /\ Left(r) \in Int
  BY <1>1 DEF Left
<1> QED
  BY <1>1, <1>2, <1>3, <1>4

LEMMA LeftIsSmall ==
    ASSUME NEW r \in AnyRun
    PROVE  Left(r) \in 0 .. 3 * RecursionLimit + 3
<1>1. r.steps \in Nat /\ RecursionLimit \in Nat /\ r.steps <= RecursionLimit
  BY RunFields
<1>2. CASE Over(r)
  BY <1>1, <1>2 DEF Left
<1>3. CASE ~Over(r)
  <2> DEFINE k == IF r.node = "streaming" THEN 2 ELSE IF r.node = "logging" THEN 1 ELSE 3
  <2>1. Left(r) = 3 * (RecursionLimit - r.steps) + k /\ k \in 1 .. 3
    BY <1>3 DEF Left
  <2> HIDE DEF k
  <2> QED
    BY <1>1, <2>1
<1> QED
  BY <1>2, <1>3

\* A node, or the end of a task, is one superstep.
LEMMA BecomesNearer ==
    ASSUME IInv, IInv', NEW h \in Handlers, Node(h) \/ FailTask(h) \/ EndTask(h)
    PROVE  Remaining(h)' < Remaining(h)
<1>1. /\ GoodRun(run[h], turns[h]) /\ run[h] \in AnyRun
      /\ run'[h] \in AnyRun /\ h \in Handlers
  BY DEF IInv, Shape, RunsGood
<1>2. /\ ~Over(run[h]) /\ h \in started \ finished /\ finished' = finished
      /\ \E r : Becomes(h, r)
  BY DEF Node, FailTask, EndTask, Streaming, Becomes, Over
<1>3. run[h].steps < RecursionLimit
  BY <1>1, <1>2 DEF GoodRun, StepsCover
<1>4. \A r : Becomes(h, r) => run'[h] = r
  BY DEF Becomes, IInv, Shape
<1>5. run'[h].steps = run[h].steps + 1
  <2>1. CASE Node(h)
    BY <1>1, <1>2, <1>3, <1>4, <2>1, OneSuperstep DEF Node
  <2>2. CASE FailTask(h)
    BY <1>1, <1>2, <1>3, <1>4, <2>2, OneSuperstep DEF FailTask
  <2>3. CASE EndTask(h)
    BY <1>1, <1>2, <1>3, <1>4, <2>3, OneSuperstep DEF EndTask
  <2> QED
    BY <2>1, <2>2, <2>3
<1>6. Left(run'[h]) < Left(run[h])
  BY <1>1, <1>2, <1>5, Shrinks
<1>7. Left(run'[h]) \in Int /\ Left(run[h]) \in Int
  BY <1>1, LeftIsSmall, GraphAssumption
<1> QED
  BY <1>2, <1>6, <1>7 DEF Remaining, Left, Over

LEMMA BackgroundNearer ==
    ASSUME IInv, IInv', NEW h \in Handlers, Background(h)
    PROVE  Remaining(h)' < Remaining(h)
<1>1. /\ GoodRun(run[h], turns[h]) /\ run[h] \in AnyRun /\ run'[h] \in AnyRun
  BY DEF IInv, Shape, RunsGood
<1>2. /\ run[h].steps \in Nat /\ RecursionLimit \in Nat
      /\ run[h].steps <= RecursionLimit
      /\ ~Over(run[h]) => run[h].steps < RecursionLimit
  BY <1>1, RunFields DEF GoodRun, StepsCover
<1>3. CASE Node(h) \/ FailTask(h) \/ EndTask(h)
  BY <1>3, BecomesNearer
<1>4. CASE BeginTask(h)
  <2>1. /\ run'[h] = [run[h] EXCEPT !.node = "streaming"] /\ run[h].node = "run_task"
        /\ h \notin finished /\ finished' = finished
    BY <1>4 DEF BeginTask, TaskBegun, IInv, Shape
  <2>2. run'[h].node = "streaming" /\ run'[h].steps = run[h].steps
    BY <1>1, <2>1 DEF AnyRun
  <2> QED
    BY <1>2, <2>1, <2>2 DEF Remaining, Left, Over
<1>5. CASE LoseContext(h)
  <2>1. /\ run'[h] = [run[h] EXCEPT !.node = "error", !.steps = @ + 1]
        /\ run[h].node = "streaming" /\ h \notin finished /\ finished' = finished
    BY <1>5 DEF LoseContext, ContextFailed, Streaming, IInv, Shape
  <2>2. run'[h].node = "error"
    BY <1>1, <2>1 DEF AnyRun
  <2> QED
    BY <1>2, <2>1, <2>2 DEF Remaining, Left, Over
<1>6. CASE HandOver(h)
  <2>1. /\ run'[h] = [run[h] EXCEPT !.node = "logging"] /\ run[h].node = "streaming"
        /\ h \notin finished /\ finished' = finished
    BY <1>6 DEF HandOver, Streaming, IInv, Shape
  <2>2. run'[h].node = "logging" /\ run'[h].steps = run[h].steps
    BY <1>1, <2>1 DEF AnyRun
  <2> QED
    BY <1>2, <2>1, <2>2 DEF Remaining, Left, Over
<1>7. CASE FinishRun(h)
  <2>1. h \notin finished /\ h \in finished' /\ Over(run[h])
    BY <1>7 DEF FinishRun
  <2> QED
    BY <2>1 DEF Remaining, Left
<1> QED
  BY <1>3, <1>4, <1>5, <1>6, <1>7 DEF Background

\* The steps of others and of loops leave the task where it is.
LEMMA OthersLeave ==
    ASSUME IInv, NEW h \in Handlers, NEW g \in Handlers,
           \/ Start(g) \/ Loop(g)
           \/ g # h /\ Background(g)
    PROVE  Remaining(h)' = Remaining(h)
<1>1. CASE Start(g) \/ Loop(g)
  <2>1. run' = run /\ finished' = finished
    BY <1>1 DEF Start, Loop, Take, Wait, Stop, Mirror, MirrorFails
  <2> QED
    BY <2>1 DEF Remaining, Left, Over
<1>2. CASE g # h /\ Background(g)
  <2>1. run'[h] = run[h]
    <3>1. CASE Node(g) \/ FailTask(g) \/ EndTask(g)
      BY <1>2, <3>1, LeavesStreaming DEF Becomes, IInv, Shape
    <3>2. CASE BeginTask(g) \/ LoseContext(g) \/ HandOver(g) \/ FinishRun(g)
      BY <1>2, <3>2 DEF BeginTask, LoseContext, HandOver, FinishRun, IInv, Shape
    <3> QED
      BY <1>2, <3>1, <3>2 DEF Background
  <2>2. h \in finished' <=> h \in finished
    BY <1>2 DEF Background, Node, BeginTask, LoseContext, FailTask, HandOver, EndTask,
                FinishRun, Becomes
  <2> QED
    BY <2>1, <2>2 DEF Remaining, Left, Over
<1> QED
  BY <1>1, <1>2

\* Whatever the agents answer, hand over and ask for, and whatever fails, each
\* step of a background task brings it nearer to its finally block, and no
\* other message takes it further away: a message costs at most
\* 3 * RecursionLimit + 4 such steps.  With the fairness of Background every
\* task comes to an end, and with it every queue.
THEOREM TasksRunDry ==
    Spec => /\ [](\A h \in Handlers : Remaining(h) \in 0 .. 3 * RecursionLimit + 4)
            /\ [][\A h \in Handlers : /\ Remaining(h)' <= Remaining(h)
                                      /\ Background(h) => Remaining(h)' < Remaining(h)]_vars
<1> DEFINE Bound == \A h \in Handlers : Remaining(h) \in 0 .. 3 * RecursionLimit + 4
           Nearer == \A h \in Handlers : /\ Remaining(h)' <= Remaining(h)
                                         /\ Background(h) => Remaining(h)' < Remaining(h)
<1>1. IInv => Bound
  <2> SUFFICES ASSUME IInv, NEW h \in Handlers
               PROVE  Remaining(h) \in 0 .. 3 * RecursionLimit + 4
    OBVIOUS
  <2>1. run[h] \in AnyRun /\ RecursionLimit \in Nat
    BY GraphAssumption DEF IInv, Shape
  <2>2. Left(run[h]) \in 0 .. 3 * RecursionLimit + 3
    BY <2>1, LeftIsSmall
  <2> QED
    BY <2>1, <2>2 DEF Remaining
<1>2. IInv /\ IInv' /\ Bound /\ Bound' /\ [Next]_vars => [Nearer]_vars
  <2> SUFFICES ASSUME IInv, IInv', Bound, Bound', Next, NEW h \in Handlers
               PROVE  /\ Remaining(h)' <= Remaining(h)
                      /\ Background(h) => Remaining(h)' < Remaining(h)
    OBVIOUS
  <2>1. RecursionLimit \in Nat /\ Remaining(h) \in Int /\ Remaining(h)' \in Int
    BY GraphAssumption
  <2>2. CASE Background(h)
    BY <2>1, <2>2, BackgroundNearer
  <2>3. CASE ~Background(h)
    <3>1. PICK g \in Handlers : Start(g) \/ Background(g) \/ Loop(g)
      BY DEF Next
    <3>2. Remaining(h)' = Remaining(h)
      BY <2>3, <3>1, OthersLeave
    <3> QED
      BY <2>1, <2>3, <3>2
  <2> QED
    BY <2>2, <2>3
<1> HIDE DEF Bound, Nearer
<1>3. Spec => []Bound /\ [][Nearer]_vars
  BY <1>1, <1>2, Invariant, PTL DEF Spec
<1> QED
  BY <1>3 DEF Bound, Nearer
-----------------------------------------------------------------------------
(***************************************************************************)
(* The queue of the observed message is an EventStream.                    *)
(***************************************************************************)
\* What the loop of the gateway can tell of a queue.
Closing(q) == IF ~q.done THEN "open" ELSE IF q.err THEN "failed" ELSE "ended"

Reading(q) == IF q.reader \in {"returned", "threw", "gone"} THEN q.reader ELSE "yes"

\* q and r are the same stream.
SameStream(q, r) ==
    r.items = q.items /\ Closing(r) = Closing(q) /\ Reading(r) = Reading(q)

\* Waking a reader is no step of the stream.
LEMMA WakeStream ==
    ASSUME NEW q \in Q!Queue(Items), NEW n \in Nat
    PROVE  SameStream(q, Q!Wake(q, n))
<1> DEFINE w == IF n < q.waiters THEN q.waiters - n ELSE 0
           r == IF q.waiters > 0 /\ n > 0 /\ q.reader = "parked"
                THEN "asking" ELSE q.reader
<1>1. r = q.reader \/ (q.reader = "parked" /\ r = "asking")
  OBVIOUS
<1>2. Q!Wake(q, n) = [q EXCEPT !.waiters = w, !.reader = r]
  BY DEF Q!Wake, Q!Queue
<1> HIDE DEF w, r
<1> QED
  BY <1>1, <1>2 DEF Q!Queue, SameStream, Closing, Reading

\* The steps of a queue as steps of the observed stream.
LEMMA PushSends ==
    ASSUME queue[Observed] \in Q!Queue(Items), NEW e \in Items,
           queue'[Observed] = Q!Push(queue[Observed], e)
    PROVE  Stream!Next
<1> DEFINE longer == Append(queue[Observed].items, e)
           p == [queue[Observed] EXCEPT !.items = longer]
<1>1. longer \in Seq(Items)
  BY QueueFields, AppendProperties
<1> HIDE DEF longer
<1>2. /\ p \in Q!Queue(Items) /\ p.items = longer
      /\ Closing(p) = Closing(queue[Observed]) /\ Reading(p) = Reading(queue[Observed])
  BY <1>1 DEF Q!Queue, Closing, Reading
<1>3. queue'[Observed] = Q!Wake(p, 1)
  BY DEF Q!Push, longer
<1> HIDE DEF p
<1>4. SameStream(p, queue'[Observed])
  BY <1>2, <1>3, WakeStream
<1>5. Stream!Send
  BY <1>2, <1>4 DEF SameStream, Closing, Reading, Stream!Send, longer
<1> QED
  BY <1>5 DEF Stream!Next

LEMMA EndCloses ==
    ASSUME queue[Observed] \in Q!Queue(Items), ~queue[Observed].done,
           queue'[Observed] \in {Q!End(queue[Observed]), Q!Fail(queue[Observed])}
    PROVE  Stream!Next
<1> DEFINE q == queue[Observed]
           d == [q EXCEPT !.done = TRUE]
           f == [q EXCEPT !.err = TRUE, !.done = TRUE]
<1>1. /\ d \in Q!Queue(Items) /\ d.items = q.items /\ d.done /\ Reading(d) = Reading(q)
      /\ f \in Q!Queue(Items) /\ f.items = q.items /\ f.done /\ Reading(f) = Reading(q)
  BY DEF Q!Queue, Reading
<1>2. Q!End(q) = Q!Wake(d, q.waiters) /\ Q!Fail(q) = Q!Wake(f, q.waiters)
  BY DEF Q!End, Q!Fail
<1>3. q.waiters \in Nat
  BY QueueFields
<1> HIDE DEF d, f
<1>4. SameStream(d, queue'[Observed]) \/ SameStream(f, queue'[Observed])
  BY <1>1, <1>2, <1>3, WakeStream
<1>5. /\ queue'[Observed].items = q.items /\ Reading(queue'[Observed]) = Reading(q)
      /\ Closing(queue'[Observed]) \in {"ended", "failed"} /\ Closing(q) = "open"
  BY <1>1, <1>4 DEF SameStream, Closing
<1>6. Stream!Close
  BY <1>5 DEF Closing, Reading, Stream!Close
<1> QED
  BY <1>6 DEF Stream!Next

LEMMA YieldDelivers ==
    ASSUME queue[Observed] \in Q!Queue(Items), Q!Yields(queue[Observed]),
           queue'[Observed] \in {Q!Yield(queue[Observed]), Q!AskAgain(Q!Yield(queue[Observed]))}
    PROVE  Stream!Next
<1> DEFINE q == queue[Observed]
           y == Q!Yield(q)
<1>1. y \in Q!Queue(Items) /\ y.items = Tail(q.items)
  BY YieldKeeps DEF Q!Yields
<1>2. /\ Closing(y) = Closing(q) /\ Reading(y) = "yes" /\ Reading(q) = "yes"
      /\ q.items # <<>>
  BY DEF Q!Yield, Q!Yields, Q!Queue, Closing, Reading
<1> HIDE DEF y
<1>3. SameStream(y, queue'[Observed])
  BY <1>1, <1>2 DEF Q!AskAgain, Q!Queue, SameStream, Closing, Reading, y
<1>4. Stream!Deliver
  BY <1>1, <1>2, <1>3 DEF SameStream, Closing, Reading, Stream!Deliver
<1> QED
  BY <1>4 DEF Stream!Next

LEMMA FinishReports ==
    ASSUME queue[Observed] \in Q!Queue(Items), Q!Finishes(queue[Observed]),
           queue'[Observed] = Q!Finish(queue[Observed])
    PROVE  Stream!Next
<1>1. Stream!Report
  BY DEF Q!Finish, Q!Finishes, Q!Queue, Stream!Report
<1> QED
  BY <1>1 DEF Stream!Next

LEMMA AbandonLeaves ==
    ASSUME queue[Observed] \in Q!Queue(Items), queue[Observed].reader = "holding",
           queue'[Observed] = Q!Abandon(queue[Observed])
    PROVE  Stream!Next
<1>1. Stream!Leave
  BY DEF Q!Abandon, Q!Queue, Stream!Leave
<1> QED
  BY <1>1 DEF Stream!Next

LEMMA ReaderStutters ==
    ASSUME queue[Observed] \in Q!Queue(Items),
           \/ Q!Parks(queue[Observed]) /\ queue'[Observed] = Q!Park(queue[Observed])
           \/ queue[Observed].reader = "holding" /\ queue'[Observed] = Q!AskAgain(queue[Observed])
           \/ queue'[Observed] = queue[Observed]
    PROVE  UNCHANGED Stream!vars
BY DEF Q!Parks, Q!Park, Q!AskAgain, Q!Queue, Stream!vars

\* A step that gives one queue a value is a step of that queue's stream only.
LEMMA OtherStreams ==
    ASSUME IInv, NEW g \in Handlers, NEW q, queue' = [queue EXCEPT ![g] = q],
           g = Observed => Stream!Next \/ UNCHANGED Stream!vars
    PROVE  Stream!Next \/ UNCHANGED Stream!vars
<1>1. CASE g = Observed
  BY <1>1
<1>2. CASE g # Observed
  <2>1. queue'[Observed] = queue[Observed]
    BY <1>2, ObservedAssumption DEF IInv, Shape
  <2> QED
    BY <2>1, ReaderStutters, ObservedAssumption DEF IInv, Shape
<1> QED
  BY <1>1, <1>2

LEMMA SameQueueStutters ==
    ASSUME queue' = queue
    PROVE  UNCHANGED Stream!vars
BY DEF Stream!vars

\* The event of a node goes to the queue of its own message, the text of a
\* turn to the message whose hooks the task got.
LEMMA BecomesStreams ==
    ASSUME IInv, IInv', NEW g \in Handlers, NEW r, Becomes(g, r)
    PROVE  Stream!Next \/ UNCHANGED Stream!vars
<1>1. r \in AnyRun
  <2>1. run' = [run EXCEPT ![g] = r] /\ run' \in [Handlers -> AnyRun]
    BY DEF Becomes, IInv, Shape
  <2> QED
    BY <2>1 DEF IInv, Shape
<1>2. CASE StateToEvent(r) = <<>>
  BY <1>2, SameQueueStutters DEF Becomes
<1>3. CASE StateToEvent(r) # <<>>
  <2> DEFINE e == Forwarded(g, Head(StateToEvent(r)))
  <2>1. e \in Items /\ queue' = [queue EXCEPT ![g] = Q!Push(queue[g], e)]
    BY <1>1, <1>3, EventsForward DEF Becomes
  <2>2. queue[g] \in Q!Queue(Items) /\ queue'[g] = Q!Push(queue[g], e)
    BY <2>1 DEF IInv, Shape
  <2> HIDE DEF e
  <2>3. g = Observed => Stream!Next
    BY <2>1, <2>2, PushSends
  <2> QED
    BY <2>1, <2>3, OtherStreams
<1> QED
  BY <1>2, <1>3

LEMMA BackgroundStreams ==
    ASSUME IInv, IInv', LoopsRun, NEW g \in Handlers, Background(g)
    PROVE  Stream!Next \/ UNCHANGED Stream!vars
<1>1. CASE Node(g) \/ FailTask(g) \/ EndTask(g)
  <2>1. PICK r : Becomes(g, r)
    BY <1>1 DEF Node, FailTask, EndTask
  <2> QED
    BY <2>1, BecomesStreams
<1>2. CASE BeginTask(g) \/ LoseContext(g)
  BY <1>2, SameQueueStutters DEF BeginTask, LoseContext
<1>3. CASE HandOver(g)
  <2>1. CASE held[g] = NoHandler
    BY <1>3, <2>1, SameQueueStutters DEF HandOver
  <2>2. CASE held[g] # NoHandler
    <3>1. PICK f \in Handlers : f = held[g]
      BY <2>2 DEF IInv, Shape
    <3> DEFINE e == TurnEnd(<<g, turns[g] + 1>>)
    <3>2. e \in Items
      BY <1>3, TurnHandedOver
    <3>3. queue' = [queue EXCEPT ![f] = Q!Push(queue[f], e)]
      BY <1>3, <2>2, <3>1 DEF HandOver
    <3> HIDE DEF e
    <3>4. queue[f] \in Q!Queue(Items) /\ queue'[f] = Q!Push(queue[f], e)
      BY <3>3 DEF IInv, Shape
    <3>5. f = Observed => Stream!Next
      BY <3>2, <3>4, PushSends
    <3> QED
      BY <3>3, <3>5, OtherStreams
  <2> QED
    BY <2>1, <2>2
<1>4. CASE FinishRun(g)
  <2> DEFINE q == IF run[g].node = "end" THEN Q!End(queue[g]) ELSE Q!Fail(queue[g])
  <2>1. queue' = [queue EXCEPT ![g] = q] /\ g \notin finished
    BY <1>4 DEF FinishRun
  <2>2. queue[g] \in Q!Queue(Items) /\ queue'[g] = q /\ ~queue[g].done
    BY <2>1 DEF IInv, Shape, LoopsRun, QueueRuns
  <2>3. q \in {Q!End(queue[g]), Q!Fail(queue[g])}
    OBVIOUS
  <2> HIDE DEF q
  <2>4. g = Observed => Stream!Next
    BY <2>2, <2>3, EndCloses
  <2> QED
    BY <2>1, <2>4, OtherStreams
<1> QED
  BY <1>1, <1>2, <1>3, <1>4 DEF Background

\* The gateway's loop asks, is given and leaves.
LEMMA LoopStreams ==
    ASSUME IInv, LoopsRun, NEW g \in Handlers, Loop(g)
    PROVE  Stream!Next \/ UNCHANGED Stream!vars
<1>1. /\ queue[g] \in Q!Queue(Items)
      /\ item[g] # <<>> => queue[g].reader = "holding"
  BY DEF IInv, Shape, LoopsRun, QueueRuns
<1>2. queue' = [queue EXCEPT ![g] = queue'[g]]
  BY DEF IInv, Shape, Loop, Take, Wait, Stop, Mirror, MirrorFails
<1>3. CASE Take(g)
  <2>1. /\ Q!Yields(queue[g])
        /\ queue'[g] \in {Q!Yield(queue[g]), Q!AskAgain(Q!Yield(queue[g]))}
    BY <1>3 DEF Take, IInv, Shape
  <2>2. g = Observed => Stream!Next
    BY <1>1, <2>1, YieldDelivers
  <2> QED
    BY <1>2, <2>2, OtherStreams
<1>4. CASE Wait(g)
  <2>1. Q!Parks(queue[g]) /\ queue'[g] = Q!Park(queue[g])
    BY <1>4 DEF Wait, IInv, Shape
  <2>2. g = Observed => UNCHANGED Stream!vars
    BY <1>1, <2>1, ReaderStutters
  <2> QED
    BY <1>2, <2>2, OtherStreams
<1>5. CASE Stop(g)
  <2>1. Q!Finishes(queue[g]) /\ queue'[g] = Q!Finish(queue[g])
    BY <1>5 DEF Stop, IInv, Shape
  <2>2. g = Observed => Stream!Next
    BY <1>1, <2>1, FinishReports
  <2> QED
    BY <1>2, <2>2, OtherStreams
<1>6. CASE Mirror(g)
  <2>1. queue[g].reader = "holding" /\ queue'[g] = Q!AskAgain(queue[g])
    BY <1>1, <1>6 DEF Mirror, IInv, Shape
  <2>2. g = Observed => UNCHANGED Stream!vars
    BY <1>1, <2>1, ReaderStutters
  <2> QED
    BY <1>2, <2>2, OtherStreams
<1>7. CASE MirrorFails(g)
  <2>1. queue[g].reader = "holding" /\ queue'[g] = Q!Abandon(queue[g])
    BY <1>1, <1>7 DEF MirrorFails, IInv, Shape
  <2>2. g = Observed => Stream!Next
    BY <1>1, <2>1, AbandonLeaves
  <2> QED
    BY <1>2, <2>2, OtherStreams
<1> QED
  BY <1>3, <1>4, <1>5, <1>6, <1>7 DEF Loop

LEMMA StreamsStep ==
    ASSUME IInv, IInv', LoopsRun, [Next]_vars
    PROVE  Stream!Next \/ UNCHANGED Stream!vars
<1>1. CASE UNCHANGED vars
  BY <1>1, SameQueueStutters DEF vars
<1>2. ASSUME NEW g \in Handlers, Start(g)
      PROVE  Stream!Next \/ UNCHANGED Stream!vars
  BY <1>2, SameQueueStutters DEF Start
<1>3. ASSUME NEW g \in Handlers, Background(g) \/ Loop(g)
      PROVE  Stream!Next \/ UNCHANGED Stream!vars
  BY <1>3, BackgroundStreams, LoopStreams
<1> QED
  BY <1>1, <1>2, <1>3 DEF Next

LEMMA LoopsAlwaysRun == Spec => []LoopsRun
<1>1. Init => LoopsRun
  BY DEF Init, Q!NewQueue, LoopsRun, QueueRuns, Ended
<1>2. IInv /\ IInv' /\ LoopsRun /\ [Next]_vars => LoopsRun'
  <2> SUFFICES ASSUME IInv, IInv', LoopsRun, [Next]_vars PROVE LoopsRun'
    OBVIOUS
  <2>1. CASE UNCHANGED vars
    BY <2>1, SameLoops DEF vars
  <2>2. ASSUME NEW h \in Handlers, Start(h) PROVE LoopsRun'
    BY <2>2, SameLoops DEF Start
  <2> QED
    BY <2>1, <2>2, BackgroundRuns, LoopRuns DEF Next
<1> QED
  BY <1>1, <1>2, Invariant, PTL DEF Spec

\* What the loop of a message is given is what streamExecute promises of one
\* queue: every event once, in the order it was sent, the end or the failure
\* after the last of them, whoever else runs and whichever run's task it was
\* that pushed (EventStream's Spec, for the queue of the observed message).
THEOREM StreamKept == Spec => Stream!SafeSpec
<1>1. Init => Stream!Init
  BY ObservedAssumption DEF Init, Q!NewQueue, Stream!Init
<1>2. IInv /\ IInv' /\ LoopsRun /\ [Next]_vars => [Stream!Next]_(Stream!vars)
  BY StreamsStep
<1> QED
  BY <1>1, <1>2, Invariant, LoopsAlwaysRun, PTL DEF Spec, Stream!SafeSpec
-----------------------------------------------------------------------------
(***************************************************************************)
(* The run of the observed message is a WorkflowRun.                       *)
(***************************************************************************)
\* The operators of the graph are the same in the run's own description.
LEMMA SameGraph ==
    ASSUME NEW r
    PROVE  /\ Run!StateToEvent(r) = StateToEvent(r)
           /\ Run!Hydrate(r) = Hydrate(r)
           /\ Run!RouteMessage(r, <<>>) = RouteMessage(r, <<>>)
           /\ Run!Refuses(r) = Refuses(r)
           /\ Run!TaskRefused(r) = TaskRefused(r)
           /\ Run!TaskBegun(r) = TaskBegun(r)
           /\ Run!ContextFailed(r) = ContextFailed(r)
           /\ \A o : Run!TaskDone(r, o) = TaskDone(r, o)
           /\ \A w : Run!TaskFailed(r, w) = TaskFailed(r, w)
           /\ Run!CheckOutput(r) = CheckOutput(r)
           /\ Run!AwaitReview(r) = AwaitReview(r)
           /\ Run!RouteAgent(r) = RouteAgent(r)
           /\ Run!HandleError(r) = HandleError(r)
<1>1. Run!StateToEvent(r) = StateToEvent(r)
  BY DEF StateToEvent, Run!StateToEvent, Event, Run!Event, NoResult, Run!NoResult
<1>2. /\ Run!Hydrate(r) = Hydrate(r) /\ Run!AwaitReview(r) = AwaitReview(r)
      /\ Run!HandleError(r) = HandleError(r) /\ Run!RouteAgent(r) = RouteAgent(r)
  BY DEF Hydrate, Run!Hydrate, AwaitReview, Run!AwaitReview, HandleError, Run!HandleError,
         RouteAgent, Run!RouteAgent, NoResult, Run!NoResult, Goto, Run!Goto
<1>3. Run!RouteMessage(r, <<>>) = RouteMessage(r, <<>>)
  BY DEF RouteMessage, Run!RouteMessage, PlanMentions, Run!PlanMentions, Goto, Run!Goto
<1>4. /\ Run!Refuses(r) = Refuses(r) /\ Run!TaskRefused(r) = TaskRefused(r)
      /\ Run!TaskBegun(r) = TaskBegun(r) /\ Run!ContextFailed(r) = ContextFailed(r)
  BY DEF Refuses, Run!Refuses, TaskRefused, Run!TaskRefused, TaskBegun, Run!TaskBegun,
         ContextFailed, Run!ContextFailed, Goto, Run!Goto
<1>5. /\ \A o : Run!TaskDone(r, o) = TaskDone(r, o)
      /\ \A w : Run!TaskFailed(r, w) = TaskFailed(r, w)
  BY DEF TaskDone, Run!TaskDone, TaskFailed, Run!TaskFailed, NoResult, Run!NoResult,
         Goto, Run!Goto
<1>6. Run!CheckOutput(r) = CheckOutput(r)
  BY DEF CheckOutput, Run!CheckOutput, Goto, Run!Goto
<1> QED
  BY <1>1, <1>2, <1>3, <1>4, <1>5, <1>6

\* The events of a run; a node knows an agent by its name, a hook by its id.
Tellings ==
    [type : {"task_start", "agent_stream_end", "complete", "needs_review",
             "needs_decision", "handoff"},
     who : Agents \union MaybeName, to : MaybeName]

\* While the run is logging, the end of the turn is what was told last.
LastTold ==
    /\ events \in Seq(Tellings)
    /\ Logging => \E front \in Seq(Tellings) : events = Append(front, TurnOver(Observed))

\* A node tells events of a run.
LEMMA EventsTelling ==
    ASSUME NEW r \in AnyRun
    PROVE  StateToEvent(r) \in Seq(Tellings)
<1>1. /\ r.active \in MaybeName /\ r.handoff \in MaybeName
      /\ r.result.agent \in Agents \union {None} /\ None \in MaybeName
  BY DEF AnyRun, Results, MaybeName
<1>2. \A e \in Tellings : <<e>> \in Seq(Tellings)
  OBVIOUS
<1>3. <<>> \in Seq(Tellings)
  OBVIOUS
<1> QED
  BY <1>1, <1>2, <1>3 DEF StateToEvent, Event, Tellings, MaybeName

LEMMA FrontOfAppend ==
    ASSUME NEW S, NEW front \in Seq(S), NEW e \in S
    PROVE  SubSeq(Append(front, e), 1, Len(Append(front, e)) - 1) = front
<1> DEFINE a == Append(front, e)
           s == SubSeq(a, 1, Len(a) - 1)
<1>1. a \in Seq(S) /\ Len(a) = Len(front) + 1 /\ Len(front) \in Nat
  BY AppendProperties, LenProperties
<1>2. \A i \in 1 .. Len(front) : a[i] = front[i]
  BY AppendProperties
<1>3. s \in Seq(S) /\ Len(s) = Len(front) /\ \A i \in 1 .. Len(front) : s[i] = a[i]
  BY <1>1, SubSeqProperties
<1> HIDE DEF a, s
<1>4. s = front
  BY <1>2, <1>3, SeqEqual
<1> QED
  BY <1>4 DEF a, s

\* The state of the run between two steps of its graph.
Between(r) == IF r.node = "logging" THEN [r EXCEPT !.node = "streaming"] ELSE r

\* What has been told but for the end of a turn that is not over.
ToldSoFar == IF Logging THEN SubSeq(events, 1, Len(events) - 1) ELSE events

LEMMA BecomesInRun ==
    ASSUME NEW r, Between(run[Observed])' = r,
           ToldSoFar' = ToldSoFar \o StateToEvent(r)
    PROVE  Run!Becomes(r)
<1>1. (IF Logging THEN [run[Observed] EXCEPT !.node = "streaming"]
       ELSE run[Observed])' = r
  BY DEF Between, Logging
<1>2. ToldSoFar' = ToldSoFar \o Run!StateToEvent(r)
  BY SameGraph
<1> QED
  BY <1>1, <1>2 DEF Run!Becomes, ToldSoFar

\* A node of the graph is the same node of the run's own description.
LEMMA NodeInRun ==
    ASSUME IInv, Node(Observed), Tells(Observed, StateToEvent(run'[Observed]))
    PROVE  Run!Next
<1> DEFINE r == run[Observed]
<1>1. GoodRun(r, turns[Observed]) /\ r \in AnyRun
  BY ObservedAssumption DEF IInv, Shape, RunsGood
<1>2. r.node \notin Middle
  BY DEF Node, Middle
<1>3. Between(r) = r /\ ToldSoFar = events
  BY <1>2 DEF Between, ToldSoFar, Logging, Middle
<1>4. ASSUME NEW u, Becomes(Observed, u), u.node \notin Middle
      PROVE  Run!Becomes(u)
  <2>1. run'[Observed] = u
    BY <1>4, ObservedAssumption DEF Becomes, IInv, Shape
  <2>2. Between(run[Observed])' = u
    BY <1>4, <2>1 DEF Between, Middle
  <2>3. ToldSoFar' = events'
    BY <1>4, <2>1 DEF ToldSoFar, Logging, Middle
  <2>4. events' = events \o StateToEvent(u)
    BY <2>1 DEF Tells
  <2> QED
    BY <1>3, <2>2, <2>3, <2>4, BecomesInRun
<1>5. ~Logging
  BY <1>2 DEF Logging, Middle
<1>6. CASE r.node = "hydrate" /\ Becomes(Observed, Hydrate(r))
  <2>1. Run!DoHydrate
    BY <1>1, <1>4, <1>5, <1>6, NodesLeave, SameGraph DEF Run!DoHydrate
  <2> QED
    BY <2>1 DEF Run!Next
<1>7. CASE r.node = "route" /\ Becomes(Observed, RouteMessage(r, <<>>))
  <2>1. Run!DoRoute
    BY <1>1, <1>4, <1>5, <1>7, NodesLeave, SameGraph DEF Run!DoRoute
  <2> QED
    BY <2>1 DEF Run!Next
<1>8. CASE r.node = "run_task" /\ Refuses(r) /\ Becomes(Observed, TaskRefused(r))
  <2>1. Run!RefuseTask
    BY <1>1, <1>4, <1>5, <1>8, NodesLeave, SameGraph DEF Run!RefuseTask
  <2> QED
    BY <2>1 DEF Run!Next
<1>9. CASE r.node = "check_output" /\ Becomes(Observed, CheckOutput(r))
  <2>1. Run!DoCheckOutput
    BY <1>1, <1>4, <1>5, <1>9, NodesLeave, SameGraph DEF Run!DoCheckOutput
  <2> QED
    BY <2>1 DEF Run!Next
<1>10. CASE r.node = "await_review" /\ Becomes(Observed, AwaitReview(r))
  <2>1. Run!DoAwaitReview
    BY <1>1, <1>4, <1>5, <1>10, NodesLeave, SameGraph DEF Run!DoAwaitReview
  <2> QED
    BY <2>1 DEF Run!Next
<1>11. CASE r.node = "route_agent" /\ Becomes(Observed, RouteAgent(r))
  <2>1. Run!DoRouteAgent
    BY <1>1, <1>4, <1>5, <1>11, NodesLeave, SameGraph DEF Run!DoRouteAgent
  <2> QED
    BY <2>1 DEF Run!Next
<1>12. CASE r.node = "handle_error" /\ Becomes(Observed, HandleError(r))
  <2>1. Run!DoHandleError
    BY <1>1, <1>4, <1>5, <1>12, NodesLeave, SameGraph DEF Run!DoHandleError
  <2> QED
    BY <2>1 DEF Run!Next
<1> QED
  BY <1>6, <1>7, <1>8, <1>9, <1>10, <1>11, <1>12 DEF Node

\* A task begins, loses its context or fails before its turn is over.
LEMMA TaskInRun ==
    ASSUME IInv,
           \/ (BeginTask(Observed) \/ LoseContext(Observed)) /\ events' = events
           \/ FailTask(Observed) /\ Tells(Observed, StateToEvent(run'[Observed]))
    PROVE  Run!Next
<1> DEFINE r == run[Observed]
<1>1. GoodRun(r, turns[Observed]) /\ r \in AnyRun
  BY ObservedAssumption DEF IInv, Shape, RunsGood
<1>2. ~Logging /\ ToldSoFar = events
  BY DEF BeginTask, LoseContext, FailTask, Streaming, Logging, ToldSoFar
<1>3. CASE BeginTask(Observed) /\ events' = events
  <2>1. run'[Observed] = TaskBegun(r) /\ r.node = "run_task" /\ ~Refuses(r)
    BY <1>3, ObservedAssumption DEF BeginTask, IInv, Shape
  <2>2. TaskBegun(r).node = "streaming"
    BY <1>1 DEF TaskBegun, AnyRun
  <2>3. ~Logging'
    BY <2>1, <2>2 DEF Logging
  <2>4. Run!BeginTask
    BY <1>2, <1>3, <2>1, <2>3, SameGraph DEF Run!BeginTask
  <2> QED
    BY <2>4 DEF Run!Next
<1>4. CASE LoseContext(Observed) /\ events' = events
  <2>1. run'[Observed] = ContextFailed(r) /\ r.node = "streaming"
    BY <1>4, ObservedAssumption DEF LoseContext, Streaming, IInv, Shape
  <2>2. ContextFailed(r).node = "error"
    BY <1>1 DEF ContextFailed, AnyRun
  <2>3. ~Logging'
    BY <2>1, <2>2 DEF Logging
  <2>4. Run!LoseContext
    BY <1>2, <1>4, <2>1, <2>3, SameGraph DEF Run!LoseContext
  <2> QED
    BY <2>4 DEF Run!Next
<1>5. CASE FailTask(Observed) /\ Tells(Observed, StateToEvent(run'[Observed]))
  <2> PICK w \in BOOLEAN : Becomes(Observed, TaskFailed(r, w))
    BY <1>5 DEF FailTask
  <2>1. run'[Observed] = TaskFailed(r, w) /\ r.node = "streaming"
    BY <1>5, ObservedAssumption DEF FailTask, Becomes, Streaming, IInv, Shape
  <2>2. TaskFailed(r, w).node \notin Middle
    BY <1>1, <2>1, NodesLeave
  <2>3. Between(run[Observed])' = TaskFailed(r, w)
    BY <2>1, <2>2 DEF Between, Middle
  <2>4. ToldSoFar' = events'
    BY <2>1, <2>2 DEF ToldSoFar, Logging, Middle
  <2>5. events' = events \o StateToEvent(TaskFailed(r, w))
    BY <1>5, <2>1 DEF Tells
  <2>6. Run!Becomes(TaskFailed(r, w))
    BY <1>2, <2>3, <2>4, <2>5, BecomesInRun
  <2>7. Run!FailTask
    BY <1>2, <2>1, <2>6, SameGraph DEF Run!FailTask
  <2> QED
    BY <2>7 DEF Run!Next
<1> QED
  BY <1>3, <1>4, <1>5

LEMMA TellsSeq ==
    ASSUME LastTold, NEW h, NEW told \in Seq(Tellings), Tells(h, told)
    PROVE  events' \in Seq(Tellings)
BY ConcatProperties DEF LastTold, Tells

\* The end of a turn is told when its text is, one step before the end of the
\* task: in the run's own description nothing has happened yet.
LEMMA HandOverInRun ==
    ASSUME IInv, LastTold, HandOver(Observed), Tells(Observed, <<TurnOver(Observed)>>)
    PROVE  LastTold' /\ UNCHANGED Run!vars
<1> DEFINE r == run[Observed]
           e == TurnOver(Observed)
<1>1. GoodRun(r, turns[Observed]) /\ r \in AnyRun /\ r.node = "streaming"
  BY ObservedAssumption DEF IInv, Shape, RunsGood, HandOver, Streaming
<1>2. run'[Observed] = [r EXCEPT !.node = "logging"]
  BY ObservedAssumption DEF HandOver, IInv, Shape
<1>3. Logging' /\ ~Logging
  BY <1>1, <1>2 DEF Logging, AnyRun
<1>4. r.active \in Names
  BY <1>1 DEF GoodRun, Named
<1>5. e \in Tellings
  BY <1>4, GraphAssumption DEF TurnOver, Event, Tellings, MaybeName
<1>6. run'[Observed].active = r.active
  BY <1>1, <1>2 DEF AnyRun
<1>7. TurnOver(Observed)' = e
  BY <1>6 DEF TurnOver, Event
<1>8. events \in Seq(Tellings) /\ events' = Append(events, e)
  <2>1. events \in Seq(Tellings) /\ events' = events \o <<e>>
    BY DEF LastTold, Tells
  <2> QED
    BY <1>5, <2>1, AppendIsConcat
<1> HIDE DEF e
<1>9. events' \in Seq(Tellings)
  BY <1>5, <1>8, AppendProperties
<1>10. LastTold'
  BY <1>7, <1>8, <1>9 DEF LastTold
<1>11. SubSeq(events', 1, Len(events') - 1) = events
  BY <1>5, <1>8, FrontOfAppend
<1>12. [run'[Observed] EXCEPT !.node = "streaming"] = r
  BY <1>1, <1>2 DEF AnyRun
<1>13. UNCHANGED Run!vars
  BY <1>3, <1>11, <1>12 DEF Run!vars
<1> QED
  BY <1>10, <1>13

\* What becomes of a turn does not depend on where run_task is.
LEMMA SameTask ==
    ASSUME NEW r \in AnyRun
    PROVE  /\ \A o : TaskDone(Between(r), o) = TaskDone(r, o)
           /\ \A w : TaskFailed(Between(r), w) = TaskFailed(r, w)
           /\ Between(r).active = r.active
<1>1. CASE r.node = "logging"
  <2> DEFINE b == [r EXCEPT !.node = "streaming"]
  <2>1. Between(r) = b
    BY <1>1 DEF Between
  <2>2. b.active = r.active
    BY DEF AnyRun
  <2>3. \A n : Goto(b, n) = Goto(r, n)
    BY DEF Goto, AnyRun
  <2> HIDE DEF b
  <2> QED
    BY <2>1, <2>2, <2>3 DEF TaskDone, TaskFailed
<1>2. CASE r.node # "logging"
  BY <1>2 DEF Between
<1> QED
  BY <1>1, <1>2

\* The end of a task is the step in which the run's own description tells the
\* end of the turn as well.
LEMMA EndTaskInRun ==
    ASSUME IInv, LastTold, EndTask(Observed), Tells(Observed, StateToEvent(run'[Observed]))
    PROVE  Run!Next
<1> DEFINE r == run[Observed]
<1>1. GoodRun(r, turns[Observed]) /\ r \in AnyRun /\ r.node = "logging"
  BY ObservedAssumption DEF IInv, Shape, RunsGood, EndTask
<1>2. Logging
  BY <1>1 DEF Logging
<1>3. PICK front \in Seq(Tellings) : events = Append(front, TurnOver(Observed))
  BY <1>2 DEF LastTold
<1>4. TurnOver(Observed) \in Tellings
  BY <1>1, GraphAssumption DEF TurnOver, Event, Tellings, MaybeName, GoodRun, Named
<1>5. ToldSoFar = front
  BY <1>2, <1>3, <1>4, FrontOfAppend DEF ToldSoFar
<1>6. events = front \o <<TurnOver(Observed)>>
  BY <1>3, <1>4, AppendIsConcat
<1>7. Between(r) = [r EXCEPT !.node = "streaming"] /\ Between(r).node = "streaming"
  BY <1>1 DEF Between, AnyRun
<1>8. ASSUME NEW u, Becomes(Observed, u), u.node \notin Middle
      PROVE  Run!BecomesAfterTurn(u)
  <2>1. run'[Observed] = u
    BY <1>8, ObservedAssumption DEF Becomes, IInv, Shape
  <2>2. (IF Logging THEN [run[Observed] EXCEPT !.node = "streaming"]
         ELSE run[Observed])' = u
    BY <1>8, <2>1 DEF Logging, Middle
  <2>3. ToldSoFar' = events \o StateToEvent(u)
    BY <1>8, <2>1 DEF ToldSoFar, Logging, Middle, Tells
  <2>4. ToldSoFar' = ToldSoFar \o <<Run!Event("agent_stream_end", AgentOf[r.active], None)>>
                               \o Run!StateToEvent(u)
    BY <1>5, <1>6, <2>3, SameGraph DEF TurnOver, Event, Run!Event
  <2>5. (IF Logging THEN [run[Observed] EXCEPT !.node = "streaming"]
         ELSE run[Observed]).active = r.active
    BY <1>1, <1>2, SameTask DEF Between
  <2> QED
    BY <2>2, <2>4, <2>5 DEF Run!BecomesAfterTurn, ToldSoFar
<1>9. ASSUME NEW o \in Answers, Becomes(Observed, TaskDone(r, o))
      PROVE  Run!Next
  <2>1. o \in Outcomes /\ o \in Run!Outcomes
    BY OrchestrationAssumption DEF Outcomes, Run!Outcomes, MaybeName, Run!MaybeName
  <2>2. Run!BecomesAfterTurn(TaskDone(r, o))
    BY <1>1, <1>8, <1>9, <2>1, NodesLeave
  <2>3. TaskDone(r, o) = Run!TaskDone(Between(r), o)
    BY <1>1, SameTask, SameGraph
  <2>4. Run!BecomesAfterTurn(Run!TaskDone(Between(r), o))
    BY <2>2, <2>3
  <2>5. Run!FinishTask
    BY <1>2, <1>7, <2>1, <2>4 DEF Run!FinishTask
  <2> QED
    BY <2>5 DEF Run!Next
<1>10. ASSUME NEW w \in BOOLEAN, Becomes(Observed, TaskFailed(r, w))
       PROVE  Run!Next
  <2>1. Run!BecomesAfterTurn(TaskFailed(r, w))
    BY <1>1, <1>8, <1>10, NodesLeave
  <2>2. TaskFailed(r, w) = Run!TaskFailed(Between(r), w)
    BY <1>1, SameTask, SameGraph
  <2>3. Run!BecomesAfterTurn(Run!TaskFailed(Between(r), w))
    BY <2>1, <2>2
  <2>4. Run!FailLogging
    BY <1>2, <1>7, <2>3 DEF Run!FailLogging
  <2> QED
    BY <2>4 DEF Run!Next
<1> QED
  BY <1>9, <1>10 DEF EndTask

\* A step of the run's own description or none.
RunStep == Run!Next \/ UNCHANGED Run!vars

\* The steps of the other messages, and those that tell nothing and leave the
\* graph where it is.
LEMMA SameRun ==
    ASSUME LastTold, run'[Observed] = run[Observed], events' = events
    PROVE  LastTold' /\ UNCHANGED Run!vars
<1>1. LastTold'
  BY DEF LastTold, Logging, TurnOver, Event
<1>2. UNCHANGED Run!vars
  BY DEF Run!vars, Logging
<1> QED
  BY <1>1, <1>2

\* After a node the run is not logging.
LEMMA NodeToldLast ==
    ASSUME IInv, LastTold, NEW h \in Handlers, Node(h) \/ FailTask(h) \/ EndTask(h),
           Tells(h, StateToEvent(run'[h])), IInv', h = Observed
    PROVE  LastTold'
<1>1. PICK r : Becomes(h, r) /\ r.node \notin Middle
  BY LeavesStreaming
<1>2. run'[h] = r
  BY <1>1 DEF Becomes, IInv, Shape
<1>3. r \in AnyRun
  BY <1>2 DEF IInv, Shape
<1>4. ~Logging'
  BY <1>1, <1>2 DEF Logging, Middle
<1>5. events' \in Seq(Tellings)
  BY <1>2, <1>3, EventsTelling, TellsSeq
<1> QED
  BY <1>4, <1>5 DEF LastTold

\* Whatever happens in the gateway, the observed run makes a step of its graph
\* or none.
LEMMA RunSteps ==
    ASSUME IInv, IInv', LastTold, [RunsNext]_<<vars, events>>
    PROVE  LastTold' /\ RunStep
<1>1. CASE UNCHANGED <<vars, events>>
  BY <1>1, SameRun DEF vars, RunStep
<1>2. ASSUME NEW h \in Handlers, h # Observed,
             \/ (Node(h) \/ FailTask(h) \/ EndTask(h)) /\ Tells(h, StateToEvent(run'[h]))
             \/ HandOver(h) /\ Tells(h, <<TurnOver(h)>>)
             \/ (Start(h) \/ BeginTask(h) \/ LoseContext(h) \/ FinishRun(h) \/ Loop(h))
                /\ UNCHANGED events
      PROVE  LastTold' /\ RunStep
  <2>1. events' = events
    BY <1>2 DEF Tells
  <2>2. run'[Observed] = run[Observed]
    <3>1. CASE Node(h) \/ FailTask(h) \/ EndTask(h)
      BY <1>2, <3>1, ObservedAssumption, LeavesStreaming DEF Becomes, IInv, Shape
    <3>2. CASE BeginTask(h) \/ LoseContext(h) \/ HandOver(h)
      BY <1>2, <3>2, ObservedAssumption DEF BeginTask, LoseContext, HandOver, IInv, Shape
    <3>3. CASE Start(h) \/ FinishRun(h) \/ Loop(h)
      BY <3>3 DEF Start, FinishRun, Loop, Take, Wait, Stop, Mirror, MirrorFails
    <3> QED
      BY <1>2, <3>1, <3>2, <3>3
  <2> QED
    BY <2>1, <2>2, SameRun DEF RunStep
<1>3. CASE (Node(Observed) \/ FailTask(Observed) \/ EndTask(Observed))
           /\ Tells(Observed, StateToEvent(run'[Observed]))
  BY <1>3, ObservedAssumption, NodeToldLast, NodeInRun, TaskInRun, EndTaskInRun DEF RunStep
<1>4. CASE HandOver(Observed) /\ Tells(Observed, <<TurnOver(Observed)>>)
  BY <1>4, HandOverInRun DEF RunStep
<1>5. CASE (BeginTask(Observed) \/ LoseContext(Observed)) /\ UNCHANGED events
  <2>1. Run!Next
    BY <1>5, TaskInRun
  <2>2. run'[Observed] = TaskBegun(run[Observed]) \/ run'[Observed] = ContextFailed(run[Observed])
    BY <1>5, ObservedAssumption DEF BeginTask, LoseContext, IInv, Shape
  <2>3. run[Observed] \in AnyRun
    BY ObservedAssumption DEF IInv, Shape
  <2>4. ~Logging'
    BY <2>2, <2>3 DEF Logging, TaskBegun, ContextFailed, AnyRun
  <2>5. LastTold'
    BY <1>5, <2>4 DEF LastTold
  <2> QED
    BY <2>1, <2>5 DEF RunStep
<1>6. CASE (Start(Observed) \/ FinishRun(Observed) \/ Loop(Observed)) /\ UNCHANGED events
  <2>1. run'[Observed] = run[Observed]
    BY <1>6 DEF Start, FinishRun, Loop, Take, Wait, Stop, Mirror, MirrorFails
  <2> QED
    BY <1>6, <2>1, SameRun DEF RunStep
<1>7. CASE RunsNext
  <2>1. PICK h \in Handlers :
           \/ (Node(h) \/ FailTask(h) \/ EndTask(h)) /\ Tells(h, StateToEvent(run'[h]))
           \/ HandOver(h) /\ Tells(h, <<TurnOver(h)>>)
           \/ (Start(h) \/ BeginTask(h) \/ LoseContext(h) \/ FinishRun(h) \/ Loop(h))
              /\ UNCHANGED events
    BY <1>7 DEF RunsNext
  <2>2. CASE h # Observed
    BY <1>2, <2>1, <2>2
  <2>3. CASE h = Observed
    BY <1>3, <1>4, <1>5, <1>6, <2>1, <2>3
  <2> QED
    BY <2>2, <2>3
<1> QED
  BY <1>1, <1>7

\* The history adds nothing to what the messages may do.
LEMMA RunsAreRuns == RunsSpec => Spec
<1>1. RunsInit => Init
  BY DEF RunsInit
<1>2. [RunsNext]_<<vars, events>> => [Next]_vars
  BY DEF RunsNext, Next, Background, vars
<1> QED
  BY <1>1, <1>2, PTL DEF RunsSpec, Spec

\* The run of one message among any number that share the compiled graph and
\* the service is a run of the graph on its own (WorkflowRun, for a message
\* that mentions nobody): the others make none of its steps and undo none.
THEOREM RunKept == RunsSpec => Run!Spec
<1>1. RunsInit => LastTold /\ Run!Init
  <2> SUFFICES ASSUME RunsInit PROVE LastTold /\ Run!Init
    OBVIOUS
  <2>1. run[Observed] = NewRun /\ events = <<>>
    BY ObservedAssumption DEF RunsInit, Init
  <2>2. ~Logging
    BY <2>1 DEF Logging, NewRun
  <2>3. <<>> \in Run!Messages
    <3>1. <<>> \in [1 .. 0 -> Names]
      OBVIOUS
    <3> QED
      BY <3>1 DEF Run!Messages
  <2>4. NewRun = Run!NewRun
    BY DEF NewRun, Run!NewRun, NoResult, Run!NoResult
  <2>5. events \in Seq(Tellings)
    BY <2>1
  <2> QED
    BY <2>1, <2>2, <2>3, <2>4, <2>5 DEF LastTold, Run!Init
<1>2. IInv /\ IInv' /\ LastTold /\ [RunsNext]_<<vars, events>> =>
        LastTold' /\ [Run!Next]_(Run!vars)
  BY RunSteps DEF RunStep
<1>3. RunsSpec => []IInv
  BY RunsAreRuns, Invariant, PTL
<1> QED
  BY <1>1, <1>2, <1>3, PTL DEF RunsSpec, Run!Spec

\* A message on the shared service behaves as one that has the service to
\* itself, but for what its queue is given: its run keeps to the graph, its
\* queue to what streamExecute promises.
THEOREM EachOnItsOwn == RunsSpec => OnItsOwn
BY RunKept, StreamKept, RunsAreRuns, PTL DEF OnItsOwn

\* What is proved of a run on its own, for the run of the observed message.
Every == INSTANCE WorkflowRunProofs WITH
    MaxMentions <- 0,
    mentions <- <<>>,
    run <- IF Logging THEN [run[Observed] EXCEPT !.node = "streaming"]
           ELSE run[Observed],
    events <- IF Logging THEN SubSeq(events, 1, Len(events) - 1) ELSE events

\* Run and Every are the same description of the same run.
LEMMA SameDescription ==
    /\ Run!Init <=> Every!Init
    /\ [Run!Next]_(Run!vars) <=> [Every!Next]_(Every!vars)
<1>1. Run!Init <=> Every!Init
  BY DEF Run!Init, Every!Init, Run!Messages, Every!Messages, Run!NewRun, Every!NewRun,
         Run!NoResult, Every!NoResult
<1>2. /\ \A r : Run!Becomes(r) <=> Every!Becomes(r)
      /\ \A r : Run!BecomesAfterTurn(r) <=> Every!BecomesAfterTurn(r)
  BY DEF Run!Becomes, Every!Becomes, Run!BecomesAfterTurn, Every!BecomesAfterTurn,
         Run!StateToEvent, Every!StateToEvent, Run!Event, Every!Event,
         Run!NoResult, Every!NoResult
<1>3. /\ Run!DoHydrate <=> Every!DoHydrate
      /\ Run!DoRoute <=> Every!DoRoute
      /\ Run!RefuseTask <=> Every!RefuseTask
      /\ Run!BeginTask <=> Every!BeginTask
      /\ Run!LoseContext <=> Every!LoseContext
  BY <1>2 DEF Run!DoHydrate, Every!DoHydrate, Run!Hydrate, Every!Hydrate, Run!Goto, Every!Goto,
     Run!DoRoute, Every!DoRoute, Run!RouteMessage, Every!RouteMessage,
     Run!PlanMentions, Every!PlanMentions, Run!RefuseTask, Every!RefuseTask,
     Run!Refuses, Every!Refuses, Run!TaskRefused, Every!TaskRefused,
     Run!BeginTask, Every!BeginTask, Run!TaskBegun, Every!TaskBegun,
     Run!LoseContext, Every!LoseContext, Run!ContextFailed, Every!ContextFailed
<1>4. /\ Run!FinishTask <=> Every!FinishTask
      /\ Run!FailTask <=> Every!FailTask
      /\ Run!FailLogging <=> Every!FailLogging
  BY <1>2 DEF Run!FinishTask, Every!FinishTask, Run!TaskDone, Every!TaskDone,
     Run!FailTask, Every!FailTask, Run!TaskFailed, Every!TaskFailed,
     Run!FailLogging, Every!FailLogging, Run!Goto, Every!Goto,
     Run!Outcomes, Every!Outcomes, Run!MaybeName, Every!MaybeName,
     Run!NoResult, Every!NoResult
<1>5. /\ Run!DoCheckOutput <=> Every!DoCheckOutput
      /\ Run!DoAwaitReview <=> Every!DoAwaitReview
      /\ Run!DoRouteAgent <=> Every!DoRouteAgent
      /\ Run!DoHandleError <=> Every!DoHandleError
  BY <1>2 DEF Run!DoCheckOutput, Every!DoCheckOutput, Run!CheckOutput, Every!CheckOutput,
     Run!DoAwaitReview, Every!DoAwaitReview, Run!AwaitReview, Every!AwaitReview,
     Run!DoRouteAgent, Every!DoRouteAgent, Run!RouteAgent, Every!RouteAgent,
     Run!DoHandleError, Every!DoHandleError, Run!HandleError, Every!HandleError,
     Run!Goto, Every!Goto, Run!NoResult, Every!NoResult
<1>6. Run!Next <=> Every!Next
  BY <1>3, <1>4, <1>5 DEF Run!Next, Every!Next
<1>7. UNCHANGED Run!vars <=> UNCHANGED Every!vars
  BY DEF Run!vars, Every!vars
<1> QED
  BY <1>1, <1>6, <1>7

LEMMA SamePromises ==
    /\ Run!CompleteIsLast <=> Every!CompleteIsLast
    /\ Run!TurnsAnnounced <=> Every!TurnsAnnounced
    /\ Run!NoTurnAfterFailure <=> Every!NoTurnAfterFailure
    /\ Run!ReviewIsTold <=> Every!ReviewIsTold
    /\ Run!EndIsAnnounced <=> Every!EndIsAnnounced
    /\ Run!TurnsAreBounded <=> Every!TurnsAreBounded
<1>1. Run!Turns = Every!Turns
  BY DEF Run!Turns, Every!Turns, Run!Is, Every!Is
<1>2. \A i, type : Run!Is(i, type) <=> Every!Is(i, type)
  BY DEF Run!Is, Every!Is
<1>3. Run!CompleteIsLast <=> Every!CompleteIsLast
  BY DEF Run!CompleteIsLast, Every!CompleteIsLast, Run!Turns, Every!Turns, Run!Is, Every!Is
<1>4. Run!TurnsAnnounced <=> Every!TurnsAnnounced
  BY DEF Run!TurnsAnnounced, Every!TurnsAnnounced, Run!Turns, Every!Turns, Run!Is, Every!Is
<1>5. Run!NoTurnAfterFailure <=> Every!NoTurnAfterFailure
  BY <1>1, <1>2 DEF Run!NoTurnAfterFailure, Every!NoTurnAfterFailure
<1>6. Run!ReviewIsTold <=> Every!ReviewIsTold
  BY <1>1, <1>2 DEF Run!ReviewIsTold, Every!ReviewIsTold
<1>7. Run!EndIsAnnounced <=> Every!EndIsAnnounced
  BY <1>2 DEF Run!EndIsAnnounced, Every!EndIsAnnounced
<1>8. Run!TurnsAreBounded <=> Every!TurnsAreBounded
  BY <1>1 DEF Run!TurnsAreBounded, Every!TurnsAreBounded, Run!Cardinality, Every!Cardinality
<1> QED
  BY <1>3, <1>4, <1>5, <1>6, <1>7, <1>8

\* The safety properties of WorkflowRun.
Promises ==
    /\ Run!CompleteIsLast
    /\ Run!TurnsAnnounced
    /\ Run!NoTurnAfterFailure
    /\ Run!ReviewIsTold
    /\ Run!EndIsAnnounced
    /\ Run!TurnsAreBounded

\* What the events of a run promise its client holds of every message among
\* others: one "complete", last and by the last agent; a task_start before
\* each turn's end; no turn after a failure; a review told before the next
\* agent starts; no silent end; at most a third of the recursion limit in
\* turns.  The events are those the run tells, to whatever hooks.
THEOREM PromisesKept == RunsSpec => []Promises
<1>1. RunsSpec => Every!Spec
  BY RunKept, SameDescription, PTL DEF Run!Spec, Every!Spec
<1>2. Every!Spec => [](/\ Every!CompleteIsLast /\ Every!TurnsAnnounced
                       /\ Every!NoTurnAfterFailure /\ Every!ReviewIsTold
                       /\ Every!EndIsAnnounced /\ Every!TurnsAreBounded)
  BY GraphAssumption, Every!CompletesOnce, Every!Announces, Every!StopsOnFailure,
     Every!TellsReviews, Every!EndsAnnounced, Every!BoundsTurns, PTL
<1> QED
  BY <1>1, <1>2, SamePromises, PTL DEF Promises
=============================================================================

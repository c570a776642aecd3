------------------------- MODULE WorkflowRunProofs -------------------------
(***************************************************************************)
(* What a client is told of a run fits what happened, for any adapters,    *)
(* names, messages and outcomes of turns, and any recursion limit.  Each   *)
(* node keeps Story, which relates the state of the run to the events that *)
(* have been sent.                                                         *)
(***************************************************************************)
EXTENDS WorkflowRun, FiniteSetTheorems, TLAPS

EventTypes == {"task_start", "agent_stream_end", "complete", "needs_review",
               "needs_decision", "handoff"}
Notes == [type : EventTypes, who : Agents \union Names \union {None}, to : MaybeName]

Nodes == {"hydrate", "route", "run_task", "streaming", "check_output",
          "await_review", "route_agent", "handle_error", "end", "error"}
Statuses == {"routing", "running", "handoff", "awaiting_review", "completed", "failed"}

Latest(ev) == ev[Len(ev)]
LatestIs(ev, type) == ev # <<>> /\ Latest(ev).type = type

TurnsOf(ev) == {i \in 1 .. Len(ev) : ev[i].type = "agent_stream_end"}

Announced(ev) ==
    /\ \A i \in TurnsOf(ev) :
         \E j \in 1 .. i - 1 :
            /\ ev[j].type = "task_start" /\ AgentOf[ev[j].who] = ev[i].who
            /\ \A k \in j + 1 .. i - 1 : ev[k].type # "task_start" /\ k \notin TurnsOf(ev)
    /\ \A i \in 1 .. Len(ev) - 1 :
         ev[i].type = "handoff" => ev[i + 1].type = "task_start" /\ ev[i + 1].who = ev[i].to

HasFailed(ev) == \E i \in 1 .. Len(ev) : ev[i].type = "needs_decision"

Decided(ev) ==
    \A i \in 1 .. Len(ev) : ev[i].type = "needs_decision" => \A j \in TurnsOf(ev) : j < i

ReviewSent(ev) ==
    \E i \in 1 .. Len(ev) : ev[i].type = "needs_review" /\ \A j \in TurnsOf(ev) : j < i

\* The task that was started last, of agent a, has ended or failed.
Closed(ev, a) ==
    \E j \in 1 .. Len(ev) - 1 :
       /\ ev[j].type = "task_start" /\ AgentOf[ev[j].who] = a
       /\ \A k \in j + 1 .. Len(ev) : ev[k].type \in {"agent_stream_end", "needs_decision"}

CompleteAt(ev, i) ==
    /\ i = Len(ev)
    /\ \E j \in 1 .. i - 2 :
          /\ ev[j].type = "task_start" /\ AgentOf[ev[j].who] = ev[i].who
          /\ \A k \in j + 1 .. i - 1 : ev[k].type \in {"agent_stream_end", "needs_decision"}

\* A turn costs three supersteps: run_task, check_output and route_agent.
StepsCover(r, t) ==
    /\ 3 * t <= RecursionLimit
    /\ ~Over(r) => r.steps < RecursionLimit
    /\ r.node \in {"hydrate", "route"} => t = 0
    /\ r.node = "route" => 1 <= r.steps
    /\ r.node \in {"run_task", "streaming"} => 3 * t + 2 <= r.steps
    /\ r.node = "check_output" => 3 * t <= r.steps
    /\ r.node \in {"await_review", "route_agent", "handle_error"} => 3 * t + 1 <= r.steps

\* What the next node may rely on.
Shape(r, ev) ==
    /\ r.node = "hydrate" => r.status = "routing"
    /\ r.node = "await_review" => r.status = "awaiting_review"
    /\ r.node \in {"hydrate", "route"} => ev = <<>>
    /\ r.node \in {"hydrate", "route", "run_task", "streaming"} => r.result = NoResult
    /\ r.node = "streaming" => r.active \in Names /\ AgentOf[r.active] \in Agents
    /\ r.node \in {"run_task", "streaming"} /\ r.active # None =>
            LatestIs(ev, "task_start") /\ Latest(ev).who = r.active
    /\ r.result.failed => r.result.handoff = None /\ ~r.result.review
    /\ r.node = "check_output" /\ r.result = NoResult => LatestIs(ev, "needs_decision")
    /\ r.node = "check_output" /\ r.result # NoResult => Closed(ev, r.result.agent)

\* What is in flight between two nodes, and how it ends.
Course(r, ev) ==
    /\ LatestIs(ev, "handoff") =>
            Over(r) \/ (r.node = "route_agent" /\ r.handoff = Latest(ev).to /\ r.handoff # None)
    /\ HasFailed(ev) =>
            \/ Over(r)
            \/ r.node = "check_output" /\ r.result.handoff = None /\ ~r.result.review
            \/ r.node \in {"handle_error", "await_review", "route_agent"} /\ r.handoff = None
            \/ r.node = "run_task" /\ r.active = None
    /\ \A i \in 1 .. Len(ev) : ev[i].type = "complete" => r.node = "end" /\ CompleteAt(ev, i)
    /\ r.result.review /\ r.node \notin {"check_output", "error"} => ReviewSent(ev)
    /\ r.node = "end" => LatestIs(ev, "complete") \/ LatestIs(ev, "needs_decision")

Story(r, ev) ==
    /\ r \in Runs /\ ev \in Seq(Notes)
    /\ StepsCover(r, Cardinality(TurnsOf(ev)))
    /\ Announced(ev) /\ Decided(ev)
    /\ Shape(r, ev) /\ Course(r, ev)
-----------------------------------------------------------------------------
(***************************************************************************)
(* Events.                                                                 *)
(***************************************************************************)
LEMMA TurnsFinite ==
    ASSUME NEW ev \in Seq(Notes)
    PROVE  /\ IsFiniteSet(TurnsOf(ev)) /\ Cardinality(TurnsOf(ev)) \in Nat
           /\ TurnsOf(ev) \subseteq 1 .. Len(ev)
<1>1. Len(ev) \in Nat
  OBVIOUS
<1>2. IsFiniteSet(1 .. Len(ev))
  BY <1>1, FS_Interval
<1>3. TurnsOf(ev) \subseteq 1 .. Len(ev)
  BY DEF TurnsOf
<1>4. IsFiniteSet(TurnsOf(ev))
  BY <1>2, <1>3, FS_Subset
<1> QED
  BY <1>3, <1>4, FS_CardinalityType

LEMMA Sent ==
    ASSUME NEW ev \in Seq(Notes), NEW e \in Notes
    PROVE  LET s == ev \o <<e>>
           IN  /\ s \in Seq(Notes) /\ Len(s) = Len(ev) + 1 /\ Len(ev) \in Nat
               /\ s # <<>> /\ Latest(s) = e /\ s[Len(ev) + 1] = e
               /\ \A i \in 1 .. Len(ev) : s[i] = ev[i]
  BY DEF Latest

\* Any event but the end of a turn.
LEMMA OtherSent ==
    ASSUME NEW ev \in Seq(Notes), NEW e \in Notes, e.type # "agent_stream_end",
           Announced(ev), Decided(ev),
           LatestIs(ev, "handoff") => e.type = "task_start" /\ e.who = Latest(ev).to
    PROVE  LET s == ev \o <<e>>
           IN TurnsOf(s) = TurnsOf(ev) /\ Announced(s) /\ Decided(s)
<1> DEFINE s == ev \o <<e>>
<1>1. /\ s \in Seq(Notes) /\ Len(s) = Len(ev) + 1 /\ Len(ev) \in Nat
      /\ s[Len(ev) + 1] = e /\ \A i \in 1 .. Len(ev) : s[i] = ev[i]
  BY Sent
<1> HIDE DEF s
<1>2. TurnsOf(s) = TurnsOf(ev)
  BY <1>1 DEF TurnsOf
<1>3. \A i \in TurnsOf(ev) : i \in 1 .. Len(ev)
  BY DEF TurnsOf
<1>4. Announced(s)
  <2>1. ASSUME NEW i \in TurnsOf(s)
        PROVE  \E j \in 1 .. i - 1 :
                 /\ s[j].type = "task_start" /\ AgentOf[s[j].who] = s[i].who
                 /\ \A k \in j + 1 .. i - 1 : s[k].type # "task_start" /\ k \notin TurnsOf(s)
    <3>1. i \in 1 .. Len(ev) /\ i \in TurnsOf(ev)
      BY <1>2, <1>3
    <3>2. PICK j \in 1 .. i - 1 :
                 /\ ev[j].type = "task_start" /\ AgentOf[ev[j].who] = ev[i].who
                 /\ \A k \in j + 1 .. i - 1 : ev[k].type # "task_start" /\ k \notin TurnsOf(ev)
      BY <3>1 DEF Announced
    <3>3. j \in 1 .. Len(ev) /\ \A k \in j + 1 .. i - 1 : k \in 1 .. Len(ev)
      BY <1>1, <3>1
    <3>4. s[j].type = "task_start" /\ AgentOf[s[j].who] = s[i].who
      BY <1>1, <3>1, <3>2, <3>3
    <3>5. ASSUME NEW k \in j + 1 .. i - 1 PROVE s[k].type # "task_start" /\ k \notin TurnsOf(s)
      <4>1. s[k] = ev[k]
        BY <1>1, <3>3
      <4> QED
        BY <1>2, <3>2, <4>1
    <3> QED
      BY <3>4, <3>5
  <2>2. ASSUME NEW i \in 1 .. Len(s) - 1, s[i].type = "handoff"
        PROVE  s[i + 1].type = "task_start" /\ s[i + 1].who = s[i].to
    <3>1. CASE i = Len(ev)
      BY <1>1, <2>2, <3>1 DEF LatestIs, Latest
    <3>2. CASE i # Len(ev)
      <4>1. i \in 1 .. Len(ev) - 1 /\ s[i] = ev[i] /\ s[i + 1] = ev[i + 1]
        BY <1>1, <3>2
      <4> QED
        BY <2>2, <4>1 DEF Announced
    <3> QED
      BY <3>1, <3>2
  <2> QED
    BY <2>1, <2>2 DEF Announced
<1>5. Decided(s)
  BY <1>1, <1>2, <1>3 DEF Decided
<1> QED
  BY <1>2, <1>4, <1>5 DEF s

\* The end of the turn that was announced last.
LEMMA TurnSent ==
    ASSUME NEW ev \in Seq(Notes), NEW e \in Notes, e.type = "agent_stream_end",
           Announced(ev), ~HasFailed(ev),
           LatestIs(ev, "task_start"), e.who = AgentOf[Latest(ev).who]
    PROVE  LET s == ev \o <<e>>
           IN /\ TurnsOf(s) = TurnsOf(ev) \union {Len(ev) + 1}
              /\ Cardinality(TurnsOf(s)) = Cardinality(TurnsOf(ev)) + 1
              /\ Announced(s) /\ ~HasFailed(s)
<1> DEFINE s == ev \o <<e>>
<1>1. /\ s \in Seq(Notes) /\ Len(s) = Len(ev) + 1 /\ Len(ev) \in Nat
      /\ s[Len(ev) + 1] = e /\ \A i \in 1 .. Len(ev) : s[i] = ev[i]
  BY Sent
<1> HIDE DEF s
<1>2. TurnsOf(s) = TurnsOf(ev) \union {Len(ev) + 1}
  BY <1>1 DEF TurnsOf
<1>3. \A i \in TurnsOf(ev) : i \in 1 .. Len(ev)
  BY DEF TurnsOf
<1>4. Cardinality(TurnsOf(s)) = Cardinality(TurnsOf(ev)) + 1
  <2>1. Len(ev) + 1 \notin TurnsOf(ev)
    BY <1>1, <1>3
  <2>2. IsFiniteSet(TurnsOf(ev))
    BY TurnsFinite
  <2> QED
    BY <1>2, <2>1, <2>2, FS_AddElement
<1>5. Announced(s)
  <2>1. ASSUME NEW i \in TurnsOf(ev)
        PROVE  \E j \in 1 .. i - 1 :
                 /\ s[j].type = "task_start" /\ AgentOf[s[j].who] = s[i].who
                 /\ \A k \in j + 1 .. i - 1 : s[k].type # "task_start" /\ k \notin TurnsOf(s)
    <3>1. i \in 1 .. Len(ev)
      BY <1>3
    <3>2. PICK j \in 1 .. i - 1 :
                 /\ ev[j].type = "task_start" /\ AgentOf[ev[j].who] = ev[i].who
                 /\ \A k \in j + 1 .. i - 1 : ev[k].type # "task_start" /\ k \notin TurnsOf(ev)
      BY DEF Announced
    <3> QED
      BY <1>1, <1>2, <3>1, <3>2
  <2>2. \E j \in 1 .. (Len(ev) + 1) - 1 :
                 /\ s[j].type = "task_start" /\ AgentOf[s[j].who] = s[Len(ev) + 1].who
                 /\ \A k \in j + 1 .. (Len(ev) + 1) - 1 : s[k].type # "task_start" /\ k \notin TurnsOf(s)
    <3>1. Len(ev) \in 1 .. (Len(ev) + 1) - 1
      BY <1>1 DEF LatestIs
    <3> QED
      BY <1>1, <3>1 DEF LatestIs, Latest
  <2>3. ASSUME NEW i \in 1 .. Len(s) - 1, s[i].type = "handoff"
        PROVE  s[i + 1].type = "task_start" /\ s[i + 1].who = s[i].to
    <3>1. CASE i = Len(ev)
      BY <1>1, <2>3, <3>1 DEF LatestIs, Latest
    <3>2. CASE i # Len(ev)
      <4>1. i \in 1 .. Len(ev) - 1 /\ s[i] = ev[i] /\ s[i + 1] = ev[i + 1]
        BY <1>1, <3>2
      <4> QED
        BY <2>3, <4>1 DEF Announced
    <3> QED
      BY <3>1, <3>2
  <2> QED
    BY <1>2, <2>1, <2>2, <2>3 DEF Announced
<1>6. ~HasFailed(s)
  BY <1>1 DEF HasFailed
<1> QED
  BY <1>2, <1>4, <1>5, <1>6 DEF s
-----------------------------------------------------------------------------
(***************************************************************************)
(* Steps of the graph.                                                     *)
(***************************************************************************)
Moved(r, q, n) ==
    /\ q \in Runs /\ q.steps = r.steps + 1
    /\ q.node = IF n # "end" /\ r.steps + 1 = RecursionLimit THEN "error" ELSE n

LEMMA RunFields ==
    ASSUME NEW r \in Runs
    PROVE  /\ r.node \in Nodes /\ r.active \in MaybeName
           /\ r.handoff \in MaybeName /\ r.result \in Results
           /\ r.status \in Statuses /\ r.review \in BOOLEAN
           /\ r.error \in BOOLEAN /\ r.steps \in 0 .. RecursionLimit
           /\ r.steps \in Nat /\ RecursionLimit \in Nat
  BY GraphAssumption DEF Runs, Nodes, Statuses

LEMMA GotoMoves ==
    ASSUME NEW r \in Runs, r.steps < RecursionLimit, NEW n \in Nodes
    PROVE  /\ Moved(r, Goto(r, n), n)
           /\ Goto(r, n).active = r.active /\ Goto(r, n).handoff = r.handoff
           /\ Goto(r, n).result = r.result /\ Goto(r, n).status = r.status
           /\ Goto(r, n).review = r.review /\ Goto(r, n).error = r.error
<1>1. r.steps + 1 \in 0 .. RecursionLimit
  BY RunFields
<1> QED
  BY <1>1 DEF Goto, Moved, Runs, Nodes

\* Where a step leads, the limit of supersteps covers the turns.
LEMMA Covered ==
    ASSUME NEW r \in Runs, NEW q, NEW t \in Nat, StepsCover(r, t), ~Over(r),
           NEW n \in Nodes, Moved(r, q, n),
           \/ n = "route" /\ r.node = "hydrate"
           \/ n = "run_task" /\ r.node \in {"route", "route_agent"}
           \/ n = "check_output" /\ r.node \in {"run_task", "streaming"}
           \/ /\ n \in {"await_review", "route_agent", "handle_error"}
              /\ r.node \in {"check_output", "handle_error", "await_review"}
           \/ n = "end"
    PROVE  /\ StepsCover(q, t)
           /\ r.node = "streaming" => StepsCover(q, t + 1)
<1>1. r.steps \in Nat /\ RecursionLimit \in Nat
  BY RunFields
<1>2. q.steps = r.steps + 1 /\ q.node = IF n # "end" /\ r.steps + 1 = RecursionLimit THEN "error" ELSE n
  BY DEF Moved
<1>3. StepsCover(q, t)
  BY <1>1, <1>2 DEF StepsCover, Over
<1>4. CASE r.node = "streaming" /\ n = "check_output"
  BY <1>1, <1>2, <1>3, <1>4 DEF StepsCover, Over
<1>5. CASE r.node = "streaming" /\ n = "end"
  BY <1>1, <1>2, <1>3, <1>5 DEF StepsCover, Over
<1> QED
  BY <1>3, <1>4, <1>5

LEMMA StoryFacts ==
    ASSUME NEW r, NEW ev, Story(r, ev), ~Over(r)
    PROVE  /\ r \in Runs /\ r.steps < RecursionLimit
           /\ ev \in Seq(Notes) /\ Cardinality(TurnsOf(ev)) \in Nat
           /\ StepsCover(r, Cardinality(TurnsOf(ev)))
           /\ \A i \in 1 .. Len(ev) : ev[i].type # "complete"
  BY TurnsFinite DEF Story, StepsCover, Course, Over

\* Events by the status that a node leaves.
LEMMA EventOf ==
    ASSUME NEW q \in Runs
    PROVE  /\ q.status = "routing" => StateToEvent(q) = <<>>
           /\ q.status = "running" =>
                StateToEvent(q) = IF q.active # None /\ q.result = NoResult
                                  THEN <<Event("task_start", q.active, None)>> ELSE <<>>
           /\ q.status = "completed" =>
                StateToEvent(q) = IF q.result # NoResult
                                  THEN <<Event("complete", q.result.agent, None)>> ELSE <<>>
           /\ q.status = "awaiting_review" =>
                StateToEvent(q) = IF q.review THEN <<Event("needs_review", None, None)>> ELSE <<>>
           /\ q.status = "failed" =>
                StateToEvent(q) = IF q.error THEN <<Event("needs_decision", None, None)>> ELSE <<>>
           /\ q.status = "handoff" =>
                StateToEvent(q) = IF q.handoff # None /\ q.active # None
                                  THEN <<Event("handoff", q.active, q.handoff)>> ELSE <<>>
<1>1. q.status = "routing" => StateToEvent(q) = <<>>
  BY DEF StateToEvent
<1>2. q.status = "running" =>
                StateToEvent(q) = IF q.active # None /\ q.result = NoResult
                                  THEN <<Event("task_start", q.active, None)>> ELSE <<>>
  BY DEF StateToEvent
<1>3. q.status = "completed" =>
                StateToEvent(q) = IF q.result # NoResult
                                  THEN <<Event("complete", q.result.agent, None)>> ELSE <<>>
  BY DEF StateToEvent
<1>4. q.status = "awaiting_review" =>
                StateToEvent(q) = IF q.review THEN <<Event("needs_review", None, None)>> ELSE <<>>
  BY DEF StateToEvent
<1>5. q.status = "failed" =>
                StateToEvent(q) = IF q.error THEN <<Event("needs_decision", None, None)>> ELSE <<>>
  BY DEF StateToEvent
<1>6. q.status = "handoff" =>
                StateToEvent(q) = IF q.handoff # None /\ q.active # None
                                  THEN <<Event("handoff", q.active, q.handoff)>> ELSE <<>>
  BY DEF StateToEvent
<1> QED
  BY <1>1, <1>2, <1>3, <1>4, <1>5, <1>6

LEMMA IsNote ==
    ASSUME NEW type \in EventTypes, NEW who \in Agents \union Names \union {None}, NEW to \in MaybeName
    PROVE  /\ Event(type, who, to) \in Notes
           /\ Event(type, who, to).type = type /\ Event(type, who, to).who = who
           /\ Event(type, who, to).to = to
  BY DEF Event, Notes

LEMMA NothingSent == ASSUME NEW ev \in Seq(Notes) PROVE ev \o <<>> = ev
  OBVIOUS
-----------------------------------------------------------------------------
(***************************************************************************)
(* Nodes.                                                                  *)
(***************************************************************************)
LEMMA HydrateStory ==
    ASSUME NEW r, NEW ev, Story(r, ev), r.node = "hydrate"
    PROVE  Story(Hydrate(r), ev \o StateToEvent(Hydrate(r)))
<1> DEFINE q == Hydrate(r)
<1>1. ~Over(r) /\ r.status = "routing" /\ ev = <<>> /\ r.result = NoResult
  BY DEF Over, Story, Shape
<1>2. /\ r \in Runs /\ r.steps < RecursionLimit /\ ev \in Seq(Notes)
      /\ Cardinality(TurnsOf(ev)) \in Nat /\ StepsCover(r, Cardinality(TurnsOf(ev)))
  BY <1>1, StoryFacts
<1>3. Moved(r, q, "route") /\ q.status = "routing" /\ q.result = NoResult
  BY <1>1, <1>2, GotoMoves DEF Hydrate, Nodes
<1> HIDE DEF q
<1>4. q.node \in {"route", "error"} /\ q \in Runs
  BY <1>3 DEF Moved
<1>5. ev \o StateToEvent(q) = ev
  BY <1>2, <1>3, <1>4, EventOf, NothingSent
<1>6. StepsCover(q, Cardinality(TurnsOf(ev)))
  BY <1>1, <1>2, <1>3, Covered DEF Nodes
<1>7. Shape(q, ev)
  BY <1>1, <1>3, <1>4 DEF Shape, NoResult
<1>8. Course(q, ev)
  BY <1>1, <1>3, <1>4 DEF Course, LatestIs, HasFailed, NoResult
<1> QED
  BY <1>2, <1>4, <1>5, <1>6, <1>7, <1>8 DEF Story, q

\* A task starts: what RouteMessage and RouteAgent have in common.
LEMMA TaskStarts ==
    ASSUME NEW r, NEW ev, Story(r, ev), r.node \in {"route", "route_agent"},
           NEW q, Moved(r, q, "run_task"), q.status = "running", q.result = NoResult,
           HasFailed(ev) => q.active = None,
           LatestIs(ev, "handoff") => q.active = Latest(ev).to /\ q.active # None
    PROVE  Story(q, ev \o StateToEvent(q))
<1> DEFINE e == Event("task_start", q.active, None)
           s == ev \o StateToEvent(q)
<1>1. ~Over(r)
  BY DEF Over
<1>2. /\ r \in Runs /\ ev \in Seq(Notes)
      /\ Cardinality(TurnsOf(ev)) \in Nat /\ StepsCover(r, Cardinality(TurnsOf(ev)))
      /\ \A i \in 1 .. Len(ev) : ev[i].type # "complete"
  BY <1>1, StoryFacts
<1>3. q.node \in {"run_task", "error"} /\ q \in Runs /\ q.active \in MaybeName
  BY RunFields DEF Moved
<1>4. s = IF q.active # None THEN ev \o <<e>> ELSE ev
  BY <1>2, <1>3, EventOf, NothingSent
<1>5. e \in Notes /\ e.type = "task_start" /\ e.who = q.active
  BY <1>3, IsNote DEF EventTypes, MaybeName
<1>6. StepsCover(q, Cardinality(TurnsOf(ev)))
  BY <1>1, <1>2, Covered DEF Nodes
<1>7. Announced(ev) /\ Decided(ev)
  BY DEF Story
<1>8. ~q.result.failed /\ ~q.result.review
  BY DEF NoResult
<1> HIDE DEF e, s
<1>9. CASE q.active = None
  <2>1. s = ev
    BY <1>4, <1>9
  <2>2. Shape(q, ev)
    BY <1>3, <1>8, <1>9 DEF Shape
  <2>3. Course(q, ev)
    <3>1. ~LatestIs(ev, "handoff")
      BY <1>9
    <3>2. HasFailed(ev) => Over(q) \/ (q.node = "run_task" /\ q.active = None)
      BY <1>3, <1>9 DEF Over
    <3>3. q.node # "end"
      BY <1>3
    <3> QED
      BY <1>2, <1>8, <3>1, <3>2, <3>3 DEF Course
  <2> QED
    BY <1>2, <1>3, <1>6, <1>7, <2>1, <2>2, <2>3 DEF Story, s
<1>10. CASE q.active # None
  <2>1. s = ev \o <<e>> /\ ~HasFailed(ev)
    BY <1>4, <1>10
  <2>2. /\ s \in Seq(Notes) /\ Len(s) = Len(ev) + 1 /\ Len(ev) \in Nat /\ s # <<>>
        /\ Latest(s) = e /\ s[Len(ev) + 1] = e /\ \A i \in 1 .. Len(ev) : s[i] = ev[i]
    BY <1>2, <1>5, <2>1, Sent
  <2>3. TurnsOf(s) = TurnsOf(ev) /\ Announced(s) /\ Decided(s)
    BY <1>2, <1>5, <1>7, <2>1, OtherSent
  <2>4. Shape(q, s)
    BY <1>3, <1>5, <1>8, <2>2 DEF Shape, LatestIs
  <2>5. ~HasFailed(s) /\ \A i \in 1 .. Len(s) : s[i].type # "complete"
    BY <1>2, <1>5, <2>1, <2>2 DEF HasFailed
  <2>6. Course(q, s)
    BY <1>3, <1>5, <1>8, <2>2, <2>5 DEF Course, LatestIs
  <2> QED
    BY <1>3, <1>6, <2>2, <2>3, <2>4, <2>6 DEF Story, s
<1> QED
  BY <1>9, <1>10

LEMMA RouteMessageStory ==
    ASSUME NEW r, NEW ev, Story(r, ev), r.node = "route", NEW m \in Messages
    PROVE  Story(RouteMessage(r, m), ev \o StateToEvent(RouteMessage(r, m)))
<1> DEFINE g == Goto(r, "run_task")
           plan == PlanMentions(m)
           a == IF plan # <<>> THEN plan[Len(plan)] ELSE IF m # <<>> THEN Head(m) ELSE DefaultName
           q == [g EXCEPT !.active = a, !.status = "running"]
<1>1. ~Over(r) /\ ev = <<>> /\ r.result = NoResult
  BY DEF Over, Story, Shape
<1>2. r \in Runs /\ r.steps < RecursionLimit
  BY <1>1, StoryFacts
<1>3. a \in MaybeName
  <2>1. PICK n \in 0 .. MaxMentions : m \in [1 .. n -> Names]
    BY DEF Messages
  <2>2. m \in Seq(Names) /\ plan \in Seq(Names)
    BY <2>1 DEF PlanMentions
  <2> QED
    BY <2>2, GraphAssumption DEF MaybeName
<1>4. RouteMessage(r, m) = q
  BY DEF RouteMessage
<1>5. Moved(r, g, "run_task") /\ g.result = NoResult
  BY <1>1, <1>2, GotoMoves DEF Nodes
<1> HIDE DEF g, a
<1>6. Moved(r, q, "run_task") /\ q.result = NoResult /\ q.status = "running"
  BY <1>3, <1>5 DEF Moved, Runs
<1>7. ~HasFailed(ev) /\ ~LatestIs(ev, "handoff")
  BY <1>1 DEF HasFailed, LatestIs
<1> HIDE DEF q
<1> QED
  BY <1>4, <1>6, <1>7, TaskStarts

LEMMA RouteAgentStory ==
    ASSUME NEW r, NEW ev, Story(r, ev), r.node = "route_agent"
    PROVE  Story(RouteAgent(r), ev \o StateToEvent(RouteAgent(r)))
<1> DEFINE g == Goto(r, "run_task")
           q == [g EXCEPT !.active = r.handoff, !.handoff = None, !.result = NoResult,
                          !.status = "running", !.review = FALSE, !.error = FALSE]
<1>1. ~Over(r)
  BY DEF Over
<1>2. r \in Runs /\ r.steps < RecursionLimit
  BY <1>1, StoryFacts
<1>3. r.handoff \in MaybeName /\ None \in MaybeName /\ NoResult \in Results
  BY <1>2, RunFields DEF MaybeName, NoResult, Results
<1>4. RouteAgent(r) = q
  BY DEF RouteAgent
<1>5. Moved(r, g, "run_task")
  BY <1>2, GotoMoves DEF Nodes
<1> HIDE DEF g
<1>6. Moved(r, q, "run_task") /\ q.result = NoResult /\ q.status = "running" /\ q.active = r.handoff
  BY <1>3, <1>5 DEF Moved, Runs
<1>7. /\ HasFailed(ev) => r.handoff = None
      /\ LatestIs(ev, "handoff") => r.handoff = Latest(ev).to /\ r.handoff # None
  BY <1>1 DEF Story, Course
<1> HIDE DEF q
<1> QED
  BY <1>4, <1>6, <1>7, TaskStarts

LEMMA TaskRefusedStory ==
    ASSUME NEW r, NEW ev, Story(r, ev), r.node = "run_task"
    PROVE  Story(TaskRefused(r), ev \o StateToEvent(TaskRefused(r)))
<1> DEFINE g == Goto(r, "check_output")
           q == [g EXCEPT !.status = "failed", !.error = TRUE]
           e == Event("needs_decision", None, None)
           s == ev \o <<e>>
<1>1. ~Over(r) /\ r.result = NoResult /\ ~LatestIs(ev, "handoff") /\ Announced(ev) /\ Decided(ev)
  BY DEF Over, Story, Shape, Course
<1>2. /\ r \in Runs /\ r.steps < RecursionLimit /\ ev \in Seq(Notes)
      /\ Cardinality(TurnsOf(ev)) \in Nat /\ StepsCover(r, Cardinality(TurnsOf(ev)))
      /\ \A i \in 1 .. Len(ev) : ev[i].type # "complete"
  BY <1>1, StoryFacts
<1>3. TaskRefused(r) = q
  BY DEF TaskRefused
<1>4. Moved(r, g, "check_output") /\ g.result = NoResult
  BY <1>1, <1>2, GotoMoves DEF Nodes
<1> HIDE DEF g
<1>5. /\ Moved(r, q, "check_output") /\ q.result = NoResult
      /\ q.status = "failed" /\ q.error = TRUE
  BY <1>4 DEF Moved, Runs
<1> HIDE DEF q
<1>6. q \in Runs /\ q.node \in {"check_output", "error"}
  BY <1>5 DEF Moved
<1>7. StateToEvent(q) = <<e>>
  BY <1>5, <1>6, EventOf
<1>8. e \in Notes /\ e.type = "needs_decision"
  BY IsNote DEF EventTypes, MaybeName
<1> HIDE DEF e
<1>9. /\ s \in Seq(Notes) /\ Len(s) = Len(ev) + 1 /\ Len(ev) \in Nat /\ s # <<>>
      /\ Latest(s) = e /\ s[Len(ev) + 1] = e /\ \A i \in 1 .. Len(ev) : s[i] = ev[i]
  BY <1>2, <1>8, Sent
<1>10. TurnsOf(s) = TurnsOf(ev) /\ Announced(s) /\ Decided(s)
  BY <1>1, <1>2, <1>8, OtherSent
<1> HIDE DEF s
<1>11. StepsCover(q, Cardinality(TurnsOf(s)))
  BY <1>1, <1>2, <1>5, <1>10, Covered DEF Nodes
<1>12. q.result.handoff = None /\ ~q.result.review /\ ~q.result.failed
  BY <1>5 DEF NoResult
<1>13. Shape(q, s)
  BY <1>5, <1>6, <1>8, <1>9, <1>12 DEF Shape, LatestIs
<1>14. \A i \in 1 .. Len(s) : s[i].type # "complete"
  BY <1>2, <1>8, <1>9
<1>15. Course(q, s)
  BY <1>6, <1>8, <1>9, <1>12, <1>14 DEF Course, LatestIs, Over
<1> QED
  BY <1>3, <1>6, <1>7, <1>9, <1>10, <1>11, <1>13, <1>15 DEF Story, s

LEMMA TaskBegunStory ==
    ASSUME NEW r, NEW ev, Story(r, ev), r.node = "run_task", ~Refuses(r)
    PROVE  Story(TaskBegun(r), ev)
<1> DEFINE q == [r EXCEPT !.node = "streaming"]
<1>1. r \in Runs
  BY DEF Story
<1>2. /\ q \in Runs /\ q.node = "streaming" /\ q.steps = r.steps /\ q.active = r.active
      /\ q.result = r.result
  BY <1>1 DEF Runs
<1>3. r.active \in Names /\ r.active # None /\ AgentOf[r.active] \in Agents
  BY <1>1, RunFields, GraphAssumption DEF Refuses, MaybeName
<1>4. TaskBegun(r) = q
  BY DEF TaskBegun
<1> HIDE DEF q
<1>5. StepsCover(q, Cardinality(TurnsOf(ev)))
  BY <1>2 DEF Story, StepsCover, Over
<1>6. Shape(q, ev)
  BY <1>2, <1>3 DEF Story, Shape
<1>7. r.result = NoResult /\ ~NoResult.review
  BY DEF Story, Shape, NoResult
<1>8. Course(q, ev)
  BY <1>2, <1>3, <1>7 DEF Story, Course, Over
<1> QED
  BY <1>2, <1>4, <1>5, <1>6, <1>8 DEF Story

LEMMA ContextFailedStory ==
    ASSUME NEW r, NEW ev, Story(r, ev), r.node = "streaming"
    PROVE  Story(ContextFailed(r), ev)
<1> DEFINE n == r.steps + 1
           q == [r EXCEPT !.node = "error", !.steps = n]
<1>1. ~Over(r)
  BY DEF Over
<1>2. /\ r \in Runs /\ r.steps < RecursionLimit
      /\ \A i \in 1 .. Len(ev) : ev[i].type # "complete"
  BY <1>1, StoryFacts
<1>3. n \in 0 .. RecursionLimit
  BY <1>2, RunFields
<1>4. ContextFailed(r) = q
  BY DEF ContextFailed
<1> HIDE DEF n
<1>5. q \in Runs /\ q.node = "error" /\ q.result = r.result
  BY <1>2, <1>3 DEF Runs
<1> HIDE DEF q
<1>6. StepsCover(q, Cardinality(TurnsOf(ev)))
  BY <1>5 DEF Story, StepsCover, Over
<1>7. r.result = NoResult /\ ~NoResult.failed
  BY DEF Story, Shape, NoResult
<1>8. Shape(q, ev)
  BY <1>5, <1>7 DEF Shape
<1>9. Course(q, ev)
  BY <1>2, <1>5 DEF Course, Over
<1> QED
  BY <1>4, <1>5, <1>6, <1>8, <1>9 DEF Story

\* The end of a turn that is being streamed, and what it leads to.
LEMMA TurnEnds ==
    ASSUME NEW r, NEW ev, Story(r, ev), r.node = "streaming"
    PROVE  LET e == Event("agent_stream_end", AgentOf[r.active], None)
               u == ev \o <<e>>
           IN  /\ u \in Seq(Notes) /\ u # <<>> /\ Latest(u) = e
               /\ e.type = "agent_stream_end" /\ e.who = AgentOf[r.active]
               /\ Cardinality(TurnsOf(ev)) \in Nat
               /\ Cardinality(TurnsOf(u)) = Cardinality(TurnsOf(ev)) + 1
               /\ Announced(u) /\ Decided(u) /\ ~HasFailed(u)
               /\ \A i \in 1 .. Len(u) : u[i].type # "complete"
               /\ Closed(u, AgentOf[r.active])
<1> DEFINE e == Event("agent_stream_end", AgentOf[r.active], None)
           u == ev \o <<e>>
<1>1. ~Over(r) /\ ~HasFailed(ev) /\ Announced(ev) /\ r.active \in Names /\ AgentOf[r.active] \in Agents
  BY DEF Over, Story, Shape, Course
<1>2. LatestIs(ev, "task_start") /\ Latest(ev).who = r.active
  BY <1>1, GraphAssumption DEF Story, Shape
<1>3. /\ ev \in Seq(Notes) /\ Cardinality(TurnsOf(ev)) \in Nat
      /\ \A i \in 1 .. Len(ev) : ev[i].type # "complete"
  BY <1>1, StoryFacts
<1>4. e \in Notes /\ e.type = "agent_stream_end" /\ e.who = AgentOf[r.active]
  BY <1>1, IsNote DEF EventTypes, MaybeName
<1> HIDE DEF e
<1>5. /\ u \in Seq(Notes) /\ Len(u) = Len(ev) + 1 /\ Len(ev) \in Nat /\ u # <<>>
      /\ Latest(u) = e /\ u[Len(ev) + 1] = e /\ \A i \in 1 .. Len(ev) : u[i] = ev[i]
  BY <1>3, <1>4, Sent
<1>6. /\ Cardinality(TurnsOf(u)) = Cardinality(TurnsOf(ev)) + 1
      /\ Announced(u) /\ ~HasFailed(u)
  BY <1>1, <1>2, <1>3, <1>4, TurnSent
<1> HIDE DEF u
<1>7. Decided(u)
  BY <1>6 DEF Decided, HasFailed
<1>8. \A i \in 1 .. Len(u) : u[i].type # "complete"
  BY <1>3, <1>4, <1>5
<1>9. Closed(u, AgentOf[r.active])
  <2>1. Len(ev) \in 1 .. Len(u) - 1 /\ u[Len(ev)] = Latest(ev)
    BY <1>2, <1>3, <1>5 DEF LatestIs, Latest
  <2>2. \A k \in Len(ev) + 1 .. Len(u) : u[k] = e
    BY <1>5
  <2> QED
    BY <1>2, <1>4, <2>1, <2>2 DEF LatestIs, Closed
<1> QED
  BY <1>3, <1>4, <1>5, <1>6, <1>7, <1>8, <1>9 DEF u, e

LEMMA TaskDoneStory ==
    ASSUME NEW r, NEW ev, Story(r, ev), r.node = "streaming", NEW o \in Outcomes
    PROVE  Story(TaskDone(r, o), ev \o <<Event("agent_stream_end", AgentOf[r.active], None)>>
                                    \o StateToEvent(TaskDone(r, o)))
<1> DEFINE g == Goto(r, "check_output")
           res == [agent |-> AgentOf[r.active], review |-> o.review, handoff |-> o.handoff, failed |-> FALSE]
           q == [g EXCEPT !.result = res, !.status = "running", !.review = FALSE, !.error = FALSE]
           e == Event("agent_stream_end", AgentOf[r.active], None)
           u == ev \o <<e>>
<1>1. ~Over(r) /\ AgentOf[r.active] \in Agents
  BY DEF Over, Story, Shape
<1>2. /\ r \in Runs /\ r.steps < RecursionLimit
      /\ StepsCover(r, Cardinality(TurnsOf(ev)))
  BY <1>1, StoryFacts
<1>3. /\ u \in Seq(Notes) /\ u # <<>> /\ Latest(u) = e
      /\ e.type = "agent_stream_end" /\ e.who = AgentOf[r.active]
      /\ Cardinality(TurnsOf(ev)) \in Nat
      /\ Cardinality(TurnsOf(u)) = Cardinality(TurnsOf(ev)) + 1
      /\ Announced(u) /\ Decided(u) /\ ~HasFailed(u) /\ Closed(u, AgentOf[r.active])
      /\ \A i \in 1 .. Len(u) : u[i].type # "complete"
  BY TurnEnds
<1>4. /\ res \in Results /\ ~res.failed /\ res.agent = AgentOf[r.active]
  BY <1>1 DEF Results, Outcomes, MaybeName
<1>5. res # NoResult
  BY <1>1, <1>4, GraphAssumption DEF NoResult
<1>6. TaskDone(r, o) = q
  BY DEF TaskDone
<1>7. Moved(r, g, "check_output")
  BY <1>2, GotoMoves DEF Nodes
<1> HIDE DEF g, res, e, u
<1>8. Moved(r, q, "check_output") /\ q.result = res /\ q.status = "running"
  BY <1>4, <1>7 DEF Moved, Runs
<1> HIDE DEF q
<1>9. q \in Runs /\ q.node \in {"check_output", "error"}
  BY <1>8 DEF Moved
<1>10. u \o StateToEvent(q) = u
  BY <1>3, <1>5, <1>8, <1>9, EventOf, NothingSent
<1>11. StepsCover(q, Cardinality(TurnsOf(u)))
  BY <1>1, <1>2, <1>3, <1>8, Covered DEF Nodes
<1>12. Shape(q, u)
  BY <1>3, <1>4, <1>5, <1>8, <1>9 DEF Shape, LatestIs
<1>13. Course(q, u)
  BY <1>3, <1>9 DEF Course, LatestIs, Over
<1> QED
  BY <1>3, <1>6, <1>9, <1>10, <1>11, <1>12, <1>13 DEF Story, u, e

\* A task fails, after its turn was handed over (late) or before.
LEMMA TaskFailedStory ==
    ASSUME NEW r, NEW ev, Story(r, ev), r.node = "streaming", NEW w \in BOOLEAN
    PROVE  LET q == TaskFailed(r, w)
           IN  /\ Story(q, ev \o StateToEvent(q))
               /\ Story(q, ev \o <<Event("agent_stream_end", AgentOf[r.active], None)>>
                              \o StateToEvent(q))
<1> DEFINE g == Goto(r, "check_output")
           res == [NoResult EXCEPT !.agent = AgentOf[r.active], !.failed = w]
           q == [g EXCEPT !.result = res, !.status = "failed", !.review = FALSE, !.error = TRUE]
           d == Event("needs_decision", None, None)
           late == ev \o <<Event("agent_stream_end", AgentOf[r.active], None)>>
<1>1. ~Over(r) /\ AgentOf[r.active] \in Agents /\ ~LatestIs(ev, "handoff") /\ Announced(ev) /\ Decided(ev)
  BY DEF Over, Story, Shape, Course
<1>2. /\ r \in Runs /\ r.steps < RecursionLimit /\ ev \in Seq(Notes)
      /\ Cardinality(TurnsOf(ev)) \in Nat /\ StepsCover(r, Cardinality(TurnsOf(ev)))
      /\ \A i \in 1 .. Len(ev) : ev[i].type # "complete"
  BY <1>1, StoryFacts
<1>b. LatestIs(ev, "task_start") /\ Latest(ev).who = r.active
  BY GraphAssumption DEF Story, Shape
<1>3. /\ late \in Seq(Notes) /\ ~LatestIs(late, "handoff") /\ Closed(late, AgentOf[r.active])
      /\ Cardinality(TurnsOf(late)) = Cardinality(TurnsOf(ev)) + 1
      /\ Announced(late) /\ Decided(late)
      /\ \A i \in 1 .. Len(late) : late[i].type # "complete"
  BY TurnEnds DEF LatestIs
<1>4. res \in Results /\ res.handoff = None /\ ~res.review /\ res.agent = AgentOf[r.active]
  BY <1>1 DEF Results, NoResult, MaybeName
<1>5. res # NoResult
  BY <1>1, <1>4, GraphAssumption DEF NoResult
<1>6. TaskFailed(r, w) = q
  BY DEF TaskFailed
<1>7. Moved(r, g, "check_output")
  BY <1>2, GotoMoves DEF Nodes
<1> HIDE DEF g, res, late
<1>8. Moved(r, q, "check_output") /\ q.result = res /\ q.status = "failed" /\ q.error = TRUE
  BY <1>4, <1>7 DEF Moved, Runs
<1> HIDE DEF q
<1>9. q \in Runs /\ q.node \in {"check_output", "error"}
  BY <1>8 DEF Moved
<1>10. StateToEvent(q) = <<d>>
  BY <1>8, <1>9, EventOf
<1>11. d \in Notes /\ d.type = "needs_decision"
  BY IsNote DEF EventTypes, MaybeName
<1> HIDE DEF d
<1>12. StepsCover(q, Cardinality(TurnsOf(ev))) /\ StepsCover(q, Cardinality(TurnsOf(late)))
  BY <1>1, <1>2, <1>3, <1>8, Covered DEF Nodes
<1>13. ASSUME NEW u \in Seq(Notes), Announced(u), Decided(u), ~LatestIs(u, "handoff"),
              StepsCover(q, Cardinality(TurnsOf(u))),
              \A i \in 1 .. Len(u) : u[i].type # "complete", u \in {ev, late}
       PROVE  Story(q, u \o <<d>>)
  <2> DEFINE s == u \o <<d>>
  <2>1. /\ s \in Seq(Notes) /\ Len(s) = Len(u) + 1 /\ Len(u) \in Nat /\ s # <<>>
        /\ Latest(s) = d /\ s[Len(u) + 1] = d /\ \A i \in 1 .. Len(u) : s[i] = u[i]
    BY <1>11, Sent
  <2>2. TurnsOf(s) = TurnsOf(u) /\ Announced(s) /\ Decided(s)
    BY <1>11, <1>13, OtherSent
  <2> HIDE DEF s
  <2>a. Closed(s, AgentOf[r.active])
    <3>1. CASE u = ev
      <4>1. Len(u) \in 1 .. Len(s) - 1 /\ s[Len(u)] = Latest(u)
        BY <1>b, <2>1, <3>1 DEF LatestIs, Latest
      <4>2. \A k \in Len(u) + 1 .. Len(s) : s[k] = d
        BY <2>1
      <4> QED
        BY <1>11, <1>b, <3>1, <4>1, <4>2 DEF LatestIs, Closed
    <3>2. CASE u = late
      <4>1. PICK j \in 1 .. Len(u) - 1 :
               /\ u[j].type = "task_start" /\ AgentOf[u[j].who] = AgentOf[r.active]
               /\ \A k \in j + 1 .. Len(u) : u[k].type \in {"agent_stream_end", "needs_decision"}
        BY <1>3, <3>2 DEF Closed
      <4>2. j \in 1 .. Len(s) - 1 /\ s[j] = u[j]
        BY <2>1
      <4>3. ASSUME NEW k \in j + 1 .. Len(s) PROVE s[k].type \in {"agent_stream_end", "needs_decision"}
        <5>1. CASE k = Len(s)
          BY <1>11, <2>1, <5>1
        <5>2. CASE k \in j + 1 .. Len(u)
          BY <2>1, <4>1, <5>2
        <5> QED
          BY <2>1, <5>1, <5>2
      <4> QED
        BY <4>1, <4>2, <4>3 DEF Closed
    <3> QED
      BY <1>13, <3>1, <3>2
  <2>3. Shape(q, s)
    BY <1>4, <1>5, <1>8, <1>9, <2>a DEF Shape
  <2>4. \A i \in 1 .. Len(s) : s[i].type # "complete"
    BY <1>11, <1>13, <2>1
  <2>5. Course(q, s)
    BY <1>4, <1>8, <1>9, <1>11, <2>1, <2>4 DEF Course, LatestIs, Over
  <2>6. StepsCover(q, Cardinality(TurnsOf(s)))
    BY <1>13, <2>2
  <2> QED
    BY <1>9, <2>1, <2>2, <2>3, <2>5, <2>6 DEF Story, s
<1>14. Story(q, ev \o <<d>>) /\ Story(q, late \o <<d>>)
  BY <1>1, <1>2, <1>3, <1>12, <1>13
<1> QED
  BY <1>6, <1>10, <1>14 DEF late

LEMMA CheckOutputStory ==
    ASSUME NEW r, NEW ev, Story(r, ev), r.node = "check_output"
    PROVE  Story(CheckOutput(r), ev \o StateToEvent(CheckOutput(r)))
<1> DEFINE res == r.result
           to == IF res.handoff = r.active THEN None ELSE res.handoff
           next == IF res.failed THEN "handle_error" ELSE IF res.review THEN "await_review"
                   ELSE IF to # None THEN "route_agent" ELSE "end"
           st == IF res.failed THEN "failed" ELSE IF res.review THEN "awaiting_review"
                 ELSE IF to # None THEN "handoff" ELSE "completed"
           g == Goto(r, next)
           q == [g EXCEPT !.handoff = to, !.status = st, !.review = res.review, !.error = res.failed]
<1>1. ~Over(r) /\ ~LatestIs(ev, "handoff") /\ Announced(ev) /\ Decided(ev)
  BY DEF Over, Story, Course
<1>2. /\ r \in Runs /\ r.steps < RecursionLimit /\ ev \in Seq(Notes)
      /\ Cardinality(TurnsOf(ev)) \in Nat /\ StepsCover(r, Cardinality(TurnsOf(ev)))
      /\ \A i \in 1 .. Len(ev) : ev[i].type # "complete"
  BY <1>1, StoryFacts
<1>3. /\ res \in Results /\ r.active \in MaybeName /\ res.failed \in BOOLEAN
      /\ res.review \in BOOLEAN /\ to \in MaybeName /\ res.agent \in Agents \union {None}
  BY <1>2, RunFields DEF Results, MaybeName
<1>4. /\ next \in {"handle_error", "await_review", "route_agent", "end"}
      /\ next \in Nodes /\ st \in Statuses
  BY DEF Nodes, Statuses
<1>5. /\ res.failed => res.handoff = None /\ ~res.review
      /\ res = NoResult => LatestIs(ev, "needs_decision")
      /\ res # NoResult => Closed(ev, res.agent)
      /\ HasFailed(ev) => res.handoff = None /\ ~res.review
  BY <1>1 DEF Story, Shape, Course, Over
<1>6. CheckOutput(r) = q
  BY DEF CheckOutput
<1>7. Moved(r, g, next) /\ g.result = res /\ g.active = r.active
  BY <1>2, <1>4, GotoMoves
<1> HIDE DEF g
<1>8. /\ Moved(r, q, next) /\ q.result = res /\ q.active = r.active /\ q.handoff = to
      /\ q.status = st /\ q.review = res.review /\ q.error = res.failed
  BY <1>3, <1>4, <1>7 DEF Moved, Runs, Statuses
<1> HIDE DEF q
<1>9. q \in Runs /\ q.node \in {next, "error"} /\ (next = "end" => q.node = "end")
  BY <1>8 DEF Moved
<1>10. ASSUME NEW s PROVE Shape(q, s)
  BY <1>4, <1>5, <1>8, <1>9 DEF Shape
<1>11. StepsCover(q, Cardinality(TurnsOf(ev)))
  BY <1>1, <1>2, <1>4, <1>8, Covered
<1>12. ASSUME NEW e \in Notes, e.type # "agent_stream_end"
       PROVE  LET s == ev \o <<e>>
              IN /\ s \in Seq(Notes) /\ Len(s) = Len(ev) + 1 /\ Len(ev) \in Nat /\ s # <<>>
                 /\ Latest(s) = e /\ s[Len(ev) + 1] = e /\ \A i \in 1 .. Len(ev) : s[i] = ev[i]
                 /\ TurnsOf(s) = TurnsOf(ev) /\ Announced(s) /\ Decided(s)
                 /\ (Course(q, s) => Story(q, s))
  <2> DEFINE s == ev \o <<e>>
  <2>1. /\ s \in Seq(Notes) /\ Len(s) = Len(ev) + 1 /\ Len(ev) \in Nat /\ s # <<>>
        /\ Latest(s) = e /\ s[Len(ev) + 1] = e /\ \A i \in 1 .. Len(ev) : s[i] = ev[i]
    BY <1>2, <1>12, Sent
  <2>2. TurnsOf(s) = TurnsOf(ev) /\ Announced(s) /\ Decided(s)
    BY <1>1, <1>2, <1>12, OtherSent
  <2> HIDE DEF s
  <2>3. Course(q, s) => Story(q, s)
    BY <1>9, <1>10, <1>11, <2>1, <2>2 DEF Story
  <2> QED
    BY <2>1, <2>2, <2>3 DEF s
<1>13. TurnsOf(ev) \subseteq 1 .. Len(ev)
  BY <1>2, TurnsFinite
<1>14. CASE res.failed
  <2> DEFINE e == Event("needs_decision", None, None)
             s == ev \o <<e>>
  <2>1. StateToEvent(q) = <<e>> /\ next = "handle_error" /\ to = None /\ ~res.review
    BY <1>5, <1>8, <1>9, <1>14, EventOf
  <2>2. e \in Notes /\ e.type = "needs_decision"
    BY IsNote DEF EventTypes, MaybeName
  <2> HIDE DEF e
  <2>3. /\ Len(s) = Len(ev) + 1 /\ Len(ev) \in Nat /\ Latest(s) = e /\ s[Len(ev) + 1] = e
        /\ \A i \in 1 .. Len(ev) : s[i] = ev[i]
        /\ (Course(q, s) => Story(q, s))
    BY <1>12, <2>2
  <2> HIDE DEF s
  <2>4. Course(q, s)
    BY <1>2, <1>8, <1>9, <2>1, <2>2, <2>3 DEF Course, LatestIs, Over
  <2> QED
    BY <1>6, <2>1, <2>3, <2>4 DEF s
<1>15. CASE ~res.failed /\ res.review
  <2> DEFINE e == Event("needs_review", None, None)
             s == ev \o <<e>>
  <2>1. StateToEvent(q) = <<e>> /\ next = "await_review"
    BY <1>8, <1>9, <1>15, EventOf
  <2>2. e \in Notes /\ e.type = "needs_review"
    BY IsNote DEF EventTypes, MaybeName
  <2> HIDE DEF e
  <2>3. /\ Len(s) = Len(ev) + 1 /\ Len(ev) \in Nat /\ Latest(s) = e /\ s[Len(ev) + 1] = e
        /\ \A i \in 1 .. Len(ev) : s[i] = ev[i]
        /\ TurnsOf(s) = TurnsOf(ev) /\ (Course(q, s) => Story(q, s))
    BY <1>12, <2>2
  <2> HIDE DEF s
  <2>4. ~HasFailed(s) /\ \A i \in 1 .. Len(s) : s[i].type # "complete"
    BY <1>2, <1>5, <1>15, <2>2, <2>3 DEF HasFailed
  <2>5. ReviewSent(s)
    <3>1. Len(s) \in 1 .. Len(s) /\ s[Len(s)].type = "needs_review" /\ \A j \in TurnsOf(s) : j < Len(s)
      BY <1>13, <2>2, <2>3
    <3> QED
      BY <3>1 DEF ReviewSent
  <2>6. Course(q, s)
    BY <1>9, <2>1, <2>2, <2>3, <2>4, <2>5 DEF Course, LatestIs
  <2> QED
    BY <1>6, <2>1, <2>3, <2>6 DEF s
<1>16. CASE ~res.failed /\ ~res.review /\ to # None
  <2> DEFINE e == Event("handoff", r.active, to)
             s == ev \o <<e>>
  <2>1. next = "route_agent" /\ StateToEvent(q) = IF r.active # None THEN <<e>> ELSE <<>>
    BY <1>8, <1>9, <1>16, EventOf
  <2>2. e \in Notes /\ e.type = "handoff" /\ e.to = to
    BY <1>3, IsNote DEF EventTypes, MaybeName
  <2> HIDE DEF e
  <2>3. /\ Len(s) = Len(ev) + 1 /\ Len(ev) \in Nat /\ Latest(s) = e /\ s[Len(ev) + 1] = e
        /\ \A i \in 1 .. Len(ev) : s[i] = ev[i]
        /\ (Course(q, s) => Story(q, s))
    BY <1>12, <2>2
  <2> HIDE DEF s
  <2>4. ~HasFailed(ev)
    BY <1>5, <1>16
  <2>5. ~HasFailed(s) /\ \A i \in 1 .. Len(s) : s[i].type # "complete"
    BY <1>2, <2>2, <2>3, <2>4 DEF HasFailed
  <2>6. Course(q, s)
    BY <1>8, <1>9, <1>16, <2>1, <2>2, <2>3, <2>5 DEF Course, LatestIs, Over
  <2>7. Course(q, ev)
    BY <1>1, <1>2, <1>8, <1>9, <1>16, <2>1, <2>4 DEF Course
  <2>8. Story(q, ev)
    BY <1>1, <1>2, <1>9, <1>10, <1>11, <2>7 DEF Story
  <2>9. r.active = None => ev \o StateToEvent(q) = ev
    BY <1>2, <2>1, NothingSent
  <2> QED
    BY <1>6, <2>1, <2>3, <2>6, <2>8, <2>9 DEF s
<1>17. CASE ~res.failed /\ ~res.review /\ to = None
  <2> DEFINE e == Event("complete", res.agent, None)
             s == ev \o <<e>>
  <2>1. next = "end" /\ q.node = "end" /\ StateToEvent(q) = IF res # NoResult THEN <<e>> ELSE <<>>
    BY <1>8, <1>9, <1>17, EventOf
  <2>2. e \in Notes /\ e.type = "complete" /\ e.who = res.agent
    BY <1>3, IsNote DEF EventTypes, MaybeName
  <2> HIDE DEF e
  <2>3. /\ Len(s) = Len(ev) + 1 /\ Len(ev) \in Nat /\ Latest(s) = e /\ s[Len(ev) + 1] = e
        /\ \A i \in 1 .. Len(ev) : s[i] = ev[i]
        /\ TurnsOf(s) = TurnsOf(ev) /\ (Course(q, s) => Story(q, s)) /\ s # <<>>
    BY <1>12, <2>2
  <2> HIDE DEF s
  <2>4. ASSUME res # NoResult PROVE Course(q, s)
    <3>2. CompleteAt(s, Len(s))
      <4>1. PICK j \in 1 .. Len(ev) - 1 :
               /\ ev[j].type = "task_start" /\ AgentOf[ev[j].who] = res.agent
               /\ \A k \in j + 1 .. Len(ev) : ev[k].type \in {"agent_stream_end", "needs_decision"}
        BY <1>5, <2>4 DEF Closed
      <4>2. j \in 1 .. Len(s) - 2 /\ s[j] = ev[j] /\ s[Len(s)].who = res.agent
        BY <2>2, <2>3
      <4>3. ASSUME NEW k \in j + 1 .. Len(s) - 1
            PROVE  s[k].type \in {"agent_stream_end", "needs_decision"}
        <5>1. k \in j + 1 .. Len(ev) /\ s[k] = ev[k]
          BY <2>3, <4>2
        <5> QED
          BY <4>1, <5>1
      <4> QED
        BY <4>1, <4>2, <4>3 DEF CompleteAt
    <3>3. \A i \in 1 .. Len(s) : s[i].type = "complete" => i = Len(s)
      BY <1>2, <2>3
    <3> QED
      BY <1>8, <1>17, <2>1, <2>2, <2>3, <3>2, <3>3 DEF Course, LatestIs, Over
  <2>5. ASSUME res = NoResult PROVE Story(q, ev)
    <3>1. Course(q, ev)
      BY <1>1, <1>2, <1>5, <1>8, <1>17, <2>1, <2>5 DEF Course, Over
    <3> QED
      BY <1>1, <1>2, <1>9, <1>10, <1>11, <3>1 DEF Story
  <2>6. res = NoResult => ev \o StateToEvent(q) = ev
    BY <1>2, <2>1, NothingSent
  <2> QED
    BY <1>6, <2>1, <2>3, <2>4, <2>5, <2>6 DEF s
<1> QED
  BY <1>3, <1>14, <1>15, <1>16, <1>17

\* What await_human_review and handle_error have in common: the review is told
\* again if the run has the review flag, and the handoff waits.
LEMMA ReviewPasses ==
    ASSUME NEW r, NEW ev, Story(r, ev), r.node \in {"await_review", "handle_error"},
           NEW n \in {"await_review", "route_agent"}, NEW q, Moved(r, q, n),
           q.status = "awaiting_review", q.result = r.result, q.handoff = r.handoff
    PROVE  Story(q, ev \o StateToEvent(q))
<1> DEFINE e == Event("needs_review", None, None)
           s == ev \o <<e>>
<1>1. ~Over(r) /\ ~LatestIs(ev, "handoff") /\ Announced(ev) /\ Decided(ev)
  BY DEF Over, Story, Course
<1>2. /\ r \in Runs /\ ev \in Seq(Notes)
      /\ Cardinality(TurnsOf(ev)) \in Nat /\ StepsCover(r, Cardinality(TurnsOf(ev)))
      /\ \A i \in 1 .. Len(ev) : ev[i].type # "complete"
  BY <1>1, StoryFacts
<1>3. /\ r.result.failed => r.result.handoff = None /\ ~r.result.review
      /\ HasFailed(ev) => r.handoff = None
      /\ r.result.review => ReviewSent(ev)
  BY <1>1 DEF Story, Shape, Course, Over
<1>4. q \in Runs /\ q.node \in {"await_review", "route_agent", "error"}
  BY DEF Moved
<1>5. StateToEvent(q) = IF q.review THEN <<e>> ELSE <<>>
  BY <1>4, EventOf
<1>6. StepsCover(q, Cardinality(TurnsOf(ev)))
  BY <1>1, <1>2, Covered DEF Nodes
<1>7. ASSUME NEW u PROVE Shape(q, u)
  BY <1>3, <1>4 DEF Shape
<1>8. Story(q, ev)
  <2>1. Course(q, ev)
    BY <1>1, <1>2, <1>3, <1>4 DEF Course, Over
  <2> QED
    BY <1>1, <1>2, <1>4, <1>6, <1>7, <2>1 DEF Story
<1>9. e \in Notes /\ e.type = "needs_review"
  BY IsNote DEF EventTypes, MaybeName
<1> HIDE DEF e
<1>10. /\ s \in Seq(Notes) /\ Len(s) = Len(ev) + 1 /\ Len(ev) \in Nat /\ s # <<>>
       /\ Latest(s) = e /\ s[Len(ev) + 1] = e /\ \A i \in 1 .. Len(ev) : s[i] = ev[i]
  BY <1>2, <1>9, Sent
<1>11. TurnsOf(s) = TurnsOf(ev) /\ Announced(s) /\ Decided(s)
  BY <1>1, <1>2, <1>9, OtherSent
<1> HIDE DEF s
<1>12. Story(q, s)
  <2>1. HasFailed(s) => r.handoff = None
    BY <1>3, <1>9, <1>10 DEF HasFailed
  <2>2. r.result.review => ReviewSent(s)
    BY <1>3, <1>10, <1>11 DEF ReviewSent
  <2>3. Course(q, s)
    BY <1>2, <1>4, <1>9, <1>10, <2>1, <2>2 DEF Course, LatestIs, Over
  <2> QED
    BY <1>4, <1>6, <1>7, <1>10, <1>11, <2>3 DEF Story
<1> QED
  BY <1>2, <1>5, <1>8, <1>12, NothingSent DEF s

LEMMA AwaitReviewStory ==
    ASSUME NEW r, NEW ev, Story(r, ev), r.node = "await_review"
    PROVE  Story(AwaitReview(r), ev \o StateToEvent(AwaitReview(r)))
<1>1. ~Over(r) /\ r.status = "awaiting_review"
  BY DEF Over, Story, Shape
<1>2. r \in Runs /\ r.steps < RecursionLimit
  BY <1>1, StoryFacts
<1>3. /\ Moved(r, AwaitReview(r), "route_agent") /\ AwaitReview(r).status = "awaiting_review"
      /\ AwaitReview(r).result = r.result /\ AwaitReview(r).handoff = r.handoff
  BY <1>1, <1>2, GotoMoves DEF AwaitReview, Nodes
<1> QED
  BY <1>3, ReviewPasses

LEMMA HandleErrorStory ==
    ASSUME NEW r, NEW ev, Story(r, ev), r.node = "handle_error"
    PROVE  Story(HandleError(r), ev \o StateToEvent(HandleError(r)))
<1> DEFINE g == Goto(r, "await_review")
           q == [g EXCEPT !.status = "awaiting_review"]
<1>1. ~Over(r)
  BY DEF Over
<1>2. r \in Runs /\ r.steps < RecursionLimit
  BY <1>1, StoryFacts
<1>3. HandleError(r) = q
  BY DEF HandleError
<1>4. Moved(r, g, "await_review") /\ g.result = r.result /\ g.handoff = r.handoff
  BY <1>2, GotoMoves DEF Nodes
<1> HIDE DEF g
<1>5. /\ Moved(r, q, "await_review") /\ q.status = "awaiting_review"
      /\ q.result = r.result /\ q.handoff = r.handoff
  BY <1>4 DEF Moved, Runs
<1> HIDE DEF q
<1> QED
  BY <1>3, <1>5, ReviewPasses
-----------------------------------------------------------------------------
(***************************************************************************)
(* The run.                                                                *)
(***************************************************************************)
IInv == mentions \in Messages /\ Story(run, events)

LEMMA InitStory == Init => IInv
<1> SUFFICES ASSUME Init PROVE IInv
  OBVIOUS
<1>1. run = NewRun /\ events = <<>> /\ mentions \in Messages
  BY DEF Init
<1>2. run \in Runs
  BY <1>1, GraphAssumption DEF NewRun, Runs, MaybeName, NoResult, Results
<1>3. events \in Seq(Notes) /\ TurnsOf(events) = {} /\ Cardinality({}) = 0
  BY <1>1, FS_EmptySet DEF TurnsOf
<1>4. StepsCover(run, 0)
  BY <1>1, GraphAssumption DEF NewRun, StepsCover, Over
<1>5. Announced(events) /\ Decided(events)
  BY <1>1, <1>3 DEF Announced, Decided
<1>6. Shape(run, events)
  BY <1>1 DEF NewRun, NoResult, Shape
<1>7. Course(run, events)
  BY <1>1 DEF NewRun, NoResult, Course, LatestIs, HasFailed
<1> QED
  BY <1>1, <1>2, <1>3, <1>4, <1>5, <1>6, <1>7 DEF IInv, Story

LEMMA NextKeeps == IInv /\ [Next]_vars => IInv'
<1> SUFFICES ASSUME IInv, [Next]_vars PROVE IInv'
  OBVIOUS
<1> USE DEF IInv
<1>1. ASSUME DoHydrate PROVE IInv'
  BY <1>1, HydrateStory DEF DoHydrate, Becomes
<1>2. ASSUME DoRoute PROVE IInv'
  BY <1>2, RouteMessageStory DEF DoRoute, Becomes
<1>3. ASSUME RefuseTask PROVE IInv'
  BY <1>3, TaskRefusedStory DEF RefuseTask, Becomes
<1>4. ASSUME BeginTask PROVE IInv'
  BY <1>4, TaskBegunStory DEF BeginTask
<1>5. ASSUME LoseContext PROVE IInv'
  BY <1>5, ContextFailedStory DEF LoseContext
<1>6. ASSUME FinishTask PROVE IInv'
  <2>1. PICK o \in Outcomes : BecomesAfterTurn(TaskDone(run, o))
    BY <1>6 DEF FinishTask
  <2>2. TaskDone(run, o).active = run.active
    BY DEF TaskDone, Goto, Story, Runs
  <2> QED
    BY <1>6, <2>1, <2>2, TaskDoneStory DEF FinishTask, BecomesAfterTurn
<1>7. ASSUME FailTask PROVE IInv'
  BY <1>7, TaskFailedStory DEF FailTask, Becomes
<1>8. ASSUME FailLogging PROVE IInv'
  <2>1. PICK w \in BOOLEAN : BecomesAfterTurn(TaskFailed(run, w))
    BY <1>8 DEF FailLogging
  <2> QED
    BY <1>8, <2>1, TaskFailedStory DEF FailLogging, BecomesAfterTurn
<1>9. ASSUME DoCheckOutput PROVE IInv'
  BY <1>9, CheckOutputStory DEF DoCheckOutput, Becomes
<1>10. ASSUME DoAwaitReview PROVE IInv'
  BY <1>10, AwaitReviewStory DEF DoAwaitReview, Becomes
<1>11. ASSUME DoRouteAgent PROVE IInv'
  BY <1>11, RouteAgentStory DEF DoRouteAgent, Becomes
<1>12. ASSUME DoHandleError PROVE IInv'
  BY <1>12, HandleErrorStory DEF DoHandleError, Becomes
<1>13. CASE UNCHANGED vars
  BY <1>13 DEF vars
<1> QED
  BY <1>1, <1>2, <1>3, <1>4, <1>5, <1>6, <1>7, <1>8, <1>9, <1>10, <1>11, <1>12, <1>13 DEF Next

LEMMA Invariance == Spec => []IInv
  BY InitStory, NextKeeps, PTL DEF Spec

\* The run, its messages and its events keep their types; the supersteps stay
\* within the recursion limit.
THEOREM TypeCorrect == Spec => []TypeOK
<1>1. IInv => TypeOK
  <2> SUFFICES ASSUME IInv PROVE TypeOK
    OBVIOUS
  <2>1. ASSUME NEW i \in 1 .. Len(events) PROVE events[i].type \in EventTypes
    <3>1. events[i] \in Notes
      BY DEF IInv, Story
    <3> QED
      BY <3>1 DEF Notes
  <2> QED
    BY <2>1 DEF IInv, Story, EventTypes, TypeOK
<1> QED
  BY <1>1, Invariance, PTL

\* "complete" is the last thing a client hears of a run and names the agent of
\* the task that was started last (the gateway takes it for the end of the
\* workflow); that task has ended, or has failed and been told of, whatever
\* message its error has.
THEOREM CompletesOnce == Spec => []CompleteIsLast
<1>1. IInv => CompleteIsLast
  <2> SUFFICES ASSUME IInv, NEW i \in 1 .. Len(events), Is(i, "complete")
               PROVE  /\ i = Len(events) /\ run.node = "end"
                      /\ \E j \in 1 .. i - 2 :
                            /\ Is(j, "task_start") /\ AgentOf[events[j].who] = events[i].who
                            /\ \A k \in j + 1 .. i - 1 : k \in Turns \/ Is(k, "needs_decision")
    BY DEF CompleteIsLast
  <2>1. i = Len(events) /\ run.node = "end" /\ CompleteAt(events, i) /\ i \in Nat
    BY DEF IInv, Story, Course, CompleteAt, Is
  <2>2. PICK j \in 1 .. i - 2 :
           /\ events[j].type = "task_start" /\ AgentOf[events[j].who] = events[i].who
           /\ \A k \in j + 1 .. i - 1 : events[k].type \in {"agent_stream_end", "needs_decision"}
    BY <2>1 DEF CompleteAt
  <2>3. \A k \in j + 1 .. i - 1 : k \in 1 .. Len(events)
    BY <2>1
  <2> QED
    BY <2>1, <2>2, <2>3 DEF Is, Turns
<1> QED
  BY <1>1, Invariance, PTL

\* The client hears whose turn starts before it hears that the turn is over,
\* and a handoff is followed at once by the start of the task it names.
THEOREM Announces == Spec => []TurnsAnnounced
<1>1. Turns = TurnsOf(events)
  BY DEF Turns, TurnsOf, Is
<1>2. IInv => TurnsAnnounced
  BY <1>1 DEF IInv, Story, Announced, TurnsAnnounced, Is
<1> QED
  BY <1>2, Invariance, PTL

\* After the client has been asked for a decision on an error, no agent ends
\* another turn of that run.
THEOREM StopsOnFailure == Spec => []NoTurnAfterFailure
<1>1. IInv => NoTurnAfterFailure
  BY DEF IInv, Story, Decided, NoTurnAfterFailure, Is, Turns, TurnsOf
<1> QED
  BY <1>1, Invariance, PTL

\* A turn that asks for a review and hands over: the client hears of the review
\* before the graph goes on.
THEOREM TellsReviews == Spec => []ReviewIsTold
<1>1. IInv => ReviewIsTold
  BY DEF IInv, Story, Course, ReviewSent, ReviewIsTold, Is, Turns, TurnsOf
<1> QED
  BY <1>1, Invariance, PTL

\* A run that reaches its end has told the client so last: by a result or by
\* the request for a decision.
THEOREM EndsAnnounced == Spec => []EndIsAnnounced
<1>1. IInv => EndIsAnnounced
  BY DEF IInv, Story, Course, LatestIs, Latest, EndIsAnnounced, Is
<1> QED
  BY <1>1, Invariance, PTL

\* Three supersteps pay for a turn, so the recursion limit bounds the turns that
\* one message can start, however the agents hand over to each other.
THEOREM BoundsTurns == Spec => []TurnsAreBounded
<1>1. IInv => TurnsAreBounded
  BY DEF IInv, Story, StepsCover, TurnsAreBounded, Is, Turns, TurnsOf
<1> QED
  BY <1>1, Invariance, PTL
=============================================================================

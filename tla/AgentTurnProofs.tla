-------------------------- MODULE AgentTurnProofs --------------------------
(***************************************************************************)
(* Proofs about AgentTurn: what a turn of an agent does with the tool      *)
(* calls of the model, for every number of turns, steps and calls.         *)
(*                                                                         *)
(* The invariant says where every call is: carried out, still to be done,  *)
(* or left without an answer.  Calls are numbered by the request they      *)
(* answer and their place in the answer, and a turn goes through them in   *)
(* that order, so that what was carried out lies before what is to come.   *)
(* A measure of what is left of a ReAct turn bounds its steps.             *)
(***************************************************************************)
EXTENDS AgentTurn, SequenceTheorems, TLAPS

Earlier(c, d) == c[1] < d[1] \/ (c[1] = d[1] /\ c[2] < d[2])
Increasing(r) == \A i, j \in 1 .. Len(r) : i < j => Earlier(r[i], r[j])
UpTo(r, n) == \A i \in 1 .. Len(r) : r[i][1] <= n
Before(r, q, k) == \A i \in 1 .. Len(r) : \A j \in k .. Len(q) : Earlier(r[i], q[j])

\* The calls of the n-th answer, in the order of the answer.
OneAnswer(q, n) ==
    \A i, j \in 1 .. Len(q) : q[i][1] = n /\ (i < j => q[i][2] < q[j][2])

Elements(q) == {q[i] : i \in 1 .. Len(q)}

Labels == {"idle", "prompt", "ask", "stream", "tool", "command", "over"}
Kinds == {"text", "observation", "done", "handoff", "error"}

\* A ReAct turn asks once per step, and asks only while there are steps left.
StepsLeft(t) ==
    mode[t] = "react" =>
        /\ pc[t] \in {"stream", "tool", "command"} =>
              steps[t] < MaxSteps /\ asks[t] = steps[t] + 1
        /\ pc[t] \in {"idle", "prompt", "ask"} => asks[t] = steps[t]
        /\ asks[t] <= MaxSteps

\* What was carried out lies before what is to come; the call whose command
\* runs is in both.
InOrder(t) ==
    /\ OneAnswer(todo[t], asks[t])
    /\ Increasing(ran[t])
    /\ UpTo(ran[t], IF pc[t] = "stream" THEN asks[t] - 1 ELSE asks[t])
    /\ Before(ran[t], todo[t], IF pc[t] = "command" THEN 2 ELSE 1)

\* A native turn still executes every call that is open; ReAct leaves those
\* behind the first of an answer without a result, and those without an id.
OpenCalls(t) ==
    IF mode[t] = "native" THEN open[t] \subseteq Elements(todo[t])
    ELSE \A c \in open[t] : c[2] > 1 \/ ~c[3]

TurnInv(t) == StepsLeft(t) /\ InOrder(t) /\ OpenCalls(t)

\* Tools are registered from the first turn on.
Registered == \A t \in Turns : pc[t] # "idle" => bound \in Sessions

IInv == TypeOK /\ Registered /\ \A t \in Turns : TurnInv(t)
-----------------------------------------------------------------------------
\* Carrying out the next call keeps the order.
LEMMA HeadIsNext ==
    ASSUME NEW r \in Seq(Call), NEW q \in Seq(Call), NEW n \in Nat,
           q # <<>>, OneAnswer(q, n), Increasing(r), UpTo(r, n), Before(r, q, 1)
    PROVE  /\ Append(r, Head(q)) \in Seq(Call)
           /\ Increasing(Append(r, Head(q)))
           /\ UpTo(Append(r, Head(q)), n)
           /\ Before(Append(r, Head(q)), q, 2)
<1> DEFINE s == Append(r, Head(q))
<1>1. /\ Len(q) \in Nat /\ Len(q) >= 1 /\ Head(q) = q[1] /\ Len(r) \in Nat
      /\ Head(q) \in Call
  OBVIOUS
<1>2. /\ s \in Seq(Call) /\ Len(s) = Len(r) + 1 /\ s[Len(r) + 1] = Head(q)
      /\ \A i \in 1 .. Len(r) : s[i] = r[i]
  BY <1>1
<1>3. \A i \in 1 .. Len(r) : r[i] \in Call
  OBVIOUS
<1> HIDE DEF s
<1>4. Increasing(s)
  <2>1. ASSUME NEW i \in 1 .. Len(s), NEW j \in 1 .. Len(s), i < j
        PROVE  Earlier(s[i], s[j])
    <3>1. i \in 1 .. Len(r) /\ s[i] = r[i]
      BY <2>1, <1>1, <1>2
    <3>2. CASE j \in 1 .. Len(r)
      BY <2>1, <3>1, <3>2, <1>2 DEF Increasing
    <3>3. CASE j = Len(r) + 1
      <4>1. s[j] = q[1] /\ 1 \in 1 .. Len(q)
        BY <3>3, <1>1, <1>2
      <4> QED
        BY <4>1, <3>1 DEF Before
    <3> QED
      BY <3>2, <3>3, <1>1, <1>2
  <2> QED
    BY <2>1 DEF Increasing
<1>5. UpTo(s, n)
  BY <1>1, <1>2 DEF UpTo, OneAnswer
<1>6. Before(s, q, 2)
  <2>1. ASSUME NEW i \in 1 .. Len(s), NEW j \in 2 .. Len(q)
        PROVE  Earlier(s[i], q[j])
    <3>1. j \in 1 .. Len(q) /\ 1 \in 1 .. Len(q) /\ 1 < j
      BY <1>1
    <3>2. CASE i \in 1 .. Len(r)
      BY <3>1, <3>2, <1>2 DEF Before
    <3>3. CASE i = Len(r) + 1
      <4>1. s[i] = q[1]
        BY <3>3, <1>1, <1>2
      <4> QED
        BY <4>1, <3>1 DEF OneAnswer, Earlier
    <3> QED
      BY <3>2, <3>3, <1>1, <1>2
  <2> QED
    BY <2>1 DEF Before
<1> QED
  BY <1>2, <1>4, <1>5, <1>6 DEF s

\* What comes after the call that was carried out.
LEMMA TailIsNext ==
    ASSUME NEW r \in Seq(Call), NEW q \in Seq(Call), NEW n \in Nat,
           q # <<>>, OneAnswer(q, n), Before(r, q, 2)
    PROVE  /\ Tail(q) \in Seq(Call)
           /\ OneAnswer(Tail(q), n)
           /\ Before(r, Tail(q), 1)
           /\ Elements(q) = {Head(q)} \union Elements(Tail(q))
<1> DEFINE s == Tail(q)
<1>1. /\ s \in Seq(Call) /\ Len(q) \in Nat /\ Len(q) >= 1 /\ Head(q) = q[1]
      /\ Len(s) = Len(q) - 1
      /\ \A i \in 1 .. Len(s) : s[i] = q[i + 1]
  <2>1. Len(q) \in Nat /\ Len(q) >= 1 /\ Head(q) = q[1]
    OBVIOUS
  <2>2. s \in Seq(Call) /\ Len(s) = Len(q) - 1
    BY HeadTailProperties
  <2>3. \A i \in 1 .. Len(s) : s[i] = q[i + 1]
    BY HeadTailProperties, <2>1, <2>2
  <2> QED
    BY <2>1, <2>2, <2>3
<1> HIDE DEF s
<1>2. OneAnswer(s, n)
  <2>1. ASSUME NEW i \in 1 .. Len(s), NEW j \in 1 .. Len(s)
        PROVE  s[i][1] = n /\ (i < j => s[i][2] < s[j][2])
    <3>1. /\ i + 1 \in 1 .. Len(q) /\ s[i] = q[i + 1]
          /\ j + 1 \in 1 .. Len(q) /\ s[j] = q[j + 1]
          /\ i < j => i + 1 < j + 1
      BY <1>1
    <3> QED
      BY <3>1 DEF OneAnswer
  <2> QED
    BY <2>1 DEF OneAnswer
<1>3. Before(r, s, 1)
  <2>1. ASSUME NEW i \in 1 .. Len(r), NEW j \in 1 .. Len(s)
        PROVE  Earlier(r[i], s[j])
    <3>1. j + 1 \in 2 .. Len(q) /\ s[j] = q[j + 1]
      BY <1>1
    <3> QED
      BY <3>1 DEF Before
  <2> QED
    BY <2>1 DEF Before
<1>4. Elements(q) = {Head(q)} \union Elements(s)
  <2>1. ASSUME NEW i \in 1 .. Len(q)
        PROVE  q[i] = Head(q) \/ q[i] \in Elements(s)
    <3>1. CASE i = 1
      BY <3>1, <1>1
    <3>2. CASE i # 1
      <4>1. i - 1 \in 1 .. Len(s) /\ s[i - 1] = q[i]
        BY <3>2, <1>1
      <4> QED
        BY <4>1 DEF Elements
    <3> QED
      BY <3>1, <3>2
  <2>2. ASSUME NEW i \in 1 .. Len(s)
        PROVE  s[i] \in Elements(q)
    BY <1>1 DEF Elements
  <2>3. Head(q) \in Elements(q)
    BY <1>1 DEF Elements
  <2> QED
    BY <2>1, <2>2, <2>3 DEF Elements
<1> QED
  BY <1>1, <1>2, <1>3, <1>4 DEF s

\* The calls of a new answer come after everything that was carried out.
LEMMA NewAnswer ==
    ASSUME NEW r \in Seq(Call), NEW n \in Nat, NEW k \in 0 .. MaxCalls,
           UpTo(r, n - 1), NEW b \in BOOLEAN
    PROVE  LET q == [i \in 1 .. k |-> <<n, i, b>>]
           IN /\ q \in Seq(Call) /\ Len(q) = k
              /\ OneAnswer(q, n)
              /\ Before(r, q, 1)
<1> DEFINE q == [i \in 1 .. k |-> <<n, i, b>>]
<1>0. MaxCalls \in Nat
  BY TurnAssumption
<1>1. /\ \A i \in 1 .. k : <<n, i, b>> \in Call
      /\ k \in Nat
  BY <1>0 DEF Call
<1>2. q \in Seq(Call) /\ Len(q) = k /\ \A i \in 1 .. k : q[i] = <<n, i, b>>
  BY <1>1
<1>3. \A i \in 1 .. Len(r) : r[i] \in Call
  OBVIOUS
<1>4. \A i \in 1 .. Len(r) : r[i][1] \in Nat
  BY <1>3 DEF Call
<1> HIDE DEF q
<1>5. OneAnswer(q, n)
  BY <1>1, <1>2 DEF OneAnswer
<1>6. Before(r, q, 1)
  BY <1>1, <1>2, <1>4 DEF Before, UpTo, Earlier
<1> QED
  BY <1>2, <1>5, <1>6 DEF q

\* With nothing to do there is nothing to compare.
LEMMA NothingToDo ==
    ASSUME NEW r, NEW n, NEW k \in {1, 2}
    PROVE  <<>> \in Seq(Call) /\ OneAnswer(<<>>, n) /\ Before(r, <<>>, k)
  BY DEF OneAnswer, Before
-----------------------------------------------------------------------------
\* The result of a call leaves the calls in order, whether the call was
\* carried out (then it is the last of ran') or refused.
LEMMA ResultKeepsOrder ==
    ASSUME TypeOK, NEW t \in Turns, TurnInv(t), NEW observations,
           pc[t] \in {"tool", "command"}, Result(t, observations),
           mode' = mode, asks' = asks, ran'[t] \in Seq(Call),
           Increasing(ran'[t]), UpTo(ran'[t], asks[t]),
           Before(ran'[t], todo[t], 2)
    PROVE  /\ TurnInv(t)'
           /\ todo' \in [Turns -> Seq(Call)] /\ open' \in [Turns -> SUBSET Call]
           /\ steps' \in [Turns -> 0 .. MaxSteps]
           /\ pc' \in [Turns -> Labels]
           /\ pc'[t] \in {"ask", "tool"}
           /\ pc'[t] = "tool" <=> todo'[t] # <<>>
<1> DEFINE q == todo[t]
           r == ran'[t]
           answered == {c \in {Head(q)} : c[3]}
<1>1. /\ q \in Seq(Call) /\ q # <<>> /\ r \in Seq(Call) /\ asks[t] \in Nat
      /\ asks'[t] = asks[t] /\ mode'[t] = mode[t]
      /\ mode[t] \in {"react", "native"}
      /\ todo \in [Turns -> Seq(Call)] /\ open \in [Turns -> SUBSET Call]
      /\ steps \in [Turns -> 0 .. MaxSteps] /\ pc \in [Turns -> Labels]
  BY DEF TypeOK, Labels
<1>2. OneAnswer(q, asks[t])
  BY DEF TurnInv, InOrder
<1>3. /\ Tail(q) \in Seq(Call) /\ OneAnswer(Tail(q), asks[t])
      /\ Before(r, Tail(q), 1)
      /\ Elements(q) = {Head(q)} \union Elements(Tail(q))
  BY <1>1, <1>2, TailIsNext
<1>4. <<>> \in Seq(Call) /\ OneAnswer(<<>>, asks[t]) /\ Before(r, <<>>, 1)
  BY NothingToDo
<1>5. Increasing(r) /\ UpTo(r, asks[t])
  OBVIOUS
<1>6. Head(q) = q[1] /\ Head(q) \in Call /\ Len(q) \in Nat /\ Len(q) >= 1
  BY <1>1
<1>7. Elements(q) \subseteq Call
  BY <1>1 DEF Elements
<1>8. CASE mode[t] = "native"
  <2>1. /\ todo' = [todo EXCEPT ![t] = Tail(q)]
        /\ open' = [open EXCEPT ![t] = @ \ {Head(q)}]
        /\ pc' = [pc EXCEPT ![t] = IF Tail(q) = <<>> THEN "ask" ELSE "tool"]
        /\ steps' = steps
    BY <1>8 DEF Result, Goto
  <2>2. /\ todo' \in [Turns -> Seq(Call)] /\ todo'[t] = Tail(q)
        /\ open' \in [Turns -> SUBSET Call] /\ open'[t] = open[t] \ {Head(q)}
        /\ pc' \in [Turns -> Labels]
        /\ pc'[t] = IF Tail(q) = <<>> THEN "ask" ELSE "tool"
    BY <2>1, <1>1, <1>3 DEF Labels
  <2>3. InOrder(t)'
    BY <2>2, <1>1, <1>3, <1>5 DEF InOrder
  <2>4. OpenCalls(t)'
    <3>1. open[t] \subseteq Elements(q)
      BY <1>8 DEF TurnInv, OpenCalls
    <3>2. open'[t] \subseteq Elements(todo'[t])
      BY <3>1, <2>2, <1>3
    <3> QED
      BY <3>2, <1>1, <1>8 DEF OpenCalls, Elements
  <2>5. StepsLeft(t)'
    BY <1>8, <1>1 DEF StepsLeft
  <2> QED
    BY <2>1, <2>2, <2>3, <2>4, <2>5, <1>1 DEF TurnInv
<1>9. CASE mode[t] # "native"
  <2>0. mode[t] = "react"
    BY <1>9, <1>1
  <2>1. /\ todo' = [todo EXCEPT ![t] = <<>>]
        /\ open' = [open EXCEPT ![t] = @ \union (Elements(q) \ answered)]
        /\ steps' = [steps EXCEPT ![t] = @ + 1]
        /\ pc' = [pc EXCEPT ![t] = "ask"]
    BY <1>9 DEF Result, Goto, Elements
  <2>2. /\ todo' \in [Turns -> Seq(Call)] /\ todo'[t] = <<>>
        /\ open' \in [Turns -> SUBSET Call]
        /\ open'[t] = open[t] \union (Elements(q) \ answered)
        /\ pc' \in [Turns -> Labels] /\ pc'[t] = "ask"
        /\ steps'[t] = steps[t] + 1
    BY <2>1, <1>1, <1>4, <1>7 DEF Labels
  <2>3. InOrder(t)'
    BY <2>2, <1>1, <1>4, <1>5 DEF InOrder
  <2>4. OpenCalls(t)'
    <3>1. \A c \in open[t] : c[2] > 1 \/ ~c[3]
      BY <1>9 DEF TurnInv, OpenCalls
    <3>2. ASSUME NEW c \in Elements(q), c \notin answered, c[3]
          PROVE  c[2] > 1
      <4>1. PICK i \in 1 .. Len(q) : c = q[i]
        BY <3>2 DEF Elements
      <4>2. i # 1 /\ 1 \in 1 .. Len(q) /\ 1 < i
        BY <4>1, <3>2, <1>6
      <4>3. q[1][2] < q[i][2]
        BY <4>2, <1>2 DEF OneAnswer
      <4>4. q[1] \in Nat \X (1 .. MaxCalls) \X BOOLEAN /\ q[i] \in Nat \X (1 .. MaxCalls) \X BOOLEAN
        BY <1>1, <4>2 DEF Call
      <4>5. q[1][2] \in 1 .. MaxCalls /\ q[i][2] \in 1 .. MaxCalls
        BY <4>4
      <4> QED
        BY <4>1, <4>3, <4>5, TurnAssumption
    <3> QED
      BY <3>1, <3>2, <2>2, <1>1, <1>9 DEF OpenCalls
  <2>5. StepsLeft(t)' /\ steps' \in [Turns -> 0 .. MaxSteps]
    <3>1. steps[t] < MaxSteps /\ asks[t] = steps[t] + 1 /\ asks[t] <= MaxSteps
      BY <2>0 DEF TurnInv, StepsLeft
    <3>2. steps[t] \in 0 .. MaxSteps /\ steps[t] + 1 \in 0 .. MaxSteps
      BY <3>1, <1>1, TurnAssumption
    <3> QED
      BY <3>1, <3>2, <2>1, <2>2, <1>1 DEF StepsLeft
  <2> QED
    BY <2>2, <2>3, <2>4, <2>5 DEF TurnInv
<1> QED
  BY <1>8, <1>9
-----------------------------------------------------------------------------
\* What a step leaves of a turn it is not a step of.
Same(u) ==
    /\ mode'[u] = mode[u] /\ pc'[u] = pc[u] /\ steps'[u] = steps[u]
    /\ asks'[u] = asks[u] /\ todo'[u] = todo[u] /\ open'[u] = open[u]
    /\ ran'[u] = ran[u] /\ events'[u] = events[u] /\ process'[u] = process[u]

\* A turn takes its steps on its own state; what turns share (bound, touched)
\* has no part in the invariant.
LEMMA OthersStay ==
    ASSUME TypeOK, NEW t \in Turns, Begin(t) \/ Step(t) \/ Close(t),
           NEW u \in Turns, u # t
    PROVE  Same(u)
<1> USE DEF TypeOK, Goto, Yield, Same, tools
<1>1. CASE Begin(t)
  BY <1>1 DEF Begin
<1>2. CASE Prompt(t)
  BY <1>2 DEF Prompt, Fail
<1>3. CASE Ask(t)
  BY <1>3 DEF Ask
<1>4. ASSUME NEW r \in Response, ReactAnswer(t, r)
      PROVE  Same(u)
  BY <1>4 DEF ReactAnswer
<1>5. ASSUME NEW r \in Response, NativeAnswer(t, r)
      PROVE  Same(u)
  BY <1>5 DEF NativeAnswer
<1>6. CASE ModelFails(t)
  BY <1>6 DEF ModelFails
<1>7. CASE RunTool(t)
  BY <1>7 DEF RunTool, Result, Uses
<1>8. CASE RefuseTool(t)
  BY <1>8 DEF RefuseTool, Result
<1>9. CASE Spawn(t)
  BY <1>9 DEF Spawn, Uses
<1>10. CASE Close(t)
  BY <1>10 DEF Close, Result
<1>11. CASE Timeout(t)
  BY <1>11 DEF Timeout, Result
<1> QED
  BY <1>1, <1>2, <1>3, <1>4, <1>5, <1>6, <1>7, <1>8, <1>9, <1>10, <1>11
     DEF Step, Answer

LEMMA SameKeeps ==
    ASSUME NEW u \in Turns, TurnInv(u), Same(u)
    PROVE  TurnInv(u)'
  BY DEF TurnInv, StepsLeft, InOrder, OpenCalls, Same

\* A step in which a turn neither gets nor carries out a call.
LEMMA NoCall ==
    ASSUME TypeOK, NEW t \in Turns, TurnInv(t),
           mode' = mode, todo' = todo, open' = open, ran' = ran, asks' = asks,
           todo[t] = <<>>, pc'[t] # "stream", StepsLeft(t)'
    PROVE  TurnInv(t)'
<1>1. ran[t] \in Seq(Call) /\ asks[t] \in Nat
  BY DEF TypeOK
<1>2. UpTo(ran[t], asks[t])
  <2>1. \A i \in 1 .. Len(ran[t]) : ran[t][i] \in Nat \X (1 .. MaxCalls) \X BOOLEAN
    BY <1>1 DEF Call
  <2>2. \A i \in 1 .. Len(ran[t]) : ran[t][i][1] \in Nat
    BY <2>1
  <2> QED
    BY <1>1, <2>2 DEF TurnInv, InOrder, UpTo
<1>3. \A k \in {1, 2} : Before(ran[t], <<>>, k)
  BY NothingToDo
<1>4. InOrder(t)'
  BY <1>2, <1>3 DEF TurnInv, InOrder
<1>5. OpenCalls(t)'
  BY DEF TurnInv, OpenCalls
<1> QED
  BY <1>4, <1>5 DEF TurnInv
-----------------------------------------------------------------------------
LEMMA YieldTyped ==
    ASSUME events \in [Turns -> Seq(Kinds)], NEW t \in Turns, NEW es \in Seq(Kinds),
           Yield(t, es)
    PROVE  events' \in [Turns -> Seq(Kinds)] /\ events'[t] = events[t] \o es
<1>1. events[t] \o es \in Seq(Kinds)
  OBVIOUS
<1> QED
  BY <1>1 DEF Yield

LEMMA Texts ==
    /\ \A r \in Response : r.tag \in {"none", "done", "handoff"}
                           /\ r.block \in BOOLEAN /\ r.calls \in 0 .. MaxCalls
                           /\ r.ids \in BOOLEAN
                           /\ Parsed(r) \in {"none", "done", "handoff"}
    /\ <<>> \in Seq(Kinds) /\ <<"text">> \in Seq(Kinds) /\ <<"error">> \in Seq(Kinds)
    /\ \A k \in Kinds : <<k>> \in Seq(Kinds) /\ <<"text", k>> \in Seq(Kinds)
  BY DEF Response, Parsed, Kinds

LEMMA BeginKeeps ==
    ASSUME TypeOK, NEW t \in Turns, TurnInv(t), Begin(t)
    PROVE  TypeOK' /\ TurnInv(t)'
<1>1. TypeOK'
  BY DEF Begin, TypeOK, Goto
<1>2. pc' = [pc EXCEPT ![t] = "prompt"] /\ pc[t] = "idle" /\ pc'[t] = "prompt"
  BY DEF Begin, TypeOK, Goto
<1>3. StepsLeft(t)'
  BY <1>2 DEF Begin, TurnInv, StepsLeft
<1> QED
  BY <1>1, <1>2, <1>3, NoCall DEF Begin, TypeOK

LEMMA PromptKeeps ==
    ASSUME TypeOK, NEW t \in Turns, TurnInv(t), Prompt(t)
    PROVE  TypeOK' /\ TurnInv(t)'
<1>1. /\ pc[t] = "prompt" /\ todo[t] = <<>>
      /\ pc' \in [Turns -> Labels] /\ pc'[t] \in {"ask", "over"}
      /\ \A u \in Turns \ {t} : pc'[u] = pc[u]
  BY DEF Prompt, Fail, TypeOK, Goto, Labels
<1>2. events' \in [Turns -> Seq(Kinds)]
  BY YieldTyped, Texts DEF Prompt, Fail, TypeOK, Kinds
<1>3. threw' \subseteq {u \in Turns : mode[u] = "native"}
  BY DEF Prompt, Fail, TypeOK
<1>4. TypeOK'
  BY <1>1, <1>2, <1>3 DEF Prompt, TypeOK, tools, Labels, Kinds
<1>5. StepsLeft(t)'
  BY <1>1 DEF Prompt, TurnInv, StepsLeft
<1> QED
  BY <1>1, <1>4, <1>5, NoCall DEF Prompt, tools

LEMMA ModelFailsKeeps ==
    ASSUME TypeOK, NEW t \in Turns, TurnInv(t), ModelFails(t)
    PROVE  TypeOK' /\ TurnInv(t)'
<1>1. /\ pc[t] = "stream" /\ todo[t] = <<>>
      /\ pc' \in [Turns -> Labels] /\ pc'[t] = "over"
      /\ \A u \in Turns \ {t} : pc'[u] = pc[u]
  BY DEF ModelFails, TypeOK, Goto, Labels
<1>2. events' \in [Turns -> Seq(Kinds)]
  BY YieldTyped, Texts DEF ModelFails, TypeOK, Kinds
<1>3. threw' \subseteq {u \in Turns : mode[u] = "native"}
  BY DEF ModelFails, TypeOK
<1>4. TypeOK'
  BY <1>1, <1>2, <1>3 DEF ModelFails, TypeOK, tools, Labels, Kinds
<1>5. StepsLeft(t)'
  BY <1>1 DEF ModelFails, TurnInv, StepsLeft
<1> QED
  BY <1>1, <1>4, <1>5, NoCall DEF ModelFails, tools

\* A new request makes room for the calls of its answer: they come after all
\* that was carried out.
LEMMA AskKeeps ==
    ASSUME TypeOK, NEW t \in Turns, TurnInv(t), Ask(t)
    PROVE  TypeOK' /\ TurnInv(t)'
<1>1. CASE mode[t] = "react" /\ steps[t] >= MaxSteps
  <2>1. /\ pc[t] = "ask" /\ todo[t] = <<>> /\ pc' = [pc EXCEPT ![t] = "over"]
        /\ UNCHANGED asks
    BY <1>1 DEF Ask, TypeOK, Goto
  <2>2. TypeOK' /\ pc'[t] = "over"
    BY <2>1 DEF Ask, TypeOK, tools
  <2>3. StepsLeft(t)'
    BY <2>1, <2>2 DEF Ask, TurnInv, StepsLeft
  <2> QED
    BY <2>1, <2>2, <2>3, NoCall DEF Ask, tools
<1>2. CASE ~(mode[t] = "react" /\ steps[t] >= MaxSteps)
  <2>1. /\ pc[t] = "ask" /\ todo[t] = <<>>
        /\ pc' = [pc EXCEPT ![t] = "stream"]
        /\ asks' = [asks EXCEPT ![t] = @ + 1]
    BY <1>2 DEF Ask, TypeOK, Goto
  <2>2. TypeOK' /\ pc'[t] = "stream" /\ asks'[t] = asks[t] + 1 /\ asks[t] \in Nat
    BY <2>1 DEF Ask, TypeOK, tools
  <2>3. StepsLeft(t)'
    BY <1>2, <2>1, <2>2, TurnAssumption
       DEF Ask, TypeOK, TurnInv, StepsLeft
  <2>4. InOrder(t)'
    <3>1. /\ todo'[t] = <<>> /\ ran'[t] = ran[t]
          /\ Increasing(ran[t]) /\ UpTo(ran[t], asks[t])
      BY <2>1 DEF Ask, tools, TurnInv, InOrder
    <3>2. OneAnswer(<<>>, asks'[t]) /\ Before(ran[t], <<>>, 1)
      BY NothingToDo
    <3>3. asks'[t] - 1 = asks[t]
      BY <2>2
    <3> QED
      BY <2>2, <3>1, <3>2, <3>3 DEF InOrder
  <2>5. OpenCalls(t)'
    BY DEF Ask, TurnInv, OpenCalls
  <2> QED
    BY <2>2, <2>3, <2>4, <2>5 DEF TurnInv
<1> QED
  BY <1>1, <1>2

\* At the model's answer there is nothing left to do of the one before.
LEMMA AnswerIsNew ==
    ASSUME TypeOK, NEW t \in Turns, TurnInv(t), NEW r \in Response,
           pc[t] = "stream"
    PROVE  /\ Calls(t, r) \in Seq(Call) /\ Len(Calls(t, r)) = r.calls
           /\ OneAnswer(Calls(t, r), asks[t])
           /\ Before(ran[t], Calls(t, r), 1)
           /\ Increasing(ran[t]) /\ UpTo(ran[t], asks[t])
           /\ r.calls \in Nat
<1>1. /\ ran[t] \in Seq(Call) /\ asks[t] \in Nat
      /\ Increasing(ran[t]) /\ UpTo(ran[t], asks[t] - 1)
  BY DEF TypeOK, TurnInv, InOrder
<1>2. r.calls \in 0 .. MaxCalls /\ MaxCalls \in Nat /\ r.ids \in BOOLEAN
  BY Texts, TurnAssumption
<1>3. \A i \in 1 .. Len(ran[t]) : ran[t][i] \in Nat \X (1 .. MaxCalls) \X BOOLEAN
  BY <1>1 DEF Call
<1>4. \A i \in 1 .. Len(ran[t]) : ran[t][i][1] \in Nat
  BY <1>3
<1>5. UpTo(ran[t], asks[t])
  BY <1>1, <1>4 DEF UpTo
<1> QED
  BY <1>1, <1>2, <1>5, NewAnswer DEF Calls

LEMMA ReactAnswerKeeps ==
    ASSUME TypeOK, NEW t \in Turns, TurnInv(t), NEW r \in Response,
           ReactAnswer(t, r)
    PROVE  TypeOK' /\ TurnInv(t)'
<1>0. /\ pc[t] = "stream" /\ mode[t] = "react" /\ todo[t] = <<>>
      /\ steps[t] < MaxSteps /\ asks[t] = steps[t] + 1 /\ asks[t] <= MaxSteps
      /\ steps[t] \in 0 .. MaxSteps /\ MaxSteps \in Nat
  BY TurnAssumption DEF ReactAnswer, TypeOK, TurnInv, StepsLeft
<1>1. CASE /\ Parsed(r) # "none"
           /\ \E thought \in {<<>>, <<"text">>} : Yield(t, Append(thought, Parsed(r)))
           /\ Goto(t, "over")
           /\ UNCHANGED <<steps, todo>>
  <2>1. Parsed(r) \in Kinds
    BY <1>1, Texts DEF Kinds
  <2>2. PICK thought \in {<<>>, <<"text">>} : Yield(t, Append(thought, Parsed(r)))
    BY <1>1
  <2>3. Append(thought, Parsed(r)) \in Seq(Kinds)
    <3>1. thought \in Seq(Kinds)
      BY Texts
    <3> QED
      BY <3>1, <2>1
  <2>4. events' \in [Turns -> Seq(Kinds)]
    BY <2>2, <2>3, YieldTyped DEF TypeOK, Kinds
  <2>5. pc' = [pc EXCEPT ![t] = "over"]
    BY <1>1 DEF Goto
  <2>6. TypeOK' /\ pc'[t] = "over"
    BY <1>0, <1>1, <2>4, <2>5 DEF ReactAnswer, TypeOK, tools, Kinds
  <2>7. StepsLeft(t)'
    BY <1>0, <1>1, <2>6 DEF ReactAnswer, StepsLeft
  <2> QED
    BY <1>0, <1>1, <2>6, <2>7, NoCall DEF ReactAnswer, tools
<1>2. CASE /\ Parsed(r) = "none" /\ r.text /\ r.calls > 0
           /\ todo' = [todo EXCEPT ![t] = Calls(t, r)]
           /\ Goto(t, "tool")
           /\ UNCHANGED <<steps, events>>
  <2>1. /\ Calls(t, r) \in Seq(Call) /\ Len(Calls(t, r)) = r.calls
        /\ OneAnswer(Calls(t, r), asks[t])
        /\ Before(ran[t], Calls(t, r), 1)
        /\ Increasing(ran[t]) /\ UpTo(ran[t], asks[t])
    BY <1>0, AnswerIsNew
  <2>2. Calls(t, r) # <<>>
    BY <1>2, <2>1
  <2>3. /\ todo' \in [Turns -> Seq(Call)] /\ todo'[t] = Calls(t, r)
        /\ \A u \in Turns \ {t} : todo'[u] = todo[u]
        /\ pc' = [pc EXCEPT ![t] = "tool"] /\ pc'[t] = "tool"
    BY <1>2, <2>1 DEF TypeOK, Goto
  <2>4. TypeOK'
    BY <1>2, <2>2, <2>3 DEF ReactAnswer, TypeOK, tools
  <2>5. StepsLeft(t)'
    BY <1>0, <1>2, <2>3 DEF ReactAnswer, StepsLeft
  <2>6. InOrder(t)'
    BY <2>1, <2>3 DEF ReactAnswer, tools, InOrder
  <2>7. OpenCalls(t)'
    BY <1>0 DEF ReactAnswer, TurnInv, OpenCalls
  <2> QED
    BY <2>4, <2>5, <2>6, <2>7 DEF TurnInv
<1>3. CASE /\ Parsed(r) = "none" /\ ~(r.text /\ r.calls > 0)
           /\ Yield(t, IF r.text THEN <<"text">> ELSE <<>>)
           /\ steps' = [steps EXCEPT ![t] = @ + 1]
           /\ Goto(t, "ask")
           /\ UNCHANGED todo
  <2>1. events' \in [Turns -> Seq(Kinds)]
    BY <1>3, Texts, YieldTyped DEF TypeOK, Kinds
  <2>2. /\ steps[t] + 1 \in 0 .. MaxSteps
        /\ steps' \in [Turns -> 0 .. MaxSteps] /\ steps'[t] = steps[t] + 1
    BY <1>0, <1>3 DEF TypeOK
  <2>3. pc' = [pc EXCEPT ![t] = "ask"]
    BY <1>3 DEF Goto
  <2>4. TypeOK' /\ pc'[t] = "ask"
    BY <1>0, <1>3, <2>1, <2>2, <2>3 DEF ReactAnswer, TypeOK, tools, Kinds
  <2>5. StepsLeft(t)'
    BY <1>0, <2>2, <2>4 DEF ReactAnswer, StepsLeft
  <2> QED
    BY <1>0, <1>3, <2>4, <2>5, NoCall DEF ReactAnswer, tools
<1> QED
  BY <1>1, <1>2, <1>3 DEF ReactAnswer

LEMMA NativeAnswerKeeps ==
    ASSUME TypeOK, NEW t \in Turns, TurnInv(t), NEW r \in Response,
           NativeAnswer(t, r)
    PROVE  TypeOK' /\ TurnInv(t)'
<1> DEFINE q == Calls(t, r)
<1>0. /\ pc[t] = "stream" /\ mode[t] = "native" /\ todo[t] = <<>>
  BY DEF NativeAnswer, TypeOK
<1>1. /\ q \in Seq(Call) /\ Len(q) = r.calls /\ OneAnswer(q, asks[t])
      /\ Before(ran[t], q, 1) /\ Increasing(ran[t]) /\ UpTo(ran[t], asks[t])
  BY <1>0, AnswerIsNew
<1>2. q = <<>> <=> r.calls = 0
  BY <1>1
<1>3. open[t] = {}
  BY <1>0 DEF TurnInv, OpenCalls, Elements
<1>4. Elements(q) \subseteq Call
  BY <1>1 DEF Elements
<1>5. events' \in [Turns -> Seq(Kinds)]
  BY Texts, YieldTyped DEF NativeAnswer, TypeOK, Kinds
<1>6. /\ pc' = [pc EXCEPT ![t] = IF r.calls = 0 THEN "over" ELSE "tool"]
      /\ todo' = [todo EXCEPT ![t] = q]
      /\ open' = [open EXCEPT ![t] = @ \union Elements(q)]
  BY <1>1 DEF NativeAnswer, Goto, Elements
<1>7. /\ todo' \in [Turns -> Seq(Call)] /\ todo'[t] = q
      /\ \A u \in Turns \ {t} : todo'[u] = todo[u]
      /\ open' \in [Turns -> SUBSET Call] /\ open'[t] = Elements(q)
      /\ pc' \in [Turns -> Labels]
      /\ pc'[t] = (IF r.calls = 0 THEN "over" ELSE "tool")
      /\ \A u \in Turns \ {t} : pc'[u] = pc[u]
  BY <1>1, <1>3, <1>4, <1>6 DEF TypeOK, Labels
<1>8. /\ session' = session /\ mode' = mode /\ steps' = steps /\ asks' = asks
      /\ threw' = threw /\ process' = process /\ ran' = ran /\ touched' = touched
      /\ bound' = bound
  BY DEF NativeAnswer, tools
<1> HIDE DEF q
<1>9. TypeOK'
  BY <1>2, <1>5, <1>7, <1>8 DEF TypeOK, Labels, Kinds
<1>10. StepsLeft(t)'
  BY <1>0, <1>8 DEF StepsLeft
<1>11. InOrder(t)'
  BY <1>1, <1>7, <1>8 DEF InOrder
<1>12. OpenCalls(t)'
  BY <1>0, <1>7, <1>8 DEF OpenCalls, Elements
<1> QED
  BY <1>9, <1>10, <1>11, <1>12 DEF TurnInv
-----------------------------------------------------------------------------
\* The next call is the last that was carried out, and still the first to do.
LEMMA UsesKeeps ==
    ASSUME TypeOK, NEW t \in Turns, TurnInv(t), pc[t] = "tool", Uses(t)
    PROVE  /\ ran' \in [Turns -> Seq(Call)]
           /\ Increasing(ran'[t]) /\ UpTo(ran'[t], asks[t])
           /\ Before(ran'[t], todo[t], 2)
<1>1. /\ ran[t] \in Seq(Call) /\ todo[t] \in Seq(Call) /\ asks[t] \in Nat
      /\ todo[t] # <<>> /\ ran \in [Turns -> Seq(Call)]
  BY DEF TypeOK
<1>2. /\ OneAnswer(todo[t], asks[t]) /\ Increasing(ran[t])
      /\ UpTo(ran[t], asks[t]) /\ Before(ran[t], todo[t], 1)
  BY DEF TurnInv, InOrder
<1>3. ran' = [ran EXCEPT ![t] = Append(ran[t], Head(todo[t]))]
  BY DEF Uses
<1>4. Append(ran[t], Head(todo[t])) \in Seq(Call)
  BY <1>1
<1>5. /\ ran' \in [Turns -> Seq(Call)]
      /\ ran'[t] = Append(ran[t], Head(todo[t]))
  BY <1>1, <1>3, <1>4
<1> QED
  BY <1>1, <1>2, <1>5, HeadIsNext

\* A call that is refused, or whose command is over, is only taken from those
\* to do.
LEMMA RanStays ==
    ASSUME TypeOK, NEW t \in Turns, TurnInv(t), pc[t] \in {"tool", "command"}
    PROVE  /\ ran[t] \in Seq(Call) /\ Increasing(ran[t]) /\ UpTo(ran[t], asks[t])
           /\ Before(ran[t], todo[t], 2)
<1>1. /\ ran[t] \in Seq(Call) /\ todo[t] \in Seq(Call)
      /\ Increasing(ran[t]) /\ UpTo(ran[t], asks[t])
  BY DEF TypeOK, TurnInv, InOrder
<1>2. CASE pc[t] = "command"
  BY <1>1, <1>2 DEF TurnInv, InOrder
<1>3. CASE pc[t] = "tool"
  <2>1. Before(ran[t], todo[t], 1)
    BY <1>3 DEF TurnInv, InOrder
  <2>2. \A j \in 2 .. Len(todo[t]) : j \in 1 .. Len(todo[t])
    BY <1>1
  <2>3. Before(ran[t], todo[t], 2)
    BY <2>1, <2>2 DEF Before
  <2> QED
    BY <1>1, <2>3
<1> QED
  BY <1>2, <1>3

LEMMA ResultTyped ==
    ASSUME TypeOK, NEW t \in Turns, NEW observations \in SUBSET {<<>>, Shown},
           Result(t, observations)
    PROVE  /\ events' \in [Turns -> Seq(Kinds)]
           /\ \A u \in Turns \ {t} : pc'[u] = pc[u] /\ todo'[u] = todo[u]
<1>1. CASE mode[t] = "native"
  BY <1>1 DEF TypeOK, Result, Goto, Kinds
<1>2. CASE mode[t] # "native"
  <2>1. PICK shown \in observations : Yield(t, <<"text">> \o shown)
    BY <1>2 DEF Result
  <2>2. <<"text">> \o shown \in Seq(Kinds)
    <3>1. "text" \in Kinds /\ "observation" \in Kinds
      BY DEF Kinds
    <3>2. shown = <<>> \/ shown = <<"observation">>
      BY DEF Shown
    <3>3. <<"text">> \in Seq(Kinds) /\ <<"observation">> \in Seq(Kinds)
          /\ <<>> \in Seq(Kinds)
      BY <3>1
    <3>4. shown \in Seq(Kinds)
      BY <3>2, <3>3
    <3> QED
      BY <3>3, <3>4
  <2>3. events' \in [Turns -> Seq(Kinds)]
    BY <2>1, <2>2, YieldTyped DEF TypeOK, Kinds
  <2> QED
    BY <1>2, <2>3 DEF TypeOK, Result, Goto
<1> QED
  BY <1>1, <1>2

\* The step that a result is part of: RunTool, RefuseTool, Close, Timeout.
LEMMA ResultKeeps ==
    ASSUME TypeOK, NEW t \in Turns, TurnInv(t),
           NEW observations \in SUBSET {<<>>, Shown},
           pc[t] \in {"tool", "command"}, Result(t, observations),
           UNCHANGED <<session, mode, asks, threw, bound>>,
           process' \in [Turns -> {"none", "running", "killed"}],
           touched' \subseteq Sessions \X Sessions,
           \/ ran' = ran
           \/ pc[t] = "tool" /\ Uses(t)
    PROVE  TypeOK' /\ TurnInv(t)'
<1>1. /\ ran' \in [Turns -> Seq(Call)]
      /\ Increasing(ran'[t]) /\ UpTo(ran'[t], asks[t])
      /\ Before(ran'[t], todo[t], 2)
  BY UsesKeeps, RanStays DEF TypeOK
<1>2. ran'[t] \in Seq(Call)
  BY <1>1
<1>3. /\ TurnInv(t)'
      /\ todo' \in [Turns -> Seq(Call)] /\ open' \in [Turns -> SUBSET Call]
      /\ steps' \in [Turns -> 0 .. MaxSteps]
      /\ pc' \in [Turns -> Labels]
      /\ pc'[t] \in {"ask", "tool"}
      /\ pc'[t] = "tool" <=> todo'[t] # <<>>
  BY <1>1, <1>2, ResultKeepsOrder
<1>4. /\ events' \in [Turns -> Seq(Kinds)]
      /\ \A u \in Turns \ {t} : pc'[u] = pc[u] /\ todo'[u] = todo[u]
  BY ResultTyped
<1>5. \A u \in Turns : pc'[u] \in {"tool", "command"} <=> todo'[u] # <<>>
  BY <1>3, <1>4 DEF TypeOK
<1>6. TypeOK'
  BY <1>1, <1>3, <1>4, <1>5 DEF TypeOK, Labels, Kinds
<1> QED
  BY <1>3, <1>6

LEMMA RunToolKeeps ==
    ASSUME TypeOK, NEW t \in Turns, TurnInv(t), Registered, RunTool(t)
    PROVE  TypeOK' /\ TurnInv(t)'
<1>1. /\ pc[t] = "tool" /\ Uses(t) /\ Result(t, {<<>>, Shown})
      /\ UNCHANGED <<session, mode, asks, threw, process, bound>>
  BY DEF RunTool
<1>2. session[t] \in Sessions /\ bound \in Sessions
  BY <1>1 DEF TypeOK, Registered
<1>3. touched' \subseteq Sessions \X Sessions
  BY <1>2 DEF RunTool, InDirectory, TypeOK
<1>4. process' \in [Turns -> {"none", "running", "killed"}]
  BY <1>1 DEF TypeOK
<1> QED
  BY <1>1, <1>3, <1>4, ResultKeeps

LEMMA RefuseToolKeeps ==
    ASSUME TypeOK, NEW t \in Turns, TurnInv(t), RefuseTool(t)
    PROVE  TypeOK' /\ TurnInv(t)'
<1>1. /\ pc[t] = "tool" /\ Result(t, {Shown})
      /\ UNCHANGED <<session, mode, asks, threw, bound, process, ran, touched>>
  BY DEF RefuseTool, tools
<1>2. /\ process' \in [Turns -> {"none", "running", "killed"}]
      /\ touched' \subseteq Sessions \X Sessions
  BY <1>1 DEF TypeOK
<1> QED
  BY <1>1, <1>2, ResultKeeps

LEMMA EndOfCommandKeeps ==
    ASSUME TypeOK, NEW t \in Turns, TurnInv(t), Close(t) \/ Timeout(t)
    PROVE  TypeOK' /\ TurnInv(t)'
<1>1. /\ pc[t] = "command" /\ Result(t, {Shown})
      /\ UNCHANGED <<session, mode, asks, threw, bound, ran, touched>>
  BY DEF Close, Timeout
<1>2. /\ process' \in [Turns -> {"none", "running", "killed"}]
      /\ touched' \subseteq Sessions \X Sessions
  BY <1>1 DEF Close, Timeout, TypeOK
<1> QED
  BY <1>1, <1>2, ResultKeeps

LEMMA SpawnKeeps ==
    ASSUME TypeOK, NEW t \in Turns, TurnInv(t), Registered, Spawn(t)
    PROVE  TypeOK' /\ TurnInv(t)'
<1>1. /\ pc[t] = "tool" /\ Uses(t) /\ pc' = [pc EXCEPT ![t] = "command"]
      /\ UNCHANGED <<session, mode, steps, asks, todo, open, events, threw, bound>>
      /\ process' = [process EXCEPT ![t] = "running"]
  BY DEF Spawn, Goto
<1>2. touched' \subseteq Sessions \X Sessions
  BY <1>1 DEF Spawn, InDirectory, TypeOK, Registered
<1>3. /\ ran' \in [Turns -> Seq(Call)]
      /\ Increasing(ran'[t]) /\ UpTo(ran'[t], asks[t])
      /\ Before(ran'[t], todo[t], 2)
  BY <1>1, UsesKeeps
<1>4. /\ pc'[t] = "command"
      /\ pc' \in [Turns -> Labels]
      /\ \A u \in Turns : pc'[u] \in {"tool", "command"} <=> todo'[u] # <<>>
  BY <1>1 DEF TypeOK, Labels
<1>5. process' \in [Turns -> {"none", "running", "killed"}]
  BY <1>1 DEF TypeOK
<1>6. TypeOK'
  BY <1>1, <1>2, <1>3, <1>4, <1>5 DEF TypeOK, Labels
<1>7. StepsLeft(t)'
  BY <1>1, <1>4 DEF TurnInv, StepsLeft
<1>8. InOrder(t)'
  BY <1>1, <1>3, <1>4 DEF TurnInv, InOrder
<1>9. OpenCalls(t)'
  BY <1>1 DEF TurnInv, OpenCalls
<1> QED
  BY <1>6, <1>7, <1>8, <1>9 DEF TurnInv
-----------------------------------------------------------------------------
LEMMA RegisteredKeeps ==
    ASSUME TypeOK, Registered, NEW t \in Turns, Begin(t) \/ Step(t) \/ Close(t)
    PROVE  Registered'
<1>1. ASSUME NEW u \in Turns, u # t
      PROVE  pc'[u] = pc[u]
  BY <1>1, OthersStay DEF Same
<1>2. CASE Begin(t)
  <2>1. bound' \in Sessions
    BY <1>2 DEF Begin, TypeOK
  <2> QED
    BY <2>1 DEF Registered
<1>3. CASE ~Begin(t)
  <2>1. bound' = bound /\ pc[t] # "idle"
    BY <1>3 DEF Step, Prompt, Ask, Answer, ReactAnswer, NativeAnswer, ModelFails,
                RunTool, RefuseTool, Spawn, Timeout, Close, tools
  <2> QED
    BY <1>1, <2>1 DEF Registered
<1> QED
  BY <1>2, <1>3

LEMMA InitInv == Init => IInv
<1> SUFFICES ASSUME Init PROVE IInv
  OBVIOUS
<1>1. TypeOK
  BY TurnAssumption DEF Init, TypeOK
<1>2. Registered
  BY DEF Init, Registered
<1>3. ASSUME NEW t \in Turns
      PROVE  TurnInv(t)
  <2>1. StepsLeft(t)
    BY TurnAssumption DEF Init, StepsLeft
  <2>2. InOrder(t)
    BY DEF Init, InOrder, OneAnswer, Increasing, UpTo, Before
  <2>3. OpenCalls(t)
    BY DEF Init, OpenCalls
  <2> QED
    BY <2>1, <2>2, <2>3 DEF TurnInv
<1> QED
  BY <1>1, <1>2, <1>3 DEF IInv

LEMMA NextInv == IInv /\ [Next]_vars => IInv'
<1> SUFFICES ASSUME IInv, [Next]_vars PROVE IInv'
  OBVIOUS
<1>1. CASE UNCHANGED vars
  BY <1>1 DEF IInv, TypeOK, Registered, TurnInv, StepsLeft, InOrder, OpenCalls,
              Increasing, UpTo, Before, OneAnswer, Elements, vars, tools
<1>2. ASSUME NEW t \in Turns, Begin(t) \/ Step(t) \/ Close(t)
      PROVE  IInv'
  <2>1. TypeOK /\ Registered /\ TurnInv(t)
    BY DEF IInv
  <2>2. TypeOK' /\ TurnInv(t)'
    BY <1>2, <2>1, BeginKeeps, PromptKeeps, AskKeeps, ReactAnswerKeeps,
       NativeAnswerKeeps, ModelFailsKeeps, RunToolKeeps, RefuseToolKeeps,
       SpawnKeeps, EndOfCommandKeeps
       DEF Step, Answer
  <2>3. ASSUME NEW u \in Turns, u # t
        PROVE  TurnInv(u)'
    BY <1>2, <2>1, <2>3, OthersStay, SameKeeps DEF IInv
  <2>4. Registered'
    BY <1>2, <2>1, RegisteredKeeps
  <2> QED
    BY <2>2, <2>3, <2>4 DEF IInv
<1> QED
  BY <1>1, <1>2 DEF Next
-----------------------------------------------------------------------------
\* Every state of a turn is one of the states the code can be in.
THEOREM TypeCorrect == Spec => []TypeOK
<1>1. IInv => TypeOK
  BY DEF IInv
<1> QED
  BY <1>1, InitInv, NextInv, PTL DEF Spec

\* For every number of steps and calls: when an adapter asks the model again,
\* the calls of a native turn all have their tool messages, and those of a
\* ReAct turn that have none are behind the first of their answer or have no id
\* that a tool message could name.
THEOREM NoCallUnanswered == Spec => []CallsAnswered
<1>1. IInv => CallsAnswered
  <2> SUFFICES ASSUME IInv, NEW t \in Turns, pc[t] = "stream", NEW c \in open[t]
               PROVE  mode[t] = "react" /\ (c[2] > 1 \/ ~c[3])
    BY DEF CallsAnswered
  <2>1. todo[t] = <<>> /\ mode[t] \in {"react", "native"}
    BY DEF IInv, TypeOK
  <2>2. OpenCalls(t)
    BY DEF IInv, TurnInv
  <2> QED
    BY <2>1, <2>2 DEF OpenCalls, Elements
<1> QED
  BY <1>1, InitInv, NextInv, PTL DEF Spec

\* No call of the model is carried out twice, for any number of turns, steps
\* and calls, however many of them fail or are killed: each is carried out
\* before the next is looked at and never looked at again.
THEOREM NoCallTwice == Spec => []ExecutedOnce
<1>1. IInv => ExecutedOnce
  <2> SUFFICES ASSUME IInv PROVE ExecutedOnce
    OBVIOUS
  <2>1. ASSUME NEW t \in Turns, NEW i \in 1 .. Len(ran[t]),
               NEW j \in 1 .. Len(ran[t]), i < j
        PROVE  ran[t][i] # ran[t][j]
    <3>1. Earlier(ran[t][i], ran[t][j])
      BY <2>1 DEF IInv, TurnInv, InOrder, Increasing
    <3>2. ran[t] \in Seq(Call)
      BY DEF IInv, TypeOK
    <3>3. ran[t][i] \in Nat \X (1 .. MaxCalls) \X BOOLEAN
      BY <3>2 DEF Call
    <3>4. ran[t][i][1] \in Nat /\ ran[t][i][2] \in Int
      BY <3>3, TurnAssumption
    <3> QED
      BY <3>1, <3>4 DEF Earlier
  <2>2. ASSUME NEW t \in Turns, NEW i \in 1 .. Len(ran[t]),
               NEW j \in 1 .. Len(ran[t]), i # j
        PROVE  ran[t][i] # ran[t][j]
    <3>1. i < j \/ j < i
      BY <2>2
    <3> QED
      BY <2>1, <3>1
  <2> QED
    BY <2>2 DEF ExecutedOnce
<1> QED
  BY <1>1, InitInv, NextInv, PTL DEF Spec

\* What "maxSteps" promises of a ReAct turn, whatever the model answers: it
\* never asks more often than that.
AsksBounded == \A t \in Turns : mode[t] = "react" => asks[t] <= MaxSteps

THEOREM AsksAtMostMaxSteps == Spec => []AsksBounded
<1>1. IInv => AsksBounded
  BY DEF IInv, TurnInv, StepsLeft, AsksBounded
<1> QED
  BY <1>1, InitInv, NextInv, PTL DEF Spec
-----------------------------------------------------------------------------
\* No process is left to run that nobody waits for: a turn comes back from a
\* command only when it has closed or has been told to terminate.
THEOREM NoCommandLeft == Spec => []NoStrayCommand
<1>1. Init => NoStrayCommand
  BY DEF Init, NoStrayCommand
<1>2. TypeOK /\ NoStrayCommand /\ [Next]_vars => NoStrayCommand'
  <2> SUFFICES ASSUME TypeOK, NoStrayCommand, [Next]_vars
               PROVE  NoStrayCommand'
    OBVIOUS
  <2>1. CASE UNCHANGED vars
    BY <2>1 DEF NoStrayCommand, vars, tools
  <2>2. ASSUME NEW t \in Turns, Begin(t) \/ Step(t) \/ Close(t)
        PROVE  NoStrayCommand'
    <3>1. ASSUME NEW u \in Turns, u # t, process'[u] = "running"
          PROVE  pc'[u] = "command"
      BY <2>2, <3>1, OthersStay DEF Same, NoStrayCommand
    <3>2. process'[t] = "running" => pc'[t] = "command"
      <4>1. CASE Spawn(t)
        BY <4>1 DEF Spawn, Goto, TypeOK
      <4>2. CASE Close(t) \/ Timeout(t)
        BY <4>2 DEF Close, Timeout, TypeOK
      <4>3. CASE ~(Spawn(t) \/ Close(t) \/ Timeout(t))
        <5>1. process' = process /\ pc[t] # "command"
          BY <2>2, <4>3
             DEF Step, Begin, Prompt, Ask, Answer, ReactAnswer, NativeAnswer,
                 ModelFails, RunTool, RefuseTool, tools
        <5> QED
          BY <5>1 DEF NoStrayCommand
      <4> QED
        BY <4>1, <4>2, <4>3
    <3> QED
      BY <3>1, <3>2 DEF NoStrayCommand
  <2> QED
    BY <2>1, <2>2 DEF Next
<1> QED
  BY <1>1, <1>2, TypeCorrect, PTL DEF Spec
-----------------------------------------------------------------------------
\* Events after which a turn yields nothing.
Ends == {"done", "handoff", "error"}
NoEnd(es) == \A i \in 1 .. Len(es) : es[i] \notin Ends

\* A turn that goes on has not yielded an end yet.
EndsAt(es, label) ==
    \A i \in 1 .. Len(es) : es[i] \in Ends => i = Len(es) /\ label = "over"

LEMMA GoesOn ==
    ASSUME NEW es, NEW label, EndsAt(es, label), label # "over"
    PROVE  NoEnd(es)
  BY DEF EndsAt, NoEnd

LEMMA NoEndStays ==
    ASSUME NEW es \in Seq(Kinds), NoEnd(es), NEW more \in Seq(Kinds), NoEnd(more),
           NEW label
    PROVE  EndsAt(es \o more, label)
<1>1. \A i \in 1 .. Len(es \o more) : (es \o more)[i] \notin Ends
  BY DEF NoEnd
<1> QED
  BY <1>1 DEF EndsAt

LEMMA EndComesLast ==
    ASSUME NEW es \in Seq(Kinds), NoEnd(es), NEW more \in Seq(Kinds), NoEnd(more),
           NEW end \in Kinds
    PROVE  EndsAt(es \o Append(more, end), "over")
<1> DEFINE all == es \o Append(more, end)
<1>1. /\ Len(es) \in Nat /\ Len(more) \in Nat
      /\ Len(all) = Len(es) + Len(more) + 1
  OBVIOUS
<1>2. ASSUME NEW i \in 1 .. Len(es)
      PROVE  all[i] = es[i]
  BY <1>1
<1>3. ASSUME NEW i \in 1 .. Len(more)
      PROVE  all[Len(es) + i] = more[i]
  BY <1>1
<1> HIDE DEF all
<1>4. ASSUME NEW i \in 1 .. Len(all), all[i] \in Ends
      PROVE  i = Len(all)
  <2>1. CASE i <= Len(es)
    BY <1>1, <1>2, <1>4, <2>1 DEF NoEnd
  <2>2. CASE i > Len(es) /\ i # Len(all)
    <3>1. i - Len(es) \in 1 .. Len(more) /\ Len(es) + (i - Len(es)) = i
      BY <1>1, <2>2
    <3>2. all[i] = more[i - Len(es)]
      BY <1>3, <3>1
    <3> QED
      BY <1>4, <3>1, <3>2 DEF NoEnd
  <2> QED
    BY <1>1, <2>1, <2>2
<1>5. EndsAt(all, "over")
  BY <1>4 DEF EndsAt
<1> QED
  BY <1>5 DEF all

LEMMA Plain ==
    /\ NoEnd(<<>>) /\ NoEnd(<<"text">>)
    /\ NoEnd(<<"text">> \o <<>>) /\ NoEnd(<<"text">> \o Shown)
    /\ <<"text">> \o <<>> \in Seq(Kinds) /\ <<"text">> \o Shown \in Seq(Kinds)
    /\ <<>> \in Seq(Kinds) /\ <<"text">> \in Seq(Kinds)
    /\ <<"error">> = Append(<<>>, "error")
  BY DEF NoEnd, Ends, Shown, Kinds

\* Yielding what is no end, wherever the turn goes.
LEMMA YieldsPlain ==
    ASSUME TypeOK, NEW t \in Turns, EndsAt(events[t], pc[t]), pc[t] # "over",
           NEW more \in Seq(Kinds), NoEnd(more), Yield(t, more)
    PROVE  EndsAt(events'[t], pc'[t])
<1>1. events[t] \in Seq(Kinds) /\ events \in [Turns -> Seq(Kinds)]
  BY DEF TypeOK, Kinds
<1>2. events'[t] = events[t] \o more
  BY <1>1, YieldTyped
<1> QED
  BY <1>1, <1>2, GoesOn, NoEndStays

LEMMA YieldsEnd ==
    ASSUME TypeOK, NEW t \in Turns, EndsAt(events[t], pc[t]), pc[t] # "over",
           NEW more \in Seq(Kinds), NoEnd(more), NEW end \in Kinds,
           Yield(t, Append(more, end)), Goto(t, "over")
    PROVE  EndsAt(events'[t], pc'[t])
<1>1. events[t] \in Seq(Kinds) /\ events \in [Turns -> Seq(Kinds)]
  BY DEF TypeOK, Kinds
<1>2. Append(more, end) \in Seq(Kinds)
  OBVIOUS
<1>3. events'[t] = events[t] \o Append(more, end) /\ pc'[t] = "over"
  BY <1>1, <1>2, YieldTyped DEF TypeOK, Goto
<1>4. NoEnd(events[t])
  BY GoesOn
<1> QED
  BY <1>1, <1>3, <1>4, EndComesLast

LEMMA YieldsNothing ==
    ASSUME TypeOK, NEW t \in Turns, EndsAt(events[t], pc[t]), pc[t] # "over",
           events' = events
    PROVE  EndsAt(events'[t], pc'[t])
  BY DEF EndsAt

LEMMA ResultIsNoEnd ==
    ASSUME TypeOK, NEW t \in Turns, EndsAt(events[t], pc[t]), pc[t] # "over",
           NEW observations \in SUBSET {<<>>, Shown}, Result(t, observations)
    PROVE  EndsAt(events'[t], pc'[t])
<1>1. CASE mode[t] = "native"
  BY <1>1, YieldsNothing DEF Result
<1>2. CASE mode[t] # "native"
  <2>1. PICK shown \in observations : Yield(t, <<"text">> \o shown)
    BY <1>2 DEF Result
  <2>2. NoEnd(<<"text">> \o shown) /\ <<"text">> \o shown \in Seq(Kinds)
    BY Plain
  <2> QED
    BY <2>1, <2>2, YieldsPlain
<1> QED
  BY <1>1, <1>2

LEMMA StepEnds ==
    ASSUME TypeOK, NEW t \in Turns, EndsAt(events[t], pc[t]),
           Begin(t) \/ Step(t) \/ Close(t)
    PROVE  EndsAt(events'[t], pc'[t])
<1>1. CASE Begin(t) \/ Ask(t) \/ Spawn(t)
  BY <1>1, YieldsNothing DEF Begin, Ask, Spawn
<1>2. CASE Prompt(t)
  <2>1. CASE UNCHANGED events
    BY <1>2, <2>1, YieldsNothing DEF Prompt
  <2>2. CASE Yield(t, <<"error">>) /\ Goto(t, "over")
    BY <1>2, <2>2, YieldsEnd, Plain DEF Prompt, Kinds
  <2> QED
    BY <1>2, <2>1, <2>2 DEF Prompt, Fail
<1>3. CASE ModelFails(t)
  BY <1>3, YieldsPlain, Plain DEF ModelFails
<1>4. ASSUME NEW r \in Response, ReactAnswer(t, r)
      PROVE  EndsAt(events'[t], pc'[t])
  <2>1. pc[t] # "over"
    BY <1>4 DEF ReactAnswer
  <2>2. ASSUME NEW thought \in {<<>>, <<"text">>}, Parsed(r) # "none",
               Yield(t, Append(thought, Parsed(r))), Goto(t, "over")
        PROVE  EndsAt(events'[t], pc'[t])
    <3>1. Parsed(r) \in Kinds
      BY <2>2, Texts DEF Kinds
    <3>2. thought \in Seq(Kinds) /\ NoEnd(thought)
      BY Plain
    <3> QED
      BY <2>1, <2>2, <3>1, <3>2, YieldsEnd
  <2>3. CASE UNCHANGED events
    BY <2>1, <2>3, YieldsNothing
  <2>4. CASE Yield(t, IF r.text THEN <<"text">> ELSE <<>>)
    BY <2>1, <2>4, YieldsPlain, Plain
  <2> QED
    BY <1>4, <2>2, <2>3, <2>4 DEF ReactAnswer
<1>5. ASSUME NEW r \in Response, NativeAnswer(t, r)
      PROVE  EndsAt(events'[t], pc'[t])
  BY <1>5, YieldsPlain, Plain DEF NativeAnswer
<1>6. CASE RunTool(t)
  BY <1>6, ResultIsNoEnd DEF RunTool
<1>7. CASE RefuseTool(t)
  BY <1>7, ResultIsNoEnd DEF RefuseTool
<1>8. CASE Close(t) \/ Timeout(t)
  BY <1>8, ResultIsNoEnd DEF Close, Timeout
<1> QED
  BY <1>1, <1>2, <1>3, <1>4, <1>5, <1>6, <1>7, <1>8 DEF Step, Answer

\* However a turn ends - by a tag of the model, a handoff or an error - it
\* yields that once and nothing after it, so that run_task, which keeps the
\* last of each kind, never has to choose.
THEOREM NothingAfterEnd == Spec => []EndIsLast
<1> DEFINE AllEnd == \A t \in Turns : EndsAt(events[t], pc[t])
<1>1. Init => AllEnd
  BY DEF Init, EndsAt
<1>2. TypeOK /\ AllEnd /\ [Next]_vars => AllEnd'
  <2> SUFFICES ASSUME TypeOK, AllEnd, [Next]_vars, NEW u \in Turns
               PROVE  EndsAt(events'[u], pc'[u])
    OBVIOUS
  <2>1. CASE UNCHANGED vars
    BY <2>1 DEF vars
  <2>2. ASSUME NEW t \in Turns, Begin(t) \/ Step(t) \/ Close(t)
        PROVE  EndsAt(events'[u], pc'[u])
    BY <2>2, StepEnds, OthersStay DEF Same
  <2> QED
    BY <2>1, <2>2 DEF Next
<1>3. AllEnd => EndIsLast
  BY DEF EndsAt, EndIsLast, Ends
<1> QED
  BY <1>1, <1>2, <1>3, TypeCorrect, PTL DEF Spec
-----------------------------------------------------------------------------
(***************************************************************************)
(* Every step of a ReAct turn brings it nearer to its end.                 *)
(***************************************************************************)
\* The steps between two awaits that a turn may still take.
Left(t) ==
    IF pc[t] = "over" THEN 0
    ELSE 4 * (MaxSteps - steps[t])
         + (CASE pc[t] = "idle" -> 3 [] pc[t] = "prompt" -> 2 [] pc[t] = "ask" -> 1
              [] pc[t] = "stream" -> 0 [] pc[t] = "tool" -> -1 [] pc[t] = "command" -> -2)

Acts(t) == Begin(t) \/ Step(t) \/ Close(t)

LEMMA LeftIsSmall ==
    ASSUME IInv, NEW t \in Turns, mode[t] = "react"
    PROVE  Left(t) \in 0 .. 4 * MaxSteps + 3
<1>1. /\ steps[t] \in 0 .. MaxSteps /\ MaxSteps \in Nat /\ pc[t] \in Labels
      /\ pc[t] \in {"stream", "tool", "command"} => steps[t] < MaxSteps
  BY TurnAssumption DEF IInv, TypeOK, TurnInv, StepsLeft, Labels
<1> QED
  BY <1>1 DEF Left, Labels

\* What the result of a call leads to in ReAct.
LEMMA ResultGoesOn ==
    ASSUME IInv, NEW t \in Turns, mode[t] = "react", NEW o, Result(t, o)
    PROVE  pc'[t] = "ask" /\ steps'[t] = steps[t] + 1
BY DEF Result, Goto, IInv, TypeOK

\* The model answered, or failed to.
LEMMA AnswerGoesOn ==
    ASSUME IInv, NEW t \in Turns, mode[t] = "react", Answer(t) \/ ModelFails(t)
    PROVE  /\ pc[t] = "stream"
           /\ \/ pc'[t] = "over"
              \/ pc'[t] = "tool" /\ steps'[t] = steps[t]
              \/ pc'[t] = "ask" /\ steps'[t] = steps[t] + 1
BY DEF Answer, ReactAnswer, NativeAnswer, ModelFails, Goto, IInv, TypeOK

LEMMA ActGoesOn ==
    ASSUME IInv, NEW t \in Turns, mode[t] = "react", Acts(t)
    PROVE  Left(t)' < Left(t)
<1>1. /\ steps[t] \in 0 .. MaxSteps /\ MaxSteps \in Nat
      /\ pc[t] \in {"stream", "tool", "command"} => steps[t] < MaxSteps
  BY TurnAssumption DEF IInv, TypeOK, TurnInv, StepsLeft
<1>2. CASE Begin(t)
  <2>1. pc[t] = "idle" /\ pc'[t] = "prompt" /\ steps' = steps
    BY <1>2 DEF Begin, Goto, IInv, TypeOK
  <2> QED
    BY <1>1, <2>1 DEF Left
<1>3. CASE Prompt(t)
  <2>1. pc[t] = "prompt" /\ pc'[t] \in {"ask", "over"} /\ steps' = steps
    BY <1>3 DEF Prompt, Fail, Goto, IInv, TypeOK
  <2> QED
    BY <1>1, <2>1 DEF Left
<1>4. CASE Ask(t)
  <2>1. /\ pc[t] = "ask" /\ steps' = steps
        /\ \/ pc'[t] = "over"
           \/ pc'[t] = "stream"
    BY <1>4 DEF Ask, Goto, IInv, TypeOK
  <2> QED
    BY <1>1, <2>1 DEF Left
<1>5. CASE Answer(t) \/ ModelFails(t)
  BY <1>1, <1>5, AnswerGoesOn DEF Left
<1>6. CASE RunTool(t) \/ RefuseTool(t) \/ Timeout(t) \/ Close(t)
  <2>1. pc[t] \in {"tool", "command"}
    BY <1>6 DEF RunTool, RefuseTool, Timeout, Close
  <2>2. pc'[t] = "ask" /\ steps'[t] = steps[t] + 1
    BY <1>6, ResultGoesOn DEF RunTool, RefuseTool, Timeout, Close
  <2> QED
    BY <1>1, <2>1, <2>2 DEF Left
<1>7. CASE Spawn(t)
  <2>1. pc[t] = "tool" /\ pc'[t] = "command" /\ steps' = steps
    BY <1>7 DEF Spawn, Goto, IInv, TypeOK
  <2> QED
    BY <1>1, <2>1 DEF Left
<1> QED
  BY <1>2, <1>3, <1>4, <1>5, <1>6, <1>7 DEF Acts, Step

\* Whatever the model answers, tools return and commands do, each step of a
\* ReAct turn brings it nearer to its end, and no other turn takes it further
\* away: it has at most 4 * maxSteps + 3 of them.  Under the fairness of Step
\* this is TurnEnds.
THEOREM TurnsRunDry ==
    Spec => /\ [](\A t \in Turns : mode[t] = "react" => Left(t) \in 0 .. 4 * MaxSteps + 3)
            /\ [][\A t \in Turns : mode[t] = "react" =>
                     /\ Left(t)' <= Left(t)
                     /\ Acts(t) => Left(t)' < Left(t)]_vars
<1> DEFINE Bound == \A t \in Turns : mode[t] = "react" => Left(t) \in 0 .. 4 * MaxSteps + 3
           Nearer == \A t \in Turns : mode[t] = "react" =>
                        /\ Left(t)' <= Left(t)
                        /\ Acts(t) => Left(t)' < Left(t)
<1>1. IInv => Bound
  BY LeftIsSmall
<1>2. IInv /\ Bound /\ Bound' /\ [Next]_vars => [Nearer]_vars
  <2> SUFFICES ASSUME IInv, Bound, Bound', Next, NEW t \in Turns, mode[t] = "react"
               PROVE  /\ Left(t)' <= Left(t)
                      /\ Acts(t) => Left(t)' < Left(t)
    OBVIOUS
  <2>1. mode' = mode
    BY DEF Next, Begin, Step, Close, Prompt, Ask, Answer, ReactAnswer, NativeAnswer,
           ModelFails, RunTool, RefuseTool, Spawn, Timeout
  <2>2. MaxSteps \in Nat /\ Left(t) \in Int
    BY TurnAssumption
  <2>3. CASE Acts(t)
    <3>1. Left(t)' < Left(t)
      BY <2>3, ActGoesOn
    <3>2. Left(t)' \in Int
      <4>1. mode'[t] = "react" /\ (mode'[t] = "react" => Left(t)' \in 0 .. 4 * MaxSteps + 3)
        BY <2>1
      <4> QED
        BY <2>2, <4>1
    <3> QED
      BY <2>2, <3>1, <3>2
  <2>4. CASE ~Acts(t)
    <3>1. PICK u \in Turns : Begin(u) \/ Step(u) \/ Close(u)
      BY DEF Next
    <3>2. u # t
      BY <2>4, <3>1 DEF Acts
    <3>3. pc'[t] = pc[t] /\ steps'[t] = steps[t]
      BY <3>1, <3>2, OthersStay DEF Same, IInv
    <3>4. Left(t)' = Left(t)
      BY <3>3 DEF Left
    <3> QED
      BY <2>2, <2>4, <3>4
  <2> QED
    BY <2>3, <2>4
<1> HIDE DEF Bound, Nearer
<1>3. Spec => []Bound /\ [][Nearer]_vars
  BY <1>1, <1>2, InitInv, NextInv, PTL DEF Spec
<1> QED
  BY <1>3 DEF Bound, Nearer
=============================================================================

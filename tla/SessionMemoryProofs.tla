------------------------ MODULE SessionMemoryProofs ------------------------
(***************************************************************************)
(* Proofs about SessionMemory for every set of handlers, every number of   *)
(* rounds, all blank turns and all limits: its type invariant, and that no *)
(* turn is ever duplicated or reordered in the cache, in the table or in a *)
(* context, but for the rounds of a run that met another one.  Last, that  *)
(* the context of a session that is used by one message at a time is the   *)
(* end of its conversation.                                                *)
(***************************************************************************)
EXTENDS SessionMemoryModes, SequenceTheorems, TLAPS

\* Every element of s occurs in r.
Within(s, r) == \A i \in 1 .. Len(s) : \E k \in 1 .. Len(r) : s[i] = r[k]

\* The index of a turn is a number.
LEMMA TurnParts ==
    ASSUME NEW t \in Turn
    PROVE  t[1] \in Handlers /\ t[2] \in 0 .. Rounds /\ t[2] \in Nat
  BY MemoryAssumption DEF Turn

\* A contiguous part of an ordered sequence is ordered.
LEMMA SubSeqInOrder ==
    ASSUME NEW s \in Seq(Turn), NEW A, InOrder(s, A),
           NEW m \in 1 .. Len(s) + 1, NEW n \in 0 .. Len(s)
    PROVE  /\ SubSeq(s, m, n) \in Seq(Turn)
           /\ InOrder(SubSeq(s, m, n), A)
           /\ Within(SubSeq(s, m, n), s)
           /\ Len(SubSeq(s, m, n)) = IF m <= n THEN n - m + 1 ELSE 0
<1> DEFINE r == SubSeq(s, m, n)
<1>1. \A i \in m .. n : s[i] \in Turn
  BY ElementOfSeq
<1>2. /\ r \in Seq(Turn)
      /\ Len(r) = IF m <= n THEN n - m + 1 ELSE 0
      /\ \A i \in 1 .. n - m + 1 : r[i] = s[m + i - 1]
  BY <1>1, SubSeqProperties
<1>3. \A i \in 1 .. Len(r) : i \in 1 .. n - m + 1 /\ m + i - 1 \in 1 .. Len(s)
  BY <1>2
<1>4. Within(r, s)
  BY <1>2, <1>3 DEF Within
<1>5. InOrder(r, A)
  <2> SUFFICES ASSUME NEW i \in 1 .. Len(r), NEW j \in 1 .. Len(r),
                      i < j, r[i][1] = r[j][1]
               PROVE  IF r[i][1] \in A THEN r[j][2] \notin {0, r[i][2]}
                                       ELSE r[i][2] < r[j][2]
    BY DEF InOrder
  <2>1. /\ r[i] = s[m + i - 1] /\ r[j] = s[m + j - 1] /\ m + i - 1 < m + j - 1
        /\ m + i - 1 \in 1 .. Len(s) /\ m + j - 1 \in 1 .. Len(s)
    BY <1>2, <1>3
  <2> QED
    BY <2>1 DEF InOrder
<1> QED
  BY <1>2, <1>4, <1>5

\* slice(-n): in order, no longer than n, nothing new.
LEMMA LastNInOrder ==
    ASSUME NEW s \in Seq(Turn), NEW A, InOrder(s, A), NEW n \in Nat \ {0}
    PROVE  /\ LastN(s, n) \in Seq(Turn)
           /\ InOrder(LastN(s, n), A)
           /\ Within(LastN(s, n), s)
           /\ Len(LastN(s, n)) <= n
<1> DEFINE m == IF Len(s) > n THEN Len(s) - n + 1 ELSE 1
<1>1. Len(s) \in Nat
  BY LenProperties
<1>2. m \in 1 .. Len(s) + 1 /\ Len(s) \in 0 .. Len(s)
  BY <1>1
<1>3. LastN(s, n) = SubSeq(s, m, Len(s))
  BY DEF LastN
<1> HIDE DEF m
<1>4. /\ SubSeq(s, m, Len(s)) \in Seq(Turn)
      /\ InOrder(SubSeq(s, m, Len(s)), A)
      /\ Within(SubSeq(s, m, Len(s)), s)
      /\ Len(SubSeq(s, m, Len(s))) = IF m <= Len(s) THEN Len(s) - m + 1 ELSE 0
  BY <1>2, SubSeqInOrder
<1>5. Len(LastN(s, n)) <= n
  BY <1>1, <1>3, <1>4 DEF m
<1> QED
  BY <1>3, <1>4, <1>5

\* take: n: in order, nothing new.
LEMMA FirstNInOrder ==
    ASSUME NEW s \in Seq(Turn), NEW A, InOrder(s, A), NEW n \in Nat \ {0}
    PROVE  /\ FirstN(s, n) \in Seq(Turn)
           /\ InOrder(FirstN(s, n), A)
           /\ Within(FirstN(s, n), s)
<1> DEFINE k == IF Len(s) > n THEN n ELSE Len(s)
<1>1. Len(s) \in Nat
  BY LenProperties
<1>2. k \in 0 .. Len(s) /\ 1 \in 1 .. Len(s) + 1
  BY <1>1
<1>3. FirstN(s, n) = SubSeq(s, 1, k)
  BY DEF FirstN
<1> HIDE DEF k
<1> QED
  BY <1>2, <1>3, SubSeqInOrder

\* The turn t may come after the turn s.
Before(s, t, A) ==
    s[1] = t[1] => IF s[1] \in A THEN t[2] \notin {0, s[2]} ELSE s[2] < t[2]

\* A turn that may come after every one of a sequence may be appended to it.
LEMMA AppendInOrder ==
    ASSUME NEW s \in Seq(Turn), NEW A, InOrder(s, A), NEW t \in Turn,
           \A i \in 1 .. Len(s) : Before(s[i], t, A)
    PROVE  /\ Append(s, t) \in Seq(Turn)
           /\ InOrder(Append(s, t), A)
           /\ Len(Append(s, t)) = Len(s) + 1
           /\ \A i \in 1 .. Len(Append(s, t)) :
                 \/ Append(s, t)[i] = t
                 \/ \E k \in 1 .. Len(s) : Append(s, t)[i] = s[k]
<1> DEFINE r == Append(s, t)
<1>1. /\ r \in Seq(Turn)
      /\ Len(r) = Len(s) + 1
      /\ \A i \in 1 .. Len(s) : r[i] = s[i]
      /\ r[Len(s) + 1] = t
      /\ Len(s) \in Nat
  BY AppendProperties, LenProperties
<1> HIDE DEF r
<1>2. \A i \in 1 .. Len(r) : i \in 1 .. Len(s) \/ i = Len(s) + 1
  BY <1>1
<1>3. InOrder(r, A)
  <2> SUFFICES ASSUME NEW i \in 1 .. Len(r), NEW j \in 1 .. Len(r),
                      i < j, r[i][1] = r[j][1]
               PROVE  IF r[i][1] \in A THEN r[j][2] \notin {0, r[i][2]}
                                       ELSE r[i][2] < r[j][2]
    BY DEF InOrder
  <2>1. i \in 1 .. Len(s)
    BY <1>1
  <2>2. CASE j = Len(s) + 1
    BY <1>1, <2>1, <2>2 DEF Before
  <2>3. CASE j \in 1 .. Len(s)
    BY <1>1, <2>1, <2>3 DEF InOrder
  <2> QED
    BY <1>2, <2>2, <2>3
<1> QED
  BY <1>1, <1>2, <1>3 DEF r

\* To excuse more handlers costs nothing.
LEMMA MoreMixed ==
    ASSUME NEW A, NEW B, A \subseteq B
    PROVE  /\ \A s \in Seq(Turn) : InOrder(s, A) => InOrder(s, B)
           /\ \A s, t \in Turn : Before(s, t, A) => Before(s, t, B)
<1>1. ASSUME NEW s \in Seq(Turn), InOrder(s, A) PROVE InOrder(s, B)
  <2> SUFFICES ASSUME NEW i \in 1 .. Len(s), NEW j \in 1 .. Len(s),
                      i < j, s[i][1] = s[j][1]
               PROVE  IF s[i][1] \in B THEN s[j][2] \notin {0, s[i][2]}
                                       ELSE s[i][2] < s[j][2]
    BY DEF InOrder
  <2>1. s[i] \in Turn /\ s[j] \in Turn
    BY ElementOfSeq
  <2>2. s[i][2] \in Nat /\ s[j][2] \in Nat
    BY <2>1, TurnParts
  <2>3. IF s[i][1] \in A THEN s[j][2] \notin {0, s[i][2]} ELSE s[i][2] < s[j][2]
    BY <1>1 DEF InOrder
  <2> QED
    BY <2>2, <2>3
<1>2. ASSUME NEW s \in Turn, NEW t \in Turn, Before(s, t, A) PROVE Before(s, t, B)
  BY <1>2, TurnParts DEF Before
<1> QED
  BY <1>1, <1>2
-----------------------------------------------------------------------------
(***************************************************************************)
(* The inductive invariant.  A turn has been appended once its handler has *)
(* moved past it, or has completed its Save; only such turns are anywhere. *)
(* It is in the table or in a queue only when it has left its handler's    *)
(* hands, and then it is in one place.                                     *)
(***************************************************************************)
AppendedAt(t, index, at) ==
    \/ t[2] < index[t[1]]
    \/ t[2] = index[t[1]] /\ at[t[1]] \in {"ended", "persist", "start", "run_task", "over", "done"}

PastAt(t, index, at) ==
    \/ t[2] < index[t[1]]
    \/ t[2] = index[t[1]] /\ at[t[1]] \in {"start", "run_task", "over", "done"}

Appended(t) == AppendedAt(t, turn, pc)
Past(t) == PastAt(t, turn, pc)

\* ... and still is, or is now, after a step.
AppendedNext(t) == AppendedAt(t, turn', pc')
PastNext(t) == PastAt(t, turn', pc')

AllAppended(s) == \A i \in 1 .. Len(s) : Appended(s[i])

\* What the gateway still has to insert from the queue of h is in order, is an
\* answer, is h's unless its handler is astray, and comes after every row of
\* its handler that is in the table.
OutboxOK(h) ==
    /\ InOrder(outbox[h], astray)
    /\ \A j \in 1 .. Len(outbox[h]) :
          /\ Past(outbox[h][j])
          /\ outbox[h][j][2] # 0
          /\ outbox[h][j][1] # h => outbox[h][j][1] \in astray
          /\ \A i \in 1 .. Len(db) : Before(db[i], outbox[h][j], astray)

\* No turn waits in two queues.
Apart(g, h) ==
    g # h => \A i \in 1 .. Len(outbox[g]) : \A j \in 1 .. Len(outbox[h]) :
                outbox[g][i] # outbox[h][j]

\* Which turn a handler is at.
Control(h) ==
    /\ pc[h] \in {"persist", "start"} => turn[h] = 0
    /\ pc[h] = "ended" => turn[h] > 0
    /\ pc[h] = "run_task" => turn[h] < Rounds

\* The table side: rows, and the turns on their way to it.
TableOK ==
    /\ InOrder(db, astray)
    /\ \A i \in 1 .. Len(db) : Past(db[i])
    /\ \A g \in Handlers : OutboxOK(g) /\ Control(g)
    /\ \A g, h \in Handlers : Apart(g, h)

\* The memory side: what Redis, the arrays in flight and the contexts hold.
MemoryOK ==
    /\ InOrder(cache, astray) /\ AllAppended(cache)
    /\ InOrder(said, astray) /\ AllAppended(said)
    /\ \A g \in Handlers : /\ InOrder(local[g], astray) /\ AllAppended(local[g])
                           /\ InOrder(context[g], astray)

IInv == TypeOK /\ TableOK /\ MemoryOK

\* Being appended, and being past, is for ever: no action moves a handler back.
LEMMA Forward ==
    ASSUME TypeOK, \A h \in Handlers : Control(h), [Next]_vars
    PROVE  \A t \in Turn : /\ Appended(t) => AppendedNext(t)
                           /\ Past(t) => PastNext(t)
<1> SUFFICES ASSUME NEW t \in Turn
             PROVE  /\ Appended(t) => AppendedNext(t)
                    /\ Past(t) => PastNext(t)
  OBVIOUS
<1> DEFINE Goal == /\ Appended(t) => AppendedNext(t)
                   /\ Past(t) => PastNext(t)
<1>1. t[1] \in Handlers /\ t[2] \in 0 .. Rounds
  BY DEF Turn
<1>2. Rounds \in Nat
  BY MemoryAssumption
<1>3. /\ turn \in [Handlers -> 0 .. Rounds]
      /\ pc \in [Handlers -> {"idle", "get", "find", "fill", "save", "persist",
                             "start", "run_task", "context", "thinking",
                             "ended", "over", "done"}]
  BY DEF TypeOK
<1>4. ASSUME NEW h \in Handlers, Step(h)
      PROVE  Goal
  <2> USE <1>1, <1>2, <1>3 DEF Appended, AppendedNext, AppendedAt, Past, PastNext, PastAt, Goto
  <2>1. CASE Get(h)
    BY <2>1 DEF Get, AfterGet
  <2>2. CASE Find(h)
    BY <2>2 DEF Find, AfterGet
  <2>3. CASE Fill(h)
    BY <2>3 DEF Fill, AfterGet
  <2>4. CASE Save(h)
    BY <2>4 DEF Save
  <2>5. CASE PersistUser(h)
    BY <2>5 DEF PersistUser
  <2>6. CASE ReadContext(h)
    BY <2>6 DEF ReadContext
  <2>7. CASE AgentAnswers(h)
    BY <2>7 DEF AgentAnswers
  <2>8. CASE StreamEnd(h)
    BY <2>8 DEF StreamEnd, NextRound
  <2>9. CASE Start(h)
    BY <2>9 DEF Start
  <2>10. CASE BeginRound(h)
    BY <2>10 DEF BeginRound
  <2>11. CASE FinishRun(h)
    BY <2>11 DEF FinishRun
  <2> QED
    BY <1>4, <2>1, <2>2, <2>3, <2>4, <2>5, <2>6, <2>7, <2>8, <2>9, <2>10, <2>11 DEF Step
<1>5. ASSUME NEW h \in Handlers,
             Receive(h) \/ Mirror(h) \/ LoopReturns(h) \/ StorageFails(h) \/ MirrorFails(h)
      PROVE  Goal
  BY <1>1, <1>2, <1>3, <1>5
     DEF Appended, AppendedNext, AppendedAt, Past, PastNext, PastAt, Goto, Receive, Mirror,
         LoopReturns, StorageFails, MirrorFails
<1>6. CASE Expire \/ Crash \/ UNCHANGED vars
  BY <1>1, <1>2, <1>3, <1>6
     DEF Appended, AppendedNext, AppendedAt, Past, PastNext, PastAt, Expire, Crash, vars
<1> QED
  BY <1>4, <1>5, <1>6 DEF Next

\* The sequences that a command stores are sequences of turns, in order,
\* appended before.
LEMMA Storable ==
    ASSUME IInv, NEW h \in Handlers
    PROVE  /\ LastN(local[h], MaxMessages) \in Seq(Turn)
           /\ InOrder(LastN(local[h], MaxMessages), astray)
           /\ AllAppended(LastN(local[h], MaxMessages))
           /\ Len(LastN(local[h], MaxMessages)) <= MaxMessages
           /\ LastN(local[h], MaxHistory) \in Seq(Turn)
           /\ InOrder(LastN(local[h], MaxHistory), astray)
           /\ Len(LastN(local[h], MaxHistory)) <= MaxHistory
           /\ FirstN(db, MaxMessages) \in Seq(Turn)
           /\ InOrder(FirstN(db, MaxMessages), astray)
           /\ AllAppended(FirstN(db, MaxMessages))
<1>1. /\ local[h] \in Seq(Turn) /\ InOrder(local[h], astray) /\ AllAppended(local[h])
      /\ db \in Seq(Turn) /\ InOrder(db, astray) /\ AllAppended(db)
  <2>1. \A t : Past(t) => Appended(t)
    BY DEF Past, PastAt, Appended, AppendedAt
  <2> QED
    BY <2>1 DEF IInv, TypeOK, TableOK, MemoryOK, AllAppended
<1>2. MaxMessages \in Nat \ {0} /\ MaxHistory \in Nat \ {0}
  BY MemoryAssumption
<1>3. \A s, r : Within(s, r) /\ AllAppended(r) => AllAppended(s)
  BY DEF Within, AllAppended
<1>4. /\ LastN(local[h], MaxMessages) \in Seq(Turn)
      /\ InOrder(LastN(local[h], MaxMessages), astray)
      /\ Within(LastN(local[h], MaxMessages), local[h])
      /\ Len(LastN(local[h], MaxMessages)) <= MaxMessages
  BY <1>1, <1>2, LastNInOrder
<1>5. /\ LastN(local[h], MaxHistory) \in Seq(Turn)
      /\ InOrder(LastN(local[h], MaxHistory), astray)
      /\ Len(LastN(local[h], MaxHistory)) <= MaxHistory
  BY <1>1, <1>2, LastNInOrder
<1>6. /\ FirstN(db, MaxMessages) \in Seq(Turn)
      /\ InOrder(FirstN(db, MaxMessages), astray)
      /\ Within(FirstN(db, MaxMessages), db)
  BY <1>1, <1>2, FirstNInOrder
<1> QED
  BY <1>1, <1>3, <1>4, <1>5, <1>6

\* A handler's own turn may be appended to what it has appended before.
LEMMA NewTurn ==
    ASSUME TypeOK, NEW h \in Handlers, NEW s \in Seq(Turn), InOrder(s, astray),
           \A i \in 1 .. Len(s) : s[i][1] = h => s[i][2] < turn[h]
    PROVE  \A i \in 1 .. Len(s) : Before(s[i], <<h, turn[h]>>, astray)
<1>1. turn[h] \in Nat
  BY MemoryAssumption DEF TypeOK
<1>2. ASSUME NEW i \in 1 .. Len(s) PROVE s[i][2] \in Nat
  <2>1. s[i] \in Turn
    BY ElementOfSeq
  <2> QED
    BY <2>1, TurnParts
<1> QED
  BY <1>1, <1>2 DEF Before

\* append(): the turn that h is about to push is later than all of h's turns
\* in the array it read, so the list it stores is in order.
LEMMA SavedList ==
    ASSUME IInv, NEW h \in Handlers, pc[h] = "save"
    PROVE  /\ LET r == LastN(Append(local[h], <<h, turn[h]>>), MaxMessages)
              IN /\ r \in Seq(Turn)
                 /\ InOrder(r, astray)
                 /\ Len(r) <= MaxMessages
                 /\ \A i \in 1 .. Len(r) : r[i] = <<h, turn[h]>> \/ Appended(r[i])
           /\ LET r == Append(said, <<h, turn[h]>>)
              IN /\ r \in Seq(Turn)
                 /\ InOrder(r, astray)
                 /\ \A i \in 1 .. Len(r) : r[i] = <<h, turn[h]>> \/ Appended(r[i])
<1> DEFINE t == <<h, turn[h]>>
           a == Append(local[h], t)
           b == Append(said, t)
<1>1. t \in Turn /\ TypeOK
  BY DEF IInv, TypeOK, Turn
<1>2. /\ local[h] \in Seq(Turn) /\ InOrder(local[h], astray) /\ AllAppended(local[h])
      /\ said \in Seq(Turn) /\ InOrder(said, astray) /\ AllAppended(said)
  BY DEF IInv, TypeOK, MemoryOK
<1>3. \A e : Appended(e) /\ e[1] = h => e[2] < turn[h]
  BY DEF Appended, AppendedAt
<1>4. /\ \A i \in 1 .. Len(local[h]) : Before(local[h][i], t, astray)
      /\ \A i \in 1 .. Len(said) : Before(said[i], t, astray)
  BY <1>1, <1>2, <1>3, NewTurn DEF AllAppended
<1> HIDE DEF t
<1>5. /\ a \in Seq(Turn) /\ InOrder(a, astray)
      /\ \A i \in 1 .. Len(a) :
            a[i] = t \/ \E k \in 1 .. Len(local[h]) : a[i] = local[h][k]
  BY <1>1, <1>2, <1>4, AppendInOrder
<1>6. /\ b \in Seq(Turn) /\ InOrder(b, astray)
      /\ \A i \in 1 .. Len(b) : b[i] = t \/ \E k \in 1 .. Len(said) : b[i] = said[k]
  BY <1>1, <1>2, <1>4, AppendInOrder
<1> HIDE DEF a, b
<1>7. /\ LastN(a, MaxMessages) \in Seq(Turn)
      /\ InOrder(LastN(a, MaxMessages), astray)
      /\ Len(LastN(a, MaxMessages)) <= MaxMessages
      /\ Within(LastN(a, MaxMessages), a)
  BY <1>5, MemoryAssumption, LastNInOrder
<1>8. \A i \in 1 .. Len(LastN(a, MaxMessages)) :
         LastN(a, MaxMessages)[i] = t \/ Appended(LastN(a, MaxMessages)[i])
  BY <1>2, <1>5, <1>7 DEF Within, AllAppended
<1>9. \A i \in 1 .. Len(b) : b[i] = t \/ Appended(b[i])
  BY <1>2, <1>6 DEF AllAppended
<1> QED
  BY <1>6, <1>7, <1>8, <1>9 DEF a, b, t

\* Every action keeps the shape of the state and the two length limits.
LEMMA TypeStep ==
    ASSUME IInv, [Next]_vars
    PROVE  TypeOK'
<1> USE DEF TypeOK, Goto, runs
<1>1. /\ TypeOK /\ MaxMessages \in Nat \ {0} /\ MaxHistory \in Nat \ {0} /\ Rounds \in Nat \ {0}
      /\ \A h \in Handlers : Control(h)
  BY MemoryAssumption DEF IInv, TableOK
<1>2. ASSUME NEW h \in Handlers, Step(h)
      PROVE  TypeOK'
  <2>1. <<h, turn[h]>> \in Turn
    BY <1>1 DEF Turn
  <2>2. CASE Get(h)
    BY <1>1, <2>2 DEF Get, AfterGet
  <2>3. CASE Find(h)
    BY <1>1, <2>3, Storable DEF Find, AfterGet
  <2>4. CASE Fill(h)
    BY <1>1, <2>4, Storable DEF Fill, AfterGet
  <2>5. CASE Save(h)
    <3>1. cache' \in Seq(Turn) /\ Len(cache') <= MaxMessages /\ said' \in Seq(Turn)
      BY <2>5, SavedList DEF Save
    <3> QED
      BY <1>1, <2>1, <2>5, <3>1 DEF Save
  <2>6. CASE PersistUser(h)
    BY <1>1, <2>1, <2>6 DEF PersistUser
  <2>7. CASE ReadContext(h)
    BY <1>1, <2>7, Storable DEF ReadContext
  <2>8. CASE AgentAnswers(h)
    BY <1>1, <2>8 DEF AgentAnswers
  <2>9. CASE StreamEnd(h)
    <3>1. \A g \in Handlers : Append(outbox[g], <<h, turn[h]>>) \in Seq(Turn)
      BY <1>1, <2>1, AppendProperties
    <3>2. outbox' \in [Handlers -> Seq(Turn)]
      BY <1>1, <2>9, <3>1 DEF StreamEnd, Heard
    <3> QED
      BY <1>1, <2>9, <3>2 DEF StreamEnd, NextRound
  <2>10. CASE Start(h)
    BY <1>1, <2>10 DEF Start
  <2>11. CASE BeginRound(h)
    <3>1. turn[h] + 1 \in 0 .. Rounds
      BY <1>1, <2>11 DEF BeginRound, Control
    <3> QED
      BY <1>1, <2>11, <3>1 DEF BeginRound
  <2>12. CASE FinishRun(h)
    BY <1>1, <2>12 DEF FinishRun
  <2> QED
    BY <1>2, <2>2, <2>3, <2>4, <2>5, <2>6, <2>7, <2>8, <2>9, <2>10, <2>11, <2>12 DEF Step
<1>3. ASSUME NEW h \in Handlers, Mirror(h)
      PROVE  TypeOK'
  <2>1. Head(outbox[h]) \in Turn /\ Tail(outbox[h]) \in Seq(Turn)
    BY <1>1, <1>3, HeadTailProperties DEF Mirror
  <2> QED
    BY <1>1, <1>3, <2>1 DEF Mirror
<1>4. ASSUME NEW h \in Handlers, Receive(h) \/ LoopReturns(h) \/ StorageFails(h) \/ MirrorFails(h)
      PROVE  TypeOK'
  <2>1. CASE Receive(h)
    BY <1>1, <2>1 DEF Receive
  <2>2. CASE StorageFails(h)
    BY <1>1, <2>2 DEF StorageFails
  <2>3. CASE MirrorFails(h)
    BY <1>1, <2>3 DEF MirrorFails
  <2>4. CASE LoopReturns(h)
    BY <1>1, <2>4 DEF LoopReturns
  <2> QED
    BY <1>4, <2>1, <2>2, <2>3, <2>4
<1>5. CASE Expire
  BY <1>1, <1>5, EmptySeq DEF Expire
<1>6. CASE Crash
  BY <1>1, <1>6 DEF Crash
<1>7. CASE UNCHANGED vars
  BY <1>1, <1>7 DEF vars
<1> QED
  BY <1>2, <1>3, <1>4, <1>5, <1>6, <1>7 DEF Next

LEMMA MemoryStep ==
    ASSUME IInv, [Next]_vars
    PROVE  MemoryOK'
<1>1. /\ TypeOK /\ TypeOK' /\ MemoryOK /\ \A h \in Handlers : Control(h)
  BY TypeStep DEF IInv, TableOK
<1>2. \A s \in Seq(Turn) : AllAppended(s) => \A i \in 1 .. Len(s) : AppendedNext(s[i])
  <2> SUFFICES ASSUME NEW s \in Seq(Turn), AllAppended(s), NEW i \in 1 .. Len(s)
               PROVE  AppendedNext(s[i])
    OBVIOUS
  <2>1. s[i] \in Turn /\ Appended(s[i])
    BY ElementOfSeq DEF AllAppended
  <2> QED
    BY <1>1, <2>1, Forward
<1>3. /\ \A i \in 1 .. Len(cache) : AppendedNext(cache[i])
      /\ \A i \in 1 .. Len(said) : AppendedNext(said[i])
      /\ \A g \in Handlers : \A i \in 1 .. Len(local[g]) : AppendedNext(local[g][i])
  BY <1>1, <1>2 DEF TypeOK, MemoryOK
<1>4. InOrder(<<>>, astray)
  BY DEF InOrder
\* A step that stores no sequence but the empty one.
<1>a. ASSUME astray \subseteq astray',
             cache' = cache \/ cache' = <<>>, said' = said,
             \A g \in Handlers : /\ local'[g] = local[g] \/ local'[g] = <<>>
                                 /\ context'[g] = context[g] \/ context'[g] = <<>>
      PROVE  MemoryOK'
  <2>1. \A s \in Seq(Turn) : InOrder(s, astray) => InOrder(s, astray')
    BY <1>a, MoreMixed
  <2>2. InOrder(<<>>, astray')
    BY DEF InOrder
  <2>3. InOrder(cache', astray') /\ AllAppended(cache)'
    BY <1>1, <1>3, <1>a, <2>1, <2>2 DEF TypeOK, MemoryOK, AllAppended, Appended, AppendedNext
  <2>4. InOrder(said', astray') /\ AllAppended(said)'
    BY <1>1, <1>3, <1>a, <2>1 DEF TypeOK, MemoryOK, AllAppended, Appended, AppendedNext
  <2>5. ASSUME NEW g \in Handlers
        PROVE  InOrder(local'[g], astray') /\ AllAppended(local[g])' /\ InOrder(context'[g], astray')
    <3>1. /\ local[g] \in Seq(Turn) /\ InOrder(local[g], astray)
          /\ context[g] \in Seq(Turn) /\ InOrder(context[g], astray)
      BY <1>1 DEF TypeOK, MemoryOK
    <3>2. InOrder(local'[g], astray') /\ InOrder(context'[g], astray')
      BY <1>a, <2>1, <2>2, <3>1
    <3>3. \A i \in 1 .. Len(local'[g]) : AppendedNext(local'[g][i])
      BY <1>3, <1>a
    <3> QED
      BY <3>2, <3>3 DEF AllAppended, Appended, AppendedNext
  <2> QED
    BY <2>3, <2>4, <2>5 DEF MemoryOK
<1>5. ASSUME NEW h \in Handlers, Step(h)
      PROVE  MemoryOK'
  <2>1. CASE Get(h)
    BY <1>1, <1>3, <2>1
       DEF Get, MemoryOK, TypeOK, AllAppended, Appended, AppendedNext, runs
  <2>2. CASE Find(h)
    BY <1>1, <1>2, <1>3, <2>2, Storable
       DEF Find, MemoryOK, TypeOK, AllAppended, Appended, AppendedNext, runs
  <2>3. CASE Fill(h)
    BY <1>1, <1>2, <1>3, <2>3, Storable
       DEF Fill, MemoryOK, TypeOK, AllAppended, Appended, AppendedNext, runs
  <2>4. CASE Save(h)
    <3>1. /\ cache' \in Seq(Turn) /\ InOrder(cache', astray)
          /\ said' \in Seq(Turn) /\ InOrder(said', astray)
          /\ \A i \in 1 .. Len(cache') : cache'[i] = <<h, turn[h]>> \/ Appended(cache'[i])
          /\ \A i \in 1 .. Len(said') : said'[i] = <<h, turn[h]>> \/ Appended(said'[i])
          /\ astray' = astray
      BY <2>4, SavedList DEF Save, runs
    <3>2. turn' = turn /\ pc'[h] \in {"ended", "persist"}
      BY <1>1, <2>4 DEF Save, Goto, TypeOK
    <3>3. ASSUME NEW s \in Seq(Turn), NEW i \in 1 .. Len(s),
                 s[i] = <<h, turn[h]>> \/ Appended(s[i])
          PROVE  AppendedNext(s[i])
      <4>1. s[i] \in Turn
        BY ElementOfSeq
      <4>2. CASE s[i] = <<h, turn[h]>>
        BY <3>2, <4>2 DEF AppendedNext, AppendedAt
      <4>3. CASE Appended(s[i])
        BY <1>1, <4>1, <4>3, Forward
      <4> QED
        BY <3>3, <4>2, <4>3
    <3>4. AllAppended(cache)' /\ AllAppended(said)'
      BY <3>1, <3>3 DEF AllAppended, Appended, AppendedNext
    <3>5. \A g \in Handlers : /\ InOrder(local'[g], astray') /\ AllAppended(local[g])'
                             /\ InOrder(context'[g], astray')
      BY <1>1, <1>3, <1>4, <2>4, <3>1
         DEF Save, MemoryOK, TypeOK, AllAppended, Appended, AppendedNext
    <3> QED
      BY <3>1, <3>4, <3>5 DEF MemoryOK
  <2>5. CASE PersistUser(h)
    BY <1>a, <2>5 DEF PersistUser, runs
  <2>6. CASE ReadContext(h)
    BY <1>1, <1>3, <1>4, <2>6, Storable
       DEF ReadContext, MemoryOK, TypeOK, AllAppended, Appended, AppendedNext, runs
  <2>7. CASE AgentAnswers(h)
    BY <1>1, <1>a, <2>7 DEF AgentAnswers, TypeOK, runs
  <2>8. CASE StreamEnd(h)
    BY <1>a, <2>8 DEF StreamEnd
  <2>9. CASE Start(h)
    BY <1>a, <2>9 DEF Start
  <2>10. CASE BeginRound(h)
    BY <1>a, <2>10 DEF BeginRound
  <2>11. CASE FinishRun(h)
    BY <1>a, <2>11 DEF FinishRun
  <2> QED
    BY <1>5, <2>1, <2>2, <2>3, <2>4, <2>5, <2>6, <2>7, <2>8, <2>9, <2>10, <2>11 DEF Step
<1>6. ASSUME NEW h \in Handlers,
             Receive(h) \/ Mirror(h) \/ LoopReturns(h) \/ StorageFails(h) \/ MirrorFails(h)
      PROVE  MemoryOK'
  <2>1. CASE Receive(h)
    BY <1>a, <2>1 DEF Receive, runs
  <2>2. CASE Mirror(h)
    BY <1>a, <2>2 DEF Mirror, runs
  <2>3. CASE StorageFails(h)
    BY <1>1, <1>a, <2>3 DEF StorageFails, TypeOK
  <2>4. CASE MirrorFails(h)
    BY <1>a, <2>4 DEF MirrorFails
  <2>5. CASE LoopReturns(h)
    BY <1>a, <2>5 DEF LoopReturns
  <2> QED
    BY <1>6, <2>1, <2>2, <2>3, <2>4, <2>5
<1>7. CASE Expire \/ Crash \/ UNCHANGED vars
  <2>1. CASE Expire
    BY <1>a, <2>1 DEF Expire, runs
  <2>2. CASE Crash
    BY <1>a, <2>2 DEF Crash
  <2>3. CASE UNCHANGED vars
    BY <1>a, <2>3 DEF vars
  <2> QED
    BY <1>7, <2>1, <2>2, <2>3
<1> QED
  BY <1>5, <1>6, <1>7 DEF Next

\* No handler reaches a command at another turn than its first or the next.
LEMMA ControlStep ==
    ASSUME IInv, [Next]_vars
    PROVE  \A g \in Handlers : Control(g)'
<1>1. /\ TypeOK /\ Rounds \in Nat \ {0} /\ \A g \in Handlers : Control(g)
  BY MemoryAssumption DEF IInv, TableOK
<1> USE <1>1 DEF TypeOK, Control, Goto
<1>2. ASSUME NEW h \in Handlers, Step(h)
      PROVE  \A g \in Handlers : Control(g)'
  <2>1. CASE Get(h)
    BY <2>1 DEF Get, AfterGet
  <2>2. CASE Find(h)
    BY <2>2 DEF Find, AfterGet
  <2>3. CASE Fill(h)
    BY <2>3 DEF Fill, AfterGet
  <2>4. CASE Save(h)
    BY <2>4 DEF Save, InRun
  <2>5. CASE PersistUser(h)
    BY <2>5 DEF PersistUser
  <2>6. CASE ReadContext(h)
    BY <2>6 DEF ReadContext
  <2>7. CASE AgentAnswers(h)
    BY <2>7 DEF AgentAnswers
  <2>8. CASE StreamEnd(h)
    BY <2>8 DEF StreamEnd, NextRound
  <2>9. CASE Start(h)
    BY <2>9 DEF Start
  <2>10. CASE BeginRound(h)
    BY <2>10 DEF BeginRound
  <2>11. CASE FinishRun(h)
    BY <2>11 DEF FinishRun
  <2> QED
    BY <1>2, <2>1, <2>2, <2>3, <2>4, <2>5, <2>6, <2>7, <2>8, <2>9, <2>10, <2>11 DEF Step
<1>3. ASSUME NEW h \in Handlers,
             Receive(h) \/ Mirror(h) \/ LoopReturns(h) \/ StorageFails(h) \/ MirrorFails(h)
      PROVE  \A g \in Handlers : Control(g)'
  BY <1>3 DEF Receive, Mirror, LoopReturns, StorageFails, MirrorFails
<1>4. CASE Expire \/ Crash \/ UNCHANGED vars
  BY <1>4 DEF Expire, Crash, vars
<1> QED
  BY <1>2, <1>3, <1>4 DEF Next

\* A step that touches neither the table nor a queue, but to empty one, keeps
\* TableOK.
LEMMA TableFrame ==
    ASSUME IInv, [Next]_vars, UNCHANGED <<db, astray>>,
           \A g \in Handlers : outbox'[g] = outbox[g] \/ outbox'[g] = <<>>
    PROVE  TableOK'
<1>1. TypeOK /\ TableOK /\ \A g \in Handlers : Control(g)
  BY DEF IInv, TableOK
<1>2. /\ \A i \in 1 .. Len(db) : db[i] \in Turn
      /\ \A g \in Handlers : \A j \in 1 .. Len(outbox[g]) : outbox[g][j] \in Turn
  BY <1>1, ElementOfSeq DEF TypeOK
<1>3. /\ \A i \in 1 .. Len(db) : PastNext(db[i])
      /\ \A g \in Handlers : \A j \in 1 .. Len(outbox[g]) : PastNext(outbox[g][j])
  BY <1>1, <1>2, Forward DEF TableOK, OutboxOK
<1>4. ASSUME NEW g \in Handlers
      PROVE  OutboxOK(g)'
  <2>1. CASE outbox'[g] = outbox[g]
    BY <1>1, <1>3, <2>1 DEF TableOK, OutboxOK, Past, PastNext
  <2>2. CASE outbox'[g] = <<>>
    BY <2>2 DEF OutboxOK, InOrder
  <2> QED
    BY <2>1, <2>2
<1>5. ASSUME NEW g \in Handlers, NEW h \in Handlers
      PROVE  Apart(g, h)'
  BY <1>1 DEF TableOK, Apart
<1> QED
  BY <1>1, <1>3, <1>4, <1>5, ControlStep DEF TableOK, Past, PastNext

\* handleMessage's insert comes before every other row of its handler.
LEMMA PersistUserKeepsTable ==
    ASSUME IInv, [Next]_vars, NEW h \in Handlers, PersistUser(h)
    PROVE  TableOK'
<1> DEFINE t == <<h, turn[h]>>
<1>1. /\ TypeOK /\ TableOK
      /\ turn[h] = 0 /\ pc[h] = "persist" /\ turn' = turn /\ outbox' = outbox /\ astray' = astray
      /\ pc' = [pc EXCEPT ![h] = "start"] /\ db' = Append(db, t)
      /\ \A g \in Handlers : Control(g)
  BY DEF IInv, TableOK, Control, PersistUser, Goto, runs
<1>2. /\ db \in Seq(Turn) /\ t \in Turn /\ t[1] = h /\ t[2] = 0
      /\ \A i \in 1 .. Len(db) : db[i] \in Turn
      /\ \A g \in Handlers : \A j \in 1 .. Len(outbox[g]) : outbox[g][j] \in Turn
  BY <1>1, ElementOfSeq DEF TypeOK, Turn
\* Nothing of h is past yet.
<1>3. \A e \in Turn : Past(e) => e[1] # h
  BY <1>1, TurnParts DEF Past, PastAt
<1>4. /\ \A i \in 1 .. Len(db) : db[i][1] # h
      /\ \A g \in Handlers : \A j \in 1 .. Len(outbox[g]) : outbox[g][j][1] # h
  BY <1>1, <1>2, <1>3 DEF TableOK, OutboxOK
<1>5. PastNext(t)
  BY <1>1, <1>2 DEF PastNext, PastAt, TypeOK
<1>6. /\ \A i \in 1 .. Len(db) : PastNext(db[i])
      /\ \A g \in Handlers : \A j \in 1 .. Len(outbox[g]) : PastNext(outbox[g][j])
  BY <1>1, <1>2, Forward DEF TableOK, OutboxOK
<1> HIDE DEF t
<1>7. /\ InOrder(db', astray)
      /\ \A i \in 1 .. Len(db') : db'[i] = t \/ \E k \in 1 .. Len(db) : db'[i] = db[k]
  <2>1. \A i \in 1 .. Len(db) : Before(db[i], t, astray)
    BY <1>2, <1>4 DEF Before
  <2> QED
    BY <1>1, <1>2, <2>1, AppendInOrder DEF TableOK
<1>8. ASSUME NEW g \in Handlers
      PROVE  OutboxOK(g)'
  <2>1. \A j \in 1 .. Len(outbox[g]) : Before(t, outbox[g][j], astray)
    BY <1>2, <1>4 DEF Before
  <2>2. \A j \in 1 .. Len(outbox[g]) : \A i \in 1 .. Len(db') : Before(db'[i], outbox[g][j], astray)
    BY <1>1, <1>7, <2>1 DEF TableOK, OutboxOK
  <2> QED
    BY <1>1, <1>6, <2>2 DEF TableOK, OutboxOK, Past, PastNext
<1>9. \A g, k \in Handlers : Apart(g, k)'
  BY <1>1 DEF TableOK, Apart
<1>10. \A i \in 1 .. Len(db') : PastNext(db'[i])
  BY <1>5, <1>6, <1>7
<1> QED
  BY <1>1, <1>7, <1>8, <1>9, <1>10, ControlStep DEF TableOK, Past, PastNext

\* The gateway inserts the head of a queue, which may come after all rows and
\* is in no other place.
LEMMA MirrorKeepsTable ==
    ASSUME IInv, [Next]_vars, NEW h \in Handlers, Mirror(h)
    PROVE  TableOK'
<1> DEFINE o == outbox[h]
           e == Head(o)
<1>1. /\ TypeOK /\ TableOK /\ \A g \in Handlers : Control(g)
      /\ o # <<>> /\ UNCHANGED <<pc, turn, astray>>
      /\ outbox' = [outbox EXCEPT ![h] = Tail(o)]
      /\ db' = db \/ db' = Append(db, e)
  BY DEF IInv, TableOK, Mirror, runs
<1>2. /\ o \in Seq(Turn) /\ db \in Seq(Turn)
      /\ \A i \in 1 .. Len(db) : db[i] \in Turn
      /\ \A g \in Handlers : \A j \in 1 .. Len(outbox[g]) : outbox[g][j] \in Turn
  BY <1>1, ElementOfSeq DEF TypeOK
<1>3. /\ e \in Turn /\ e = o[1] /\ 1 \in 1 .. Len(o)
      /\ Len(Tail(o)) = Len(o) - 1 /\ Len(o) \in Nat
      /\ \A i \in 1 .. Len(Tail(o)) : Tail(o)[i] = o[i + 1] /\ i + 1 \in 1 .. Len(o)
  <2>1. Len(o) \in Nat /\ Len(o) # 0
    BY <1>1, <1>2, LenProperties, EmptySeq
  <2>2. /\ e \in Turn /\ Len(Tail(o)) = Len(o) - 1
        /\ \A i \in 1 .. Len(Tail(o)) : Tail(o)[i] = o[i + 1]
    BY <1>1, <1>2, HeadTailProperties
  <2>3. e = o[1]
    BY <1>1, <1>2
  <2> QED
    BY <2>1, <2>2, <2>3
<1>4. OutboxOK(h)
  BY <1>1 DEF TableOK
<1>5. /\ Past(e) /\ e[2] # 0 /\ (e[1] # h => e[1] \in astray)
      /\ \A i \in 1 .. Len(db) : Before(db[i], e, astray)
  BY <1>3, <1>4 DEF OutboxOK
<1>6. outbox'[h] = Tail(o) /\ \A g \in Handlers \ {h} : outbox'[g] = outbox[g]
  BY <1>1 DEF TypeOK
<1> HIDE DEF e
<1>7. /\ InOrder(db', astray)
      /\ \A i \in 1 .. Len(db') : db'[i] = e \/ \E k \in 1 .. Len(db) : db'[i] = db[k]
  <2>1. InOrder(db, astray)
    BY <1>1 DEF TableOK
  <2>2. /\ InOrder(Append(db, e), astray)
        /\ \A i \in 1 .. Len(Append(db, e)) :
              \/ Append(db, e)[i] = e
              \/ \E k \in 1 .. Len(db) : Append(db, e)[i] = db[k]
    BY <1>2, <1>3, <1>5, <2>1, AppendInOrder
  <2> QED
    BY <1>1, <2>1, <2>2
<1>8. /\ \A i \in 1 .. Len(db) : PastNext(db[i])
      /\ \A g \in Handlers : \A j \in 1 .. Len(outbox[g]) : PastNext(outbox[g][j])
      /\ PastNext(e)
  BY <1>1, <1>2, <1>3, <1>5, Forward DEF TableOK, OutboxOK
\* e may come before what is still queued.
<1>9. \A j \in 1 .. Len(Tail(o)) : Before(e, Tail(o)[j], astray)
  <2> SUFFICES ASSUME NEW j \in 1 .. Len(Tail(o)) PROVE Before(e, Tail(o)[j], astray)
    OBVIOUS
  <2>1. Tail(o)[j] = o[j + 1] /\ 1 < j + 1 /\ j + 1 \in 1 .. Len(o) /\ InOrder(o, astray)
    BY <1>3, <1>4 DEF OutboxOK
  <2> QED
    BY <1>3, <2>1 DEF InOrder, Before
<1>10. ASSUME NEW g \in Handlers, g # h, NEW j \in 1 .. Len(outbox[g])
       PROVE  Before(e, outbox[g][j], astray)
  <2>1. OutboxOK(g) /\ Apart(h, g)
    BY <1>1 DEF TableOK
  <2>2. outbox[g][j] # e
    BY <1>3, <1>10, <2>1 DEF Apart
  <2>3. outbox[g][j] \in Turn /\ outbox[g][j][2] # 0
    BY <1>2, <2>1 DEF OutboxOK
  <2>4. e[1] = outbox[g][j][1] => e[1] \in astray
    BY <1>5, <1>10, <2>1 DEF OutboxOK
  <2>5. e[1] = outbox[g][j][1] => e[2] # outbox[g][j][2]
    BY <1>3, <2>2, <2>3 DEF Turn
  <2> QED
    BY <2>3, <2>4, <2>5 DEF Before
<1>11. ASSUME NEW g \in Handlers
       PROVE  OutboxOK(g)'
  <2>1. CASE g # h
    <3>1. \A j \in 1 .. Len(outbox[g]) : \A i \in 1 .. Len(db') : Before(db'[i], outbox[g][j], astray)
      BY <1>1, <1>7, <1>10, <2>1 DEF TableOK, OutboxOK
    <3> QED
      BY <1>1, <1>6, <1>8, <2>1, <3>1 DEF TableOK, OutboxOK, Past, PastNext
  <2>2. CASE g = h
    <3>1. InOrder(Tail(o), astray)
      <4> SUFFICES ASSUME NEW i \in 1 .. Len(Tail(o)), NEW j \in 1 .. Len(Tail(o)),
                          i < j, Tail(o)[i][1] = Tail(o)[j][1]
                   PROVE  IF Tail(o)[i][1] \in astray THEN Tail(o)[j][2] \notin {0, Tail(o)[i][2]}
                                                      ELSE Tail(o)[i][2] < Tail(o)[j][2]
        BY DEF InOrder
      <4>1. /\ Tail(o)[i] = o[i + 1] /\ Tail(o)[j] = o[j + 1] /\ i + 1 < j + 1
            /\ i + 1 \in 1 .. Len(o) /\ j + 1 \in 1 .. Len(o) /\ InOrder(o, astray)
        BY <1>3, <1>4 DEF OutboxOK
      <4> QED
        BY <4>1 DEF InOrder
    <3>2. \A j \in 1 .. Len(Tail(o)) : \A i \in 1 .. Len(db') : Before(db'[i], Tail(o)[j], astray)
      BY <1>3, <1>4, <1>7, <1>9 DEF OutboxOK
    <3>3. \A j \in 1 .. Len(Tail(o)) :
             /\ PastNext(Tail(o)[j]) /\ Tail(o)[j][2] # 0
             /\ Tail(o)[j][1] # h => Tail(o)[j][1] \in astray
      BY <1>3, <1>4, <1>8 DEF OutboxOK
    <3>4. outbox'[g] = Tail(o) /\ astray' = astray
      BY <1>1, <1>6, <2>2
    <3> HIDE DEF o
    <3> QED
      BY <2>2, <3>1, <3>2, <3>3, <3>4 DEF OutboxOK, Past, PastNext
  <2> QED
    BY <2>1, <2>2
<1>12. ASSUME NEW g \in Handlers, NEW k \in Handlers
       PROVE  Apart(g, k)'
  <2>1. \A f \in Handlers : \A i \in 1 .. Len(outbox'[f]) :
           \E j \in 1 .. Len(outbox[f]) : outbox'[f][i] = outbox[f][j]
    BY <1>3, <1>6
  <2> QED
    BY <1>1, <2>1 DEF TableOK, Apart
<1>13. \A i \in 1 .. Len(db') : PastNext(db'[i])
  BY <1>7, <1>8
<1> QED
  BY <1>1, <1>7, <1>11, <1>12, <1>13, ControlStep DEF TableOK, Past, PastNext

\* onAgentStreamEnd queues the turn, which is in no queue and in no row yet,
\* behind everything that is in the queue it gets to.
LEMMA StreamEndKeepsTable ==
    ASSUME IInv, [Next]_vars, NEW h \in Handlers, StreamEnd(h)
    PROVE  TableOK'
<1> DEFINE t == <<h, turn[h]>>
<1>1. /\ TypeOK /\ TableOK /\ \A g \in Handlers : Control(g)
      /\ pc[h] = "ended" /\ turn[h] > 0 /\ turn' = turn /\ db' = db
      /\ pc' \in {[pc EXCEPT ![h] = "run_task"], [pc EXCEPT ![h] = "over"]}
      /\ astray \subseteq astray'
      /\ \/ outbox' = outbox
         \/ /\ held[h] \in Handlers /\ (held[h] # h => h \in astray')
            /\ outbox' = [outbox EXCEPT ![held[h]] = Append(outbox[held[h]], t)]
  BY DEF IInv, TableOK, Control, StreamEnd, Heard, NextRound, Goto
<1>2. /\ db \in Seq(Turn) /\ t \in Turn /\ t[1] = h /\ t[2] = turn[h] /\ t[2] # 0 /\ t[2] \in Nat
      /\ \A i \in 1 .. Len(db) : db[i] \in Turn
      /\ \A g \in Handlers : outbox[g] \in Seq(Turn)
      /\ \A g \in Handlers : \A j \in 1 .. Len(outbox[g]) : outbox[g][j] \in Turn
  <2>1. t \in Turn
    BY <1>1 DEF TypeOK, Turn
  <2>2. t[2] \in Nat
    BY <2>1, TurnParts
  <2> QED
    BY <1>1, <2>1, <2>2, ElementOfSeq DEF TypeOK
\* What is past and h's is older.
<1>3. \A e \in Turn : Past(e) => Before(e, t, astray') /\ e # t
  <2> SUFFICES ASSUME NEW e \in Turn, Past(e) PROVE Before(e, t, astray') /\ e # t
    OBVIOUS
  <2>1. e[1] = h => e[2] < turn[h]
    BY <1>1 DEF Past, PastAt
  <2>2. e[2] \in Nat
    BY TurnParts
  <2> QED
    BY <1>2, <2>1, <2>2 DEF Before
<1>4. /\ \A i \in 1 .. Len(db) : PastNext(db[i])
      /\ \A g \in Handlers : \A j \in 1 .. Len(outbox[g]) : PastNext(outbox[g][j])
  BY <1>1, <1>2, Forward DEF TableOK, OutboxOK
<1>5. PastNext(t)
  BY <1>1, <1>2 DEF PastNext, PastAt, TypeOK
<1> HIDE DEF t
<1>6. InOrder(db, astray') /\ \A g \in Handlers : InOrder(outbox[g], astray')
  BY <1>1, <1>2, MoreMixed DEF TableOK, OutboxOK
<1>7. /\ \A i \in 1 .. Len(db) : Before(db[i], t, astray') /\ db[i] # t
      /\ \A g \in Handlers : \A j \in 1 .. Len(outbox[g]) :
            /\ Before(outbox[g][j], t, astray') /\ outbox[g][j] # t
            /\ \A i \in 1 .. Len(db) : Before(db[i], outbox[g][j], astray')
            /\ outbox[g][j][2] # 0
            /\ outbox[g][j][1] # g => outbox[g][j][1] \in astray'
  BY <1>1, <1>2, <1>3, MoreMixed DEF TableOK, OutboxOK
<1>8. ASSUME NEW g \in Handlers
      PROVE  /\ InOrder(outbox'[g], astray')
             /\ \A j \in 1 .. Len(outbox'[g]) :
                   \/ outbox'[g][j] = t /\ g = held[h] /\ outbox' # outbox
                   \/ \E k \in 1 .. Len(outbox[g]) : outbox'[g][j] = outbox[g][k]
  <2>1. CASE outbox'[g] = outbox[g]
    BY <1>6, <2>1
  <2>2. CASE outbox'[g] # outbox[g]
    <3>1. g = held[h] /\ outbox'[g] = Append(outbox[g], t)
      BY <1>1, <2>2 DEF TypeOK
    <3> QED
      BY <1>2, <1>6, <1>7, <2>2, <3>1, AppendInOrder
  <2> QED
    BY <2>1, <2>2
<1>9. ASSUME NEW g \in Handlers
      PROVE  OutboxOK(g)'
  <2>1. ASSUME NEW j \in 1 .. Len(outbox'[g])
        PROVE  /\ PastNext(outbox'[g][j])
               /\ outbox'[g][j][2] # 0
               /\ outbox'[g][j][1] # g => outbox'[g][j][1] \in astray'
               /\ \A i \in 1 .. Len(db) : Before(db[i], outbox'[g][j], astray')
    <3>1. CASE outbox'[g][j] = t /\ g = held[h] /\ outbox' # outbox
      BY <1>1, <1>2, <1>5, <1>7, <3>1
    <3>2. CASE \E k \in 1 .. Len(outbox[g]) : outbox'[g][j] = outbox[g][k]
      BY <1>4, <1>7, <3>2
    <3> QED
      BY <1>8, <3>1, <3>2
  <2> QED
    BY <1>1, <1>8, <2>1 DEF OutboxOK, Past, PastNext
<1>10. ASSUME NEW g \in Handlers, NEW k \in Handlers
       PROVE  Apart(g, k)'
  <2> SUFFICES ASSUME g # k, NEW i \in 1 .. Len(outbox'[g]), NEW j \in 1 .. Len(outbox'[k])
               PROVE  outbox'[g][i] # outbox'[k][j]
    BY DEF Apart
  <2>1. \A m \in 1 .. Len(outbox[g]) : \A n \in 1 .. Len(outbox[k]) : outbox[g][m] # outbox[k][n]
    BY <1>1 DEF TableOK, Apart
  <2>2. \/ outbox'[g][i] = t /\ g = held[h]
        \/ \E m \in 1 .. Len(outbox[g]) : outbox'[g][i] = outbox[g][m]
    BY <1>8
  <2>3. \/ outbox'[k][j] = t /\ k = held[h]
        \/ \E n \in 1 .. Len(outbox[k]) : outbox'[k][j] = outbox[k][n]
    BY <1>8
  <2>4. /\ \A m \in 1 .. Len(outbox[g]) : outbox[g][m] # t
        /\ \A n \in 1 .. Len(outbox[k]) : outbox[k][n] # t
    BY <1>7
  <2> QED
    BY <2>1, <2>2, <2>3, <2>4
<1> QED
  BY <1>1, <1>4, <1>6, <1>9, <1>10, ControlStep DEF TableOK, Past, PastNext

\* Every other action leaves the table alone, so TableOK holds after any step.
LEMMA TableStep ==
    ASSUME IInv, [Next]_vars
    PROVE  TableOK'
<1>1. ASSUME NEW h \in Handlers, Step(h)
      PROVE  TableOK'
  <2>1. CASE Get(h) \/ Find(h) \/ Fill(h) \/ Save(h) \/ ReadContext(h) \/ AgentAnswers(h)
    <3>1. UNCHANGED <<db, astray, outbox>>
      BY <2>1 DEF Get, Find, Fill, Save, ReadContext, AgentAnswers, runs
    <3> QED
      BY <3>1, TableFrame
  <2>2. CASE Start(h) \/ BeginRound(h) \/ FinishRun(h)
    <3>1. UNCHANGED <<db, astray, outbox>>
      BY <2>2 DEF Start, BeginRound, FinishRun
    <3> QED
      BY <3>1, TableFrame
  <2>3. CASE PersistUser(h)
    BY <2>3, PersistUserKeepsTable
  <2>4. CASE StreamEnd(h)
    BY <2>4, StreamEndKeepsTable
  <2> QED
    BY <1>1, <2>1, <2>2, <2>3, <2>4 DEF Step
<1>2. ASSUME NEW h \in Handlers, Mirror(h)
      PROVE  TableOK'
  BY <1>2, MirrorKeepsTable
<1>3. ASSUME NEW h \in Handlers,
             Receive(h) \/ LoopReturns(h) \/ StorageFails(h) \/ MirrorFails(h)
      PROVE  TableOK'
  <2>1. UNCHANGED <<db, astray>> /\ \A g \in Handlers : outbox'[g] = outbox[g] \/ outbox'[g] = <<>>
    BY <1>3 DEF Receive, LoopReturns, StorageFails, MirrorFails, runs, IInv, TypeOK
  <2> QED
    BY <2>1, TableFrame
<1>4. CASE Expire \/ Crash \/ UNCHANGED vars
  <2>1. UNCHANGED <<db, astray>> /\ \A g \in Handlers : outbox'[g] = outbox[g] \/ outbox'[g] = <<>>
    BY <1>4 DEF Expire, Crash, vars, runs
  <2> QED
    BY <2>1, TableFrame
<1> QED
  BY <1>1, <1>2, <1>3, <1>4 DEF Next

LEMMA InitInv ==
    ASSUME Init
    PROVE  IInv
<1>1. TypeOK
  BY MemoryAssumption, EmptySeq DEF Init, TypeOK
<1>2. TableOK
  BY DEF Init, TableOK, OutboxOK, Control, Apart, InOrder
<1>3. MemoryOK
  BY DEF Init, MemoryOK, InOrder, AllAppended
<1> QED
  BY <1>1, <1>2, <1>3 DEF IInv

LEMMA NextInv ==
    ASSUME IInv, [Next]_vars
    PROVE  IInv'
  BY TypeStep, TableStep, MemoryStep DEF IInv

\* The inductive invariant holds in every state of every behaviour.
LEMMA InductiveInvariant == Spec => []IInv
  BY InitInv, NextInv, PTL DEF Spec

\* The state keeps its shape, the cached list never outgrows MAX_MESSAGES and
\* a context never outgrows maxHistory.
THEOREM TypeCorrect == Spec => []TypeOK
<1>1. IInv => TypeOK
  BY DEF IInv
<1> QED
  BY <1>1, InductiveInvariant, PTL

\* No turn is ever stored or shown twice, and the rounds of a run change places
\* only when one of them was pushed on the queue of another message, in Redis,
\* in PostgreSQL, in flight or in a context, whatever the handlers'
\* interleaving, the expiries and the faults.
THEOREM OnceInOrder == Spec => []TurnsOnceInOrder
<1>1. IInv => TurnsOnceInOrder
  BY DEF IInv, TableOK, MemoryOK, TurnsOnceInOrder
<1> QED
  BY <1>1, InductiveInvariant, PTL
-----------------------------------------------------------------------------
(***************************************************************************)
(* A session that is used by one message at a time, without faults, and    *)
(* whose key expires only while nothing is under way: its context is the   *)
(* end of the conversation, from Redis or from PostgreSQL, but for blank   *)
(* turns.  Every other turn that was said is in a row, on its way to one,  *)
(* or was just appended; while the key is there the list tells what was    *)
(* said, and it only goes when the table does.                             *)
(***************************************************************************)
OneByOne == Serial /\ ~EagerExpiry /\ ~Faults

Distinct(r) == \A k, l \in 1 .. Len(r) : r[k] = r[l] => k = l

LEMMA OnceOnly ==
    ASSUME NEW s \in Seq(Turn), NEW A, InOrder(s, A)
    PROVE  Distinct(s)
<1> SUFFICES ASSUME NEW k \in 1 .. Len(s), NEW l \in 1 .. Len(s), k < l, s[k] = s[l]
             PROVE  FALSE
  <2>1. Len(s) \in Nat
    BY LenProperties
  <2> QED
    BY <2>1 DEF Distinct
<1>1. s[k][2] \in Nat
  <2>1. s[k] \in Turn
    BY ElementOfSeq
  <2> QED
    BY <2>1, TurnParts
<1> QED
  BY <1>1 DEF InOrder

\* A part of what follows r follows r.
LEMMA FollowsPart ==
    ASSUME NEW q, NEW s, NEW r, Follows(s, r), NEW d \in Nat, Len(q) \in Nat, Len(s) \in Nat,
           \A i \in 1 .. Len(q) : i + d \in 1 .. Len(s) /\ q[i] = s[i + d]
    PROVE  Follows(q, r)
<1>1. \A i \in 1 .. Len(q) : Holds(r, q[i])
  BY DEF Follows
<1>2. ASSUME NEW i \in 1 .. Len(q), NEW j \in 1 .. Len(q), NEW k \in 1 .. Len(r), NEW l \in 1 .. Len(r),
             i < j, q[i] = r[k], q[j] = r[l]
      PROVE  k < l
  <2>1. i + d \in 1 .. Len(s) /\ j + d \in 1 .. Len(s) /\ i + d < j + d /\ s[i + d] = r[k] /\ s[j + d] = r[l]
    BY <1>2
  <2> QED
    BY <2>1 DEF Follows
<1> QED
  BY <1>1, <1>2 DEF Follows

\* A new turn at the end of r is in nobody's way.
LEMMA FollowsGrow ==
    ASSUME NEW s \in Seq(Turn), NEW r \in Seq(Turn), NEW t \in Turn, Follows(s, r),
           \A i \in 1 .. Len(s) : s[i] # t
    PROVE  Follows(s, Append(r, t))
<1>1. /\ Len(r) \in Nat /\ Len(Append(r, t)) = Len(r) + 1 /\ Append(r, t)[Len(r) + 1] = t
      /\ \A k \in 1 .. Len(r) : Append(r, t)[k] = r[k]
  BY AppendProperties, LenProperties
<1> DEFINE b == Append(r, t)
<1> HIDE DEF b
<1>2. ASSUME NEW i \in 1 .. Len(s) PROVE Holds(b, s[i])
  <2>1. PICK k \in 1 .. Len(r) : r[k] = s[i]
    BY DEF Follows, Holds
  <2> QED
    BY <1>1, <2>1 DEF Holds, b
<1>3. \A i \in 1 .. Len(s) : \A k \in 1 .. Len(b) : s[i] = b[k] => k \in 1 .. Len(r) /\ s[i] = r[k]
  BY <1>1 DEF b
<1>4. ASSUME NEW i \in 1 .. Len(s), NEW j \in 1 .. Len(s), NEW k \in 1 .. Len(b), NEW l \in 1 .. Len(b),
             i < j, s[i] = b[k], s[j] = b[l]
      PROVE  k < l
  BY <1>3, <1>4 DEF Follows
<1> QED
  BY <1>2, <1>4 DEF Follows, b

\* The turn at place n of r may be appended behind earlier ones.
LEMMA FollowsAppend ==
    ASSUME NEW s \in Seq(Turn), NEW r \in Seq(Turn), Distinct(r), Follows(s, r),
           NEW n \in 1 .. Len(r),
           \A i \in 1 .. Len(s) : \A k \in 1 .. Len(r) : s[i] = r[k] => k < n
    PROVE  Follows(Append(s, r[n]), r)
<1> DEFINE t == r[n]
           a == Append(s, t)
<1>1. t \in Turn /\ Len(s) \in Nat
  BY ElementOfSeq, LenProperties
<1> HIDE DEF t
<1>2. /\ Len(a) = Len(s) + 1 /\ a[Len(s) + 1] = t
      /\ \A i \in 1 .. Len(s) : a[i] = s[i]
  BY <1>1, AppendProperties
<1> HIDE DEF a
<1>3. \A i \in 1 .. Len(a) : i \in 1 .. Len(s) \/ i = Len(s) + 1
  BY <1>1, <1>2
<1>4. ASSUME NEW i \in 1 .. Len(a) PROVE Holds(r, a[i])
  <2>1. CASE i \in 1 .. Len(s)
    BY <1>2, <2>1 DEF Follows
  <2>2. CASE i = Len(s) + 1
    BY <1>2, <2>2 DEF Holds, t
  <2> QED
    BY <1>3, <2>1, <2>2
<1>5. ASSUME NEW i \in 1 .. Len(a), NEW j \in 1 .. Len(a), NEW k \in 1 .. Len(r), NEW l \in 1 .. Len(r),
             i < j, a[i] = r[k], a[j] = r[l]
      PROVE  k < l
  <2>1. i \in 1 .. Len(s)
    BY <1>1, <1>2, <1>5
  <2>2. CASE j \in 1 .. Len(s)
    BY <1>2, <1>5, <2>1, <2>2 DEF Follows
  <2>3. CASE j = Len(s) + 1
    <3>1. l = n
      BY <1>2, <1>5, <2>3 DEF Distinct, t
    <3> QED
      BY <1>2, <1>5, <2>1, <3>1
  <2> QED
    BY <1>3, <2>2, <2>3
<1> QED
  BY <1>4, <1>5 DEF Follows, a, t

LEMMA HoldsAppend ==
    ASSUME NEW s \in Seq(Turn), NEW t \in Turn
    PROVE  \A e : Holds(Append(s, t), e) <=> Holds(s, e) \/ e = t
<1>1. /\ Len(s) \in Nat /\ Len(Append(s, t)) = Len(s) + 1 /\ Append(s, t)[Len(s) + 1] = t
      /\ \A i \in 1 .. Len(s) : Append(s, t)[i] = s[i]
  BY AppendProperties, LenProperties
<1> DEFINE a == Append(s, t)
<1> HIDE DEF a
<1>2. \A i \in 1 .. Len(a) : i \in 1 .. Len(s) \/ i = Len(s) + 1
  BY <1>1 DEF a
<1>3. \A i \in 1 .. Len(s) + 1 : i \in 1 .. Len(a)
  BY <1>1 DEF a
<1>4. ASSUME NEW e, Holds(a, e) PROVE Holds(s, e) \/ e = t
  <2>1. PICK i \in 1 .. Len(a) : a[i] = e
    BY <1>4 DEF Holds
  <2> QED
    BY <1>1, <1>2, <2>1 DEF Holds, a
<1>5. ASSUME NEW e, Holds(s, e) PROVE Holds(a, e)
  <2>1. PICK i \in 1 .. Len(s) : s[i] = e
    BY <1>5 DEF Holds
  <2>2. i \in 1 .. Len(a) /\ a[i] = e
    BY <1>1, <1>3, <2>1 DEF a
  <2> QED
    BY <2>2 DEF Holds
<1>6. Holds(a, t)
  BY <1>1, <1>3 DEF Holds, a
<1> QED
  BY <1>4, <1>5, <1>6 DEF a

\* s tells what r says: its turns in their order, and all that are not blank.
Tells(s, r) ==
    /\ Follows(s, r)
    /\ \A k \in 1 .. Len(r) : r[k] \notin Blank => Holds(s, r[k])

\* append() of a new turn to a list that tells all, when it is said.
LEMMA TellsMore ==
    ASSUME NEW s \in Seq(Turn), NEW r \in Seq(Turn), NEW t \in Turn, Tells(s, r),
           Distinct(Append(r, t))
    PROVE  Tells(Append(s, t), Append(r, t))
<1> DEFINE b == Append(r, t)
<1>1. /\ b \in Seq(Turn) /\ Len(r) \in Nat /\ Len(b) = Len(r) + 1 /\ b[Len(r) + 1] = t
      /\ \A k \in 1 .. Len(r) : b[k] = r[k]
  BY AppendProperties, LenProperties
<1>2. \A k \in 1 .. Len(r) : r[k] # t
  BY <1>1 DEF Distinct
<1>3. \A i \in 1 .. Len(s) : s[i] # t
  BY <1>2 DEF Tells, Follows, Holds
<1>4. Follows(s, b)
  BY <1>3, FollowsGrow DEF Tells
<1> HIDE DEF b
<1>5. ASSUME NEW i \in 1 .. Len(s), NEW k \in 1 .. Len(b), s[i] = b[k] PROVE k < Len(r) + 1
  BY <1>1, <1>3, <1>5
<1>6. Distinct(b) /\ Len(r) + 1 \in 1 .. Len(b)
  BY <1>1 DEF b
<1>7. Follows(Append(s, t), b)
  <2> DEFINE n == Len(r) + 1
  <2>1. b \in Seq(Turn) /\ n \in 1 .. Len(b) /\ Distinct(b) /\ Follows(s, b)
    BY <1>1, <1>4, <1>6 DEF b
  <2>2. \A i \in 1 .. Len(s) : \A k \in 1 .. Len(b) : s[i] = b[k] => k < n
    BY <1>5
  <2>3. b[n] = t
    BY <1>1 DEF b
  <2> HIDE DEF n
  <2>4. Follows(Append(s, b[n]), b)
    BY <2>1, <2>2, FollowsAppend
  <2> QED
    BY <2>3, <2>4
<1>8. ASSUME NEW k \in 1 .. Len(b), b[k] \notin Blank PROVE Holds(Append(s, t), b[k])
  <2>1. CASE k \in 1 .. Len(r)
    BY <1>1, <1>8, <2>1, HoldsAppend DEF Tells
  <2>2. CASE k = Len(r) + 1
    BY <1>1, <2>2, HoldsAppend
  <2> QED
    BY <1>1, <2>1, <2>2
<1> QED
  BY <1>7, <1>8 DEF Tells, b

\* slice(-maxHistory) of a list that tells all is the end of the conversation.
LEMMA EndIsHistory ==
    ASSUME NEW s \in Seq(Turn), NEW r \in Seq(Turn), Distinct(r), Tells(s, r)
    PROVE  IsHistory(LastN(s, MaxHistory), r)
<1> DEFINE n == MaxHistory
           d == IF Len(s) > n THEN Len(s) - n ELSE 0
           c == LastN(s, n)
<1>1. Len(s) \in Nat /\ Len(r) \in Nat /\ n \in Nat \ {0}
  BY LenProperties, MemoryAssumption
<1>2. d \in Nat /\ d <= Len(s) /\ (d = 0 \/ Len(s) - d = n)
  BY <1>1
<1>3. c = SubSeq(s, d + 1, Len(s))
  BY <1>1 DEF LastN
<1> HIDE DEF d, n
<1>4. /\ Len(c) = Len(s) - d
      /\ \A i \in 1 .. Len(c) : i + d \in 1 .. Len(s) /\ c[i] = s[i + d]
  <2>1. \A i \in d + 1 .. Len(s) : s[i] \in Turn
    BY <1>1, <1>2, ElementOfSeq
  <2> DEFINE m == d + 1
  <2>2. /\ Len(SubSeq(s, m, Len(s))) = IF m <= Len(s) THEN Len(s) - m + 1 ELSE 0
        /\ \A i \in 1 .. Len(s) - m + 1 : SubSeq(s, m, Len(s))[i] = s[m + i - 1]
    BY <1>1, <1>2, <2>1, SubSeqProperties
  <2>3. Len(c) = Len(s) - d
    BY <1>1, <1>2, <1>3, <2>2
  <2>4. ASSUME NEW i \in 1 .. Len(c) PROVE i + d \in 1 .. Len(s) /\ c[i] = s[i + d]
    <3>1. i \in 1 .. Len(s) - m + 1 /\ m + i - 1 = i + d
      BY <1>1, <1>2, <2>3
    <3> QED
      BY <1>1, <1>2, <1>3, <2>2, <2>3, <3>1
  <2> QED
    BY <2>3, <2>4
<1> HIDE DEF c
<1>5. Follows(c, r)
  <2>1. Follows(s, r)
    BY DEF Tells
  <2>2. Len(c) \in Nat
    BY <1>1, <1>2, <1>4
  <2>3. \A i \in 1 .. Len(c) : i + d \in 1 .. Len(s) /\ c[i] = s[i + d]
    BY <1>4
  <2> QED
    BY <1>1, <1>2, <2>1, <2>2, <2>3, FollowsPart
<1>6. ASSUME NEW k \in 1 .. Len(r), NEW l \in 1 .. Len(r), k < l, Holds(c, r[k]), r[l] \notin Blank
      PROVE  Holds(c, r[l])
  <2>1. PICK i \in 1 .. Len(c) : c[i] = r[k]
    BY <1>6 DEF Holds
  <2>2. PICK q \in 1 .. Len(s) : s[q] = r[l]
    BY <1>6 DEF Tells, Holds
  <2>3. i + d \in 1 .. Len(s) /\ s[i + d] = r[k]
    BY <1>4, <2>1
  <2>4. q # i + d
    BY <1>6, <2>2, <2>3 DEF Distinct
  <2>5. ~(q < i + d)
    <3> SUFFICES ASSUME q < i + d PROVE FALSE
      OBVIOUS
    <3>1. l < k
      BY <2>2, <2>3 DEF Tells, Follows
    <3> QED
      BY <1>6, <3>1
  <2>6. q - d \in 1 .. Len(c) /\ (q - d) + d = q
    BY <1>1, <1>2, <1>4, <2>1, <2>3, <2>4, <2>5
  <2>7. c[q - d] = r[l]
    BY <1>4, <2>2, <2>6
  <2> QED
    BY <2>6, <2>7 DEF Holds
<1>7. Len(c) = n \/ \A k \in 1 .. Len(r) : r[k] \notin Blank => Holds(c, r[k])
  <2>1. CASE d = 0
    <3>1. ASSUME NEW e, Holds(s, e) PROVE Holds(c, e)
      <4>1. PICK q \in 1 .. Len(s) : s[q] = e
        BY <3>1 DEF Holds
      <4>2. q \in 1 .. Len(c) /\ q + d = q
        BY <1>1, <1>4, <2>1, <4>1
      <4>3. c[q] = e
        BY <1>4, <4>1, <4>2
      <4> QED
        BY <4>2, <4>3 DEF Holds
    <3> QED
      BY <3>1 DEF Tells
  <2>2. CASE Len(s) - d = n
    BY <1>4, <2>2
  <2> QED
    BY <1>2, <2>1, <2>2
<1> QED
  BY <1>5, <1>6, <1>7 DEF IsHistory, c, n

\* As long as it fits, a slice of a list is the list.
LEMMA WholeSlice ==
    ASSUME NEW s \in Seq(Turn), NEW n \in Nat, Len(s) <= n
    PROVE  LastN(s, n) = s /\ FirstN(s, n) = s
<1>1. Len(s) \in Nat
  BY LenProperties
<1>2. SubSeq(s, 1, Len(s)) = s
  BY SubSeqFull
<1>3. (Len(s) > n) = FALSE
  BY <1>1
<1>4. LastN(s, n) = SubSeq(s, 1, Len(s)) /\ FirstN(s, n) = SubSeq(s, 1, Len(s))
  BY <1>3, Zenon DEF LastN, FirstN
<1> QED
  BY <1>2, <1>4

Active(h) == ~Idle(h) \/ outbox[h] # <<>>
Pending(h) == IF pc[h] \in {"persist", "ended"} THEN 1 ELSE 0

OneActive == \A g, h \in Handlers : Active(g) /\ Active(h) => g = h

\* The hooks of the session are those of the run that uses them.
Own(h) ==
    /\ pc[h] \in {"idle", "persist", "start"} => turn[h] = 0
    /\ (pc[h] = "run_task" \/ turn[h] > 0) /\ pc[h] # "done" => hooks = h
    /\ turn[h] > 0 /\ pc[h] \notin {"run_task", "over", "done"} => held[h] = h
    /\ h \in left => pc[h] = "done" /\ outbox[h] = <<>>

\* In r, the turns of s come before those of q.
Precedes(s, q, r) ==
    \A i \in 1 .. Len(s), j \in 1 .. Len(q) : \A k, l \in 1 .. Len(r) :
        s[i] = r[k] /\ q[j] = r[l] => k < l

\* The rows come before what h has in its queue, and that before the turn it
\* has just appended.
Rows(h) ==
    /\ Len(db) + Len(outbox[h]) + Pending(h) <= Len(said)
    /\ Follows(outbox[h], said)
    /\ Precedes(db, outbox[h], said)
    /\ Pending(h) = 1 => said # <<>> /\ said[Len(said)] = <<h, turn[h]>>
    /\ turn[h] = 0 => outbox[h] = <<>>

\* On its way to a row, or about to be.
OnItsWay(t) ==
    \E h \in Handlers : Holds(outbox[h], t) \/ (pc[h] \in {"persist", "ended"} /\ t = <<h, turn[h]>>)

\* What was said and is not blank is in a row or on its way; the rows are in
\* the order in which they were said.
StoredOrOnItsWay ==
    /\ Follows(db, said)
    /\ \A k \in 1 .. Len(said) : said[k] \notin Blank => Holds(db, said[k]) \/ OnItsWay(said[k])

Tidy ==
    /\ OneActive
    /\ StoredOrOnItsWay
    /\ \A h \in Handlers : Own(h) /\ Rows(h)

\* What the steps below use of the shape of the state.
LEMMA Shape ==
    ASSUME IInv
    PROVE  /\ pc \in [Handlers -> {"idle", "get", "find", "fill", "save", "persist",
                                   "start", "run_task", "context", "thinking",
                                   "ended", "over", "done"}]
           /\ turn \in [Handlers -> 0 .. Rounds] /\ \A h \in Handlers : turn[h] \in Nat
           /\ outbox \in [Handlers -> Seq(Turn)] /\ said \in Seq(Turn) /\ db \in Seq(Turn)
           /\ local \in [Handlers -> Seq(Turn)] /\ context \in [Handlers -> Seq(Turn)]
           /\ held \in [Handlers -> Handlers \union {NoHandler}]
           /\ cache \in Seq(Turn) /\ op \in [Handlers -> {"append", "read"}]
           /\ Len(db) \in Nat /\ Len(said) \in Nat /\ \A h \in Handlers : Len(outbox[h]) \in Nat
           /\ Distinct(said)
           /\ \A h \in Handlers : <<h, turn[h]>> \in Turn /\ Control(h)
<1>1. TypeOK /\ Rounds \in Nat
  BY MemoryAssumption DEF IInv
<1>2. Distinct(said) /\ \A h \in Handlers : Control(h)
  BY <1>1, OnceOnly DEF IInv, TypeOK, MemoryOK, TableOK
<1>3. /\ \A h \in Handlers : turn[h] \in Nat /\ <<h, turn[h]>> \in Turn
      /\ Len(db) \in Nat /\ Len(said) \in Nat /\ \A h \in Handlers : Len(outbox[h]) \in Nat
  BY <1>1, LenProperties DEF TypeOK, Turn
<1> QED
  BY <1>1, <1>2, <1>3 DEF TypeOK

\* A step of h: it is the only active one afterwards too, and the others'
\* hooks do not matter.
LEMMA AloneStep ==
    ASSUME IInv, Tidy, NEW h \in Handlers, Active(h) \/ \A g \in Handlers : ~Active(g),
           \A g \in Handlers \ {h} : /\ pc'[g] = pc[g] /\ outbox'[g] = outbox[g] /\ turn'[g] = turn[g]
                                    /\ held'[g] = held[g] /\ (g \in left' <=> g \in left)
    PROVE  /\ OneActive'
           /\ \A g \in Handlers \ {h} : /\ pc[g] \in {"idle", "done"} /\ outbox[g] = <<>>
                                        /\ ~Active(g) /\ ~Active(g)' /\ Own(g)'
<1>1. \A g \in Handlers \ {h} : ~Active(g)
  BY DEF Tidy, OneActive
<1>2. \A g \in Handlers \ {h} : pc[g] \in {"idle", "done"} /\ outbox[g] = <<>> /\ ~Active(g)'
  BY <1>1 DEF Active, Idle
<1>3. ASSUME NEW g \in Handlers \ {h} PROVE Own(g)'
  <2>1. Own(g)
    BY DEF Tidy
  <2> QED
    BY <1>2, <2>1, Shape DEF Own
<1>4. OneActive'
  BY <1>2 DEF OneActive
<1> QED
  BY <1>1, <1>2, <1>3, <1>4

\* Steps that store nothing and change no queue, and that begin or end no
\* append.
LEMMA QuietStep ==
    ASSUME IInv, Tidy, UNCHANGED <<db, outbox, said>>,
           \A g \in Handlers : /\ pc'[g] \in {"persist", "ended"} <=> pc[g] \in {"persist", "ended"}
                               /\ pc[g] \in {"persist", "ended"} => turn'[g] = turn[g]
                               /\ turn'[g] = 0 => turn[g] = 0
    PROVE  StoredOrOnItsWay' /\ \A g \in Handlers : Rows(g)'
<1>1. ASSUME NEW g \in Handlers PROVE Rows(g)'
  <2>1. Rows(g) /\ Pending(g)' = Pending(g) /\ (Pending(g) = 1 => turn'[g] = turn[g])
    BY DEF Tidy, Pending
  <2> QED
    BY <2>1 DEF Rows
<1>2. \A t : OnItsWay(t) => OnItsWay(t)'
  BY DEF OnItsWay
<1> QED
  BY <1>1, <1>2 DEF Tidy, StoredOrOnItsWay

LEMMA TidyQuiet ==
    ASSUME OneByOne, IInv, Tidy, NEW h \in Handlers,
           Receive(h) \/ Get(h) \/ Find(h) \/ Fill(h) \/ Start(h) \/ BeginRound(h)
             \/ ReadContext(h) \/ AgentAnswers(h) \/ FinishRun(h)
    PROVE  Tidy'
<1> USE Shape DEF Goto
<1>1. UNCHANGED <<db, outbox, said, left>>
  BY DEF Receive, Get, Find, Fill, Start, BeginRound, ReadContext, AgentAnswers, FinishRun, runs
<1>2. \A g \in Handlers \ {h} : pc'[g] = pc[g] /\ turn'[g] = turn[g] /\ held'[g] = held[g]
  BY DEF Receive, Get, Find, Fill, Start, BeginRound, ReadContext, AgentAnswers, FinishRun, runs
<1>3. pc[h] \notin {"persist", "ended", "done"} /\ pc'[h] \notin {"persist", "ended", "idle"}
  BY DEF Receive, Get, Find, Fill, Start, BeginRound, ReadContext, AgentAnswers, FinishRun, AfterGet
<1>4. Active(h) \/ \A g \in Handlers : ~Active(g)
  BY DEF OneByOne, Active, Idle, Receive, Get, Find, Fill, Start, BeginRound, ReadContext,
         AgentAnswers, FinishRun
<1>5. OneActive' /\ \A g \in Handlers \ {h} : Own(g)'
  BY <1>1, <1>2, <1>4, AloneStep
<1>6. StoredOrOnItsWay' /\ \A g \in Handlers : Rows(g)'
  <2>1. turn'[h] \in {turn[h], turn[h] + 1}
    BY DEF Receive, Get, Find, Fill, Start, BeginRound, ReadContext, AgentAnswers, FinishRun
  <2> QED
    BY <1>1, <1>2, <1>3, <2>1, QuietStep
<1>7. Own(h)'
  <2>1. Own(h)
    BY DEF Tidy
  <2>a. h \notin left
    BY <1>3, <2>1 DEF Own
  <2>2. CASE Receive(h)
    BY <1>1, <2>a, <2>1, <2>2 DEF Receive, Own, runs
  <2>3. CASE Get(h) \/ Find(h) \/ Fill(h) \/ ReadContext(h) \/ AgentAnswers(h)
    <3>1. /\ UNCHANGED <<hooks, held, left, turn>>
          /\ pc[h] \in {"get", "find", "fill", "context", "thinking"}
          /\ pc'[h] \in {"get", "find", "fill", "save", "context", "thinking"}
      BY <2>3 DEF Get, Find, Fill, ReadContext, AgentAnswers, AfterGet, runs
    <3> QED
      BY <2>a, <2>1, <3>1 DEF Own
  <2>4. CASE Start(h)
    BY <1>1, <2>a, <2>1, <2>4 DEF Start, Own
  <2>5. CASE BeginRound(h)
    BY <1>1, <2>a, <2>1, <2>5 DEF BeginRound, Own
  <2>6. CASE FinishRun(h)
    BY <1>1, <2>a, <2>1, <2>6 DEF FinishRun, Own
  <2> QED
    BY <2>2, <2>3, <2>4, <2>5, <2>6
<1> QED
  BY <1>5, <1>6, <1>7 DEF Tidy

\* The loop over a queue ends, or the key expires.
LEMMA TidyLoop ==
    ASSUME OneByOne, IInv, Tidy, (\E h \in Handlers : LoopReturns(h)) \/ Expire \/ UNCHANGED vars
    PROVE  Tidy'
<1>1. UNCHANGED <<db, outbox, said, pc, turn, hooks, held>>
  BY DEF LoopReturns, Expire, vars, runs
<1>2. \A g \in Handlers : g \in left' => g \in left \/ (pc[g] = "done" /\ outbox[g] = <<>>)
  BY DEF LoopReturns, Expire, vars, runs
<1>3. StoredOrOnItsWay' /\ \A g \in Handlers : Rows(g)'
  BY <1>1, QuietStep
<1>4. OneActive'
  BY <1>1 DEF Tidy, OneActive, Active, Idle
<1>5. ASSUME NEW g \in Handlers PROVE Own(g)'
  <2>1. Own(g)
    BY DEF Tidy
  <2> QED
    BY <1>1, <1>2, <2>1 DEF Own
<1> QED
  BY <1>3, <1>4, <1>5 DEF Tidy

\* What h has just said is its turn, on its way to a row.
LEMMA TidySave ==
    ASSUME IInv, Tidy, NEW h \in Handlers, Save(h)
    PROVE  Tidy' /\ Distinct(said')
<1> DEFINE t == <<h, turn[h]>>
<1> USE Shape
<1>1. /\ pc[h] = "save" /\ said' = Append(said, t) /\ UNCHANGED <<db, turn, outbox, left, hooks, held>>
      /\ pc' = [pc EXCEPT ![h] = IF turn[h] > 0 THEN "ended" ELSE "persist"]
  BY DEF Save, Goto, runs, InRun
<1>2. /\ pc'[h] = IF turn[h] > 0 THEN "ended" ELSE "persist"
      /\ \A g \in Handlers \ {h} : pc'[g] = pc[g]
      /\ Active(h) /\ Active(h)' /\ Pending(h) = 0 /\ Pending(h)' = 1 /\ h \notin left
  <2>1. Active(h) /\ Own(h)
    BY <1>1 DEF Active, Idle, Tidy
  <2> QED
    BY <1>1, <2>1 DEF Active, Pending, Idle, Own
<1>3. /\ OneActive'
      /\ \A g \in Handlers \ {h} : /\ pc[g] \in {"idle", "done"} /\ outbox[g] = <<>>
                                   /\ ~Active(g) /\ ~Active(g)' /\ Own(g)'
  BY <1>1, <1>2, AloneStep
<1>4. /\ t \in Turn /\ said' \in Seq(Turn) /\ Distinct(said')
      /\ \A i \in 1 .. Len(said) : said[i] # t
  <2>1. \A e : Appended(e) => e # t
    BY <1>1 DEF Appended, AppendedAt
  <2>2. \A i \in 1 .. Len(said) : said[i] # t
    BY <2>1 DEF IInv, MemoryOK, AllAppended
  <2>3. said' \in Seq(Turn) /\ InOrder(said', astray)
    BY <1>1, SavedList
  <2> HIDE DEF t
  <2> QED
    BY <2>2, <2>3, OnceOnly DEF t
<1> HIDE DEF t
<1>5. /\ Len(said') = Len(said) + 1 /\ said'[Len(said) + 1] = t
      /\ \A k \in 1 .. Len(said) : said'[k] = said[k]
      /\ \A k \in 1 .. Len(said') : k \in 1 .. Len(said) \/ k = Len(said) + 1
  BY <1>1, <1>4
<1>6. ASSUME NEW s \in Seq(Turn), Follows(s, said)
      PROVE  Follows(s, said') /\ \A i \in 1 .. Len(s) : s[i] # t
  <2>1. \A i \in 1 .. Len(s) : s[i] # t
    BY <1>4, <1>6 DEF Follows, Holds
  <2> QED
    BY <1>1, <1>4, <1>6, <2>1, FollowsGrow
<1>7. Follows(db, said) /\ \A g \in Handlers : Rows(g)
  BY DEF Tidy, StoredOrOnItsWay
<1>8. ASSUME NEW g \in Handlers PROVE Rows(g)'
  <2>1. Follows(outbox[g], said') /\ \A i \in 1 .. Len(outbox[g]) : outbox[g][i] # t
    BY <1>6, <1>7 DEF Rows
  <2>2. \A i \in 1 .. Len(db) : db[i] # t
    BY <1>6, <1>7
  <2>3. ASSUME NEW i \in 1 .. Len(db), NEW j \in 1 .. Len(outbox[g]),
               NEW k \in 1 .. Len(said'), NEW l \in 1 .. Len(said'),
               db[i] = said'[k], outbox[g][j] = said'[l]
        PROVE  k < l
    <3>1. k \in 1 .. Len(said) /\ l \in 1 .. Len(said)
      BY <1>5, <2>1, <2>2, <2>3
    <3>2. db[i] = said[k] /\ outbox[g][j] = said[l]
      BY <1>5, <2>3, <3>1
    <3>3. Precedes(db, outbox[g], said)
      BY <1>7 DEF Rows
    <3> QED
      BY <3>1, <3>2, <3>3 DEF Precedes
  <2>a. Precedes(db, outbox[g], said')
    BY <2>3 DEF Precedes
  <2>4. CASE g = h
    <3>1. Len(db) + Len(outbox[h]) + 1 <= Len(said')
      BY <1>2, <1>5, <1>7 DEF Rows
    <3>2. said' # <<>> /\ said'[Len(said')] = <<h, turn'[h]>>
      BY <1>1, <1>5 DEF t
    <3> QED
      BY <1>1, <1>2, <1>7, <2>1, <2>a, <2>4, <3>1, <3>2 DEF Rows
  <2>5. CASE g # h
    <3>1. Pending(g) = 0 /\ Pending(g)' = 0
      BY <1>2, <1>3, <2>5 DEF Pending
    <3>2. Len(db) + Len(outbox[g]) + 0 <= Len(said')
      BY <1>5, <1>7, <3>1 DEF Rows
    <3> QED
      BY <1>1, <1>7, <2>1, <2>a, <3>1, <3>2 DEF Rows
  <2> QED
    BY <2>4, <2>5
<1>9. StoredOrOnItsWay'
  <2>1. ASSUME NEW e, OnItsWay(e) PROVE OnItsWay(e)'
    <3>1. PICK g \in Handlers : Holds(outbox[g], e) \/ (pc[g] \in {"persist", "ended"} /\ e = <<g, turn[g]>>)
      BY <2>1 DEF OnItsWay
    <3>2. pc[g] \in {"persist", "ended"} => pc'[g] = pc[g]
      BY <1>1, <1>2
    <3> QED
      BY <1>1, <3>1, <3>2 DEF OnItsWay
  <2>2. ASSUME NEW e, e = t PROVE OnItsWay(e)'
    <3>1. pc'[h] \in {"persist", "ended"} /\ e = <<h, turn'[h]>>
      BY <1>1, <1>2, <2>2 DEF t
    <3> QED
      BY <3>1 DEF OnItsWay
  <2>3. ASSUME NEW k \in 1 .. Len(said'), NEW e, e = said'[k], e \notin Blank
        PROVE  Holds(db, e) \/ OnItsWay(e)'
    <3>1. CASE k \in 1 .. Len(said)
      <4>1. e = said[k]
        BY <1>5, <2>3, <3>1
      <4>2. Holds(db, e) \/ OnItsWay(e)
        BY <2>3, <3>1, <4>1 DEF Tidy, StoredOrOnItsWay
      <4> QED
        BY <2>1, <4>2
    <3>2. CASE k = Len(said) + 1
      BY <1>5, <2>2, <2>3, <3>2
    <3> QED
      BY <1>5, <3>1, <3>2
  <2>4. Follows(db, said')
    BY <1>6, <1>7
  <2>5. db' = db
    BY <1>1
  <2> QED
    BY <2>3, <2>4, <2>5 DEF StoredOrOnItsWay
<1>10. Own(h)'
  <2>1. Own(h)
    BY DEF Tidy
  <2> QED
    BY <1>1, <1>2, <2>1 DEF Own
<1> QED
  BY <1>3, <1>4, <1>8, <1>9, <1>10 DEF Tidy

\* The user's row goes behind all others; its queue is still empty.
LEMMA TidyPersist ==
    ASSUME IInv, Tidy, NEW h \in Handlers, PersistUser(h)
    PROVE  Tidy'
<1> DEFINE t == <<h, turn[h]>>
<1> USE Shape
<1>1. /\ pc[h] = "persist" /\ db' = Append(db, t) /\ UNCHANGED <<said, turn, outbox, left, hooks, held>>
      /\ pc' = [pc EXCEPT ![h] = "start"] /\ turn[h] = 0
  BY DEF PersistUser, Goto, runs, Control
<1>2. /\ pc'[h] = "start" /\ \A g \in Handlers \ {h} : pc'[g] = pc[g]
      /\ Active(h) /\ Active(h)' /\ Pending(h) = 1 /\ Pending(h)' = 0
  BY <1>1 DEF Active, Pending, Idle
<1>3. /\ OneActive'
      /\ \A g \in Handlers \ {h} : /\ pc[g] \in {"idle", "done"} /\ outbox[g] = <<>>
                                   /\ ~Active(g) /\ ~Active(g)' /\ Own(g)'
  BY <1>1, <1>2, AloneStep
<1>4. Own(h) /\ Rows(h) /\ Follows(db, said)
  BY DEF Tidy, StoredOrOnItsWay
<1>5. outbox[h] = <<>> /\ said # <<>> /\ said[Len(said)] = t
  BY <1>1, <1>2, <1>4 DEF Rows
<1>6. /\ t \in Turn /\ Len(said) \in 1 .. Len(said) /\ Holds(said, t)
      /\ Len(db') = Len(db) + 1 /\ db' \in Seq(Turn)
      /\ \A i \in 1 .. Len(db) : db[i] # t
  <2>1. Len(said) \in 1 .. Len(said)
    BY <1>5, EmptySeq, LenProperties
  <2>2. \A e : Past(e) => e # t
    BY <1>1 DEF Past, PastAt
  <2>3. \A i \in 1 .. Len(db) : db[i] # t
    BY <2>2 DEF IInv, TableOK
  <2>4. t \in Turn
    OBVIOUS
  <2> HIDE DEF t
  <2> QED
    BY <1>1, <1>5, <2>1, <2>3, <2>4 DEF Holds
<1> HIDE DEF t
<1>7. Follows(db', said)
  <2> DEFINE n == Len(said)
  <2>1. ASSUME NEW i \in 1 .. Len(db), NEW k \in 1 .. Len(said), db[i] = said[k]
        PROVE  k < n
    BY <1>5, <1>6, <2>1
  <2>2. n \in 1 .. Len(said) /\ said[n] = t
    BY <1>5, <1>6
  <2> HIDE DEF n
  <2>3. Follows(Append(db, said[n]), said)
    BY <1>4, <2>1, <2>2, FollowsAppend
  <2> QED
    BY <1>1, <2>2, <2>3
<1>8. ASSUME NEW g \in Handlers PROVE Rows(g)'
  <2>a. Rows(g)
    BY DEF Tidy
  <2>b. outbox[g] = <<>> /\ Len(outbox[g]) = 0
    BY <1>3, <1>5
  <2>c. Pending(g)' = 0
    BY <1>2, <1>3 DEF Pending
  <2>1. outbox[g] = <<>> /\ Pending(g)' = 0 /\ Rows(g) /\ Len(outbox[g]) = 0
    BY <2>a, <2>b, <2>c
  <2>2. Len(db') <= Len(said)
    BY <1>2, <1>4, <1>6 DEF Rows
  <2> QED
    BY <1>1, <1>6, <2>1, <2>2 DEF Rows, Precedes
<1>9. StoredOrOnItsWay'
  <2>1. ASSUME NEW e, Holds(db, e) \/ OnItsWay(e) PROVE Holds(db', e) \/ OnItsWay(e)'
    <3>1. CASE Holds(db, e)
      BY <1>1, <1>6, <3>1, HoldsAppend
    <3>2. CASE e = t
      BY <1>1, <1>6, <3>2, HoldsAppend
    <3>3. CASE OnItsWay(e) /\ e # t
      BY <1>1, <1>2, <3>3 DEF OnItsWay, t
    <3> QED
      BY <2>1, <3>1, <3>2, <3>3
  <2> QED
    BY <1>1, <1>7, <2>1 DEF Tidy, StoredOrOnItsWay
<1>10. Own(h)'
  BY <1>1, <1>2, <1>4 DEF Own
<1> QED
  BY <1>3, <1>8, <1>9, <1>10 DEF Tidy

\* The hooks that h holds are its own and its loop still reads: the turn goes
\* to the end of its queue.
LEMMA TidyStreamEnd ==
    ASSUME IInv, Tidy, NEW h \in Handlers, StreamEnd(h)
    PROVE  Tidy'
<1> DEFINE t == <<h, turn[h]>>
<1> USE Shape
<1>1. pc[h] = "ended" /\ turn[h] > 0 /\ Own(h) /\ Rows(h) /\ Follows(db, said) /\ Active(h) /\ Pending(h) = 1
  BY DEF StreamEnd, Control, Tidy, StoredOrOnItsWay, Active, Idle, Pending
<1>2. held[h] = h /\ hooks = h /\ h \notin left
  BY <1>1 DEF Own
<1>3. /\ outbox' = [outbox EXCEPT ![h] = Append(outbox[h], t)]
      /\ UNCHANGED <<db, said, turn, hooks, left>> /\ held' = [held EXCEPT ![h] = NoHandler]
      /\ pc' \in {[pc EXCEPT ![h] = "run_task"], [pc EXCEPT ![h] = "over"]}
  BY <1>2 DEF StreamEnd, Heard, NextRound, Goto
<1>4. /\ t \in Turn /\ outbox[h] \in Seq(Turn)
      /\ \A i \in 1 .. Len(db) : db[i] # t
      /\ \A j \in 1 .. Len(outbox[h]) : outbox[h][j] # t
  <2>1. \A e : Past(e) => e # t
    BY <1>1 DEF Past, PastAt
  <2>2. \A i \in 1 .. Len(db) : db[i] # t
    BY <2>1 DEF IInv, TableOK
  <2>3. \A j \in 1 .. Len(outbox[h]) : outbox[h][j] # t
    BY <2>1 DEF IInv, TableOK, OutboxOK
  <2> QED
    BY <2>2, <2>3
<1>5. said # <<>> /\ said[Len(said)] = t /\ Len(said) \in 1 .. Len(said)
  <2>1. said # <<>> /\ said[Len(said)] = t
    BY <1>1 DEF Rows
  <2> QED
    BY <2>1, EmptySeq, LenProperties
<1> HIDE DEF t
<1>6. /\ outbox'[h] = Append(outbox[h], t)
      /\ Len(outbox'[h]) = Len(outbox[h]) + 1
      /\ \A j \in 1 .. Len(outbox'[h]) : j \in 1 .. Len(outbox[h]) \/ j = Len(outbox[h]) + 1
      /\ outbox'[h][Len(outbox[h]) + 1] = t
      /\ \A j \in 1 .. Len(outbox[h]) : outbox'[h][j] = outbox[h][j]
  BY <1>3, <1>4
<1>7. /\ pc'[h] \in {"run_task", "over"}
      /\ \A g \in Handlers \ {h} : pc'[g] = pc[g] /\ outbox'[g] = outbox[g] /\ held'[g] = held[g]
      /\ Active(h)' /\ Pending(h)' = 0
  BY <1>3 DEF Active, Idle, Pending
<1>8. /\ OneActive'
      /\ \A g \in Handlers \ {h} : /\ pc[g] \in {"idle", "done"} /\ outbox[g] = <<>>
                                   /\ ~Active(g) /\ ~Active(g)' /\ Own(g)'
  BY <1>1, <1>3, <1>7, AloneStep
<1>9. Own(h)'
  BY <1>1, <1>2, <1>3, <1>7 DEF Own
<1>10. Rows(h)'
  <2> DEFINE n == Len(said)
  <2>1. ASSUME NEW i \in 1 .. Len(outbox[h]), NEW k \in 1 .. Len(said), outbox[h][i] = said[k]
        PROVE  k < n
    BY <1>4, <1>5, <2>1
  <2>2. n \in 1 .. Len(said) /\ said[n] = t /\ Follows(outbox[h], said)
    BY <1>1, <1>5 DEF Rows
  <2>3. Follows(outbox'[h], said)
    <3> HIDE DEF n
    <3>1. Follows(Append(outbox[h], said[n]), said)
      BY <1>4, <2>1, <2>2, FollowsAppend
    <3> QED
      BY <1>6, <2>2, <3>1
  <2>4. ASSUME NEW i \in 1 .. Len(db), NEW j \in 1 .. Len(outbox'[h]),
               NEW k \in 1 .. Len(said), NEW l \in 1 .. Len(said),
               db[i] = said[k], outbox'[h][j] = said[l]
        PROVE  k < l
    <3>1. CASE j \in 1 .. Len(outbox[h])
      BY <1>1, <1>6, <2>4, <3>1 DEF Rows, Precedes
    <3>2. CASE j = Len(outbox[h]) + 1
      <4>1. l = n
        BY <1>6, <2>2, <2>4, <3>2 DEF Distinct
      <4>2. k # n
        BY <1>4, <2>2, <2>4
      <4> QED
        BY <4>1, <4>2
    <3> QED
      BY <1>6, <3>1, <3>2
  <2>5. Len(db) + Len(outbox'[h]) + 0 <= Len(said)
    BY <1>1, <1>6 DEF Rows
  <2>6. Precedes(db, outbox'[h], said)
    BY <2>4 DEF Precedes
  <2> QED
    BY <1>1, <1>3, <1>7, <2>3, <2>5, <2>6 DEF Rows
<1>11. ASSUME NEW g \in Handlers \ {h} PROVE Rows(g)'
  <2>1. Rows(g) /\ Pending(g) = 0 /\ Pending(g)' = 0
    BY <1>7, <1>8 DEF Tidy, Pending
  <2> QED
    BY <1>3, <1>7, <2>1 DEF Rows
<1>12. StoredOrOnItsWay'
  <2>1. ASSUME NEW e, OnItsWay(e) PROVE OnItsWay(e)'
    <3>1. PICK g \in Handlers : Holds(outbox[g], e) \/ (pc[g] \in {"persist", "ended"} /\ e = <<g, turn[g]>>)
      BY <2>1 DEF OnItsWay
    <3>2. CASE g # h
      BY <1>3, <1>7, <3>1, <3>2 DEF OnItsWay
    <3>3. CASE g = h
      <4>1. Holds(outbox[h], e) \/ e = t
        BY <3>1, <3>3 DEF t
      <4>2. Holds(outbox'[h], e)
        BY <1>4, <1>6, <4>1, HoldsAppend
      <4> QED
        BY <4>2 DEF OnItsWay
    <3> QED
      BY <3>2, <3>3
  <2> QED
    BY <1>3, <2>1 DEF Tidy, StoredOrOnItsWay
<1> QED
  BY <1>8, <1>9, <1>10, <1>11, <1>12 DEF Tidy

\* The head of the queue comes right behind the rows; a blank one is dropped.
LEMMA TidyMirror ==
    ASSUME IInv, Tidy, NEW h \in Handlers, Mirror(h)
    PROVE  Tidy'
<1> DEFINE o == outbox[h]
           t == Head(o)
           q == Tail(o)
<1> USE Shape
<1>1. /\ o # <<>> /\ UNCHANGED <<pc, turn, said, hooks, held, left>>
      /\ db' = (IF t \in Blank THEN db ELSE Append(db, t))
      /\ outbox' = [outbox EXCEPT ![h] = q]
  BY DEF Mirror, runs
<1>2. /\ o \in Seq(Turn) /\ t \in Turn /\ t = o[1] /\ 1 \in 1 .. Len(o)
      /\ Len(q) = Len(o) - 1 /\ q \in Seq(Turn)
      /\ \A j \in 1 .. Len(q) : j + 1 \in 1 .. Len(o) /\ q[j] = o[j + 1]
  <2>1. o \in Seq(Turn) /\ Len(o) \in Nat /\ Len(o) # 0
    BY <1>1, LenProperties, EmptySeq
  <2>2. /\ t \in Turn /\ q \in Seq(Turn) /\ Len(q) = Len(o) - 1
        /\ \A i \in 1 .. Len(q) : q[i] = o[i + 1]
    BY <1>1, <2>1, HeadTailProperties
  <2>3. t = o[1]
    BY <1>1, <2>1
  <2> QED
    BY <2>1, <2>2, <2>3
<1>3. Own(h) /\ Rows(h) /\ Follows(db, said) /\ Active(h) /\ turn[h] # 0
  BY <1>1 DEF Tidy, StoredOrOnItsWay, Active, Rows
<1>4. outbox'[h] = q /\ \A g \in Handlers \ {h} : outbox'[g] = outbox[g]
  BY <1>1
<1> HIDE DEF t, q
<1>5. /\ OneActive'
      /\ \A g \in Handlers \ {h} : /\ pc[g] \in {"idle", "done"} /\ outbox[g] = <<>>
                                   /\ ~Active(g) /\ ~Active(g)' /\ Own(g)'
  BY <1>1, <1>3, <1>4, AloneStep
<1>6. Own(h)'
  BY <1>1, <1>3 DEF Own
<1>7. PICK n \in 1 .. Len(said) : said[n] = t
  BY <1>2, <1>3 DEF Rows, Follows, Holds
<1>8. \A i \in 1 .. Len(db) : \A k \in 1 .. Len(said) : db[i] = said[k] => k < n
  BY <1>2, <1>3, <1>7 DEF Rows, Precedes
<1>9. Follows(db', said)
  <2>1. Follows(Append(db, said[n]), said)
    BY <1>3, <1>8, FollowsAppend
  <2> QED
    BY <1>1, <1>3, <1>7, <2>1
<1>10. Rows(h)'
  <2>1. Follows(q, said)
    <3>1. Follows(o, said)
      BY <1>3 DEF Rows
    <3>2. \A j \in 1 .. Len(q) : j + 1 \in 1 .. Len(o) /\ q[j] = o[j + 1]
      BY <1>2
    <3>3. Len(q) \in Nat /\ Len(o) \in Nat /\ 1 \in Nat
      BY <1>2
    <3> HIDE DEF o
    <3> QED
      BY <3>1, <3>2, <3>3, FollowsPart
  <2>2. Len(db') \in {Len(db), Len(db) + 1} /\ Len(db') + Len(q) + Pending(h) <= Len(said)
    <3>1. Len(db) + Len(o) + Pending(h) <= Len(said) /\ Pending(h) \in {0, 1}
      BY <1>3 DEF Rows, Pending
    <3>2. Len(db') \in {Len(db), Len(db) + 1}
      BY <1>1, <1>2
    <3> QED
      BY <1>2, <3>1, <3>2
  <2>3. ASSUME NEW i \in 1 .. Len(db'), NEW j \in 1 .. Len(q),
               NEW k \in 1 .. Len(said), NEW l \in 1 .. Len(said),
               db'[i] = said[k], q[j] = said[l]
        PROVE  k < l
    <3>1. j + 1 \in 1 .. Len(o) /\ o[j + 1] = said[l] /\ 1 < j + 1
      BY <1>2, <2>3
    <3>2. (i \in 1 .. Len(db) /\ db'[i] = db[i]) \/ db'[i] = t
      BY <1>1, <1>2
    <3>3. CASE i \in 1 .. Len(db) /\ db'[i] = db[i]
      BY <1>3, <2>3, <3>1, <3>3 DEF Rows, Precedes
    <3>4. CASE db'[i] = t
      BY <1>2, <1>3, <2>3, <3>1, <3>4 DEF Rows, Follows
    <3> QED
      BY <3>2, <3>3, <3>4
  <2>4. Pending(h)' = Pending(h)
    BY <1>1 DEF Pending
  <2>5. Pending(h) = 1 => said # <<>> /\ said[Len(said)] = <<h, turn[h]>>
    BY <1>3 DEF Rows
  <2>6. Precedes(db', q, said)
    BY <2>3 DEF Precedes
  <2>7. outbox'[h] = q /\ said' = said /\ turn' = turn
    BY <1>1, <1>4
  <2> QED
    BY <1>3, <2>1, <2>2, <2>4, <2>5, <2>6, <2>7 DEF Rows
<1>11. ASSUME NEW g \in Handlers \ {h} PROVE Rows(g)'
  <2>a. Rows(g)
    BY DEF Tidy
  <2>b. outbox[g] = <<>> /\ outbox'[g] = <<>> /\ Len(outbox'[g]) = 0
    BY <1>4, <1>5
  <2>c. Pending(g) = 0 /\ Pending(g)' = 0
    BY <1>1, <1>5 DEF Pending
  <2>1. /\ Rows(g) /\ Pending(g) = 0 /\ Pending(g)' = 0 /\ outbox[g] = <<>> /\ outbox'[g] = <<>>
        /\ Len(outbox'[g]) = 0
    BY <2>a, <2>b, <2>c
  <2>2. Len(db') <= Len(said)
    <3>1. Len(db') <= Len(db) + 1 /\ Len(o) >= 1
      BY <1>1, <1>2
    <3>2. Len(db) + Len(o) + Pending(h) <= Len(said) /\ Pending(h) \in {0, 1}
      BY <1>3 DEF Rows, Pending
    <3>3. Len(db') \in Nat
      BY <1>1, <1>2
    <3> QED
      BY <1>2, <3>1, <3>2, <3>3
  <2>3. Len(db') \in Nat
    BY <1>1, <1>2
  <2> QED
    BY <1>1, <2>1, <2>2, <2>3 DEF Rows, Precedes
<1>12. StoredOrOnItsWay'
  <2>1. ASSUME NEW e, Holds(db, e) \/ OnItsWay(e), e \notin Blank
        PROVE  Holds(db', e) \/ OnItsWay(e)'
    <3>1. CASE Holds(db, e)
      BY <1>1, <1>2, <3>1, HoldsAppend
    <3>2. CASE e = t
      BY <1>1, <1>2, <2>1, <3>2, HoldsAppend
    <3>3. CASE OnItsWay(e) /\ e # t
      <4>1. PICK g \in Handlers : Holds(outbox[g], e) \/ (pc[g] \in {"persist", "ended"} /\ e = <<g, turn[g]>>)
        BY <3>3 DEF OnItsWay
      <4>2. CASE pc[g] \in {"persist", "ended"} /\ e = <<g, turn[g]>>
        BY <1>1, <4>2 DEF OnItsWay
      <4>3. CASE Holds(outbox[g], e) /\ g # h
        BY <1>4, <4>3 DEF OnItsWay
      <4>4. CASE Holds(outbox[g], e) /\ g = h
        <5>1. PICK j \in 1 .. Len(o) : o[j] = e
          BY <4>4 DEF Holds
        <5>2. j - 1 \in 1 .. Len(q) /\ (j - 1) + 1 = j
          BY <1>2, <3>3, <5>1
        <5>3. q[j - 1] = e
          BY <1>2, <5>1, <5>2
        <5>4. Holds(outbox'[h], e)
          BY <1>4, <5>2, <5>3 DEF Holds
        <5> QED
          BY <5>4 DEF OnItsWay
      <4> QED
        BY <4>1, <4>2, <4>3, <4>4
    <3> QED
      BY <2>1, <3>1, <3>2, <3>3
  <2> QED
    BY <1>1, <1>9, <2>1 DEF Tidy, StoredOrOnItsWay
<1> QED
  BY <1>5, <1>6, <1>10, <1>11, <1>12 DEF Tidy

LEMMA TidyStep ==
    ASSUME OneByOne, IInv, Tidy, [Next]_vars
    PROVE  Tidy'
<1>1. ASSUME NEW h \in Handlers, Receive(h) \/ Step(h) \/ Mirror(h) \/ LoopReturns(h)
      PROVE  Tidy'
  BY <1>1, TidyQuiet, TidyLoop, TidySave, TidyPersist, TidyStreamEnd, TidyMirror DEF Step
<1>2. CASE Expire \/ UNCHANGED vars
  BY <1>2, TidyLoop
<1>3. ~Crash /\ \A h \in Handlers : ~StorageFails(h) /\ ~MirrorFails(h)
  BY DEF OneByOne, Crash, StorageFails, MirrorFails
<1> QED
  BY <1>1, <1>2, <1>3 DEF Next

\* While the key is there, the list tells what was said; when it is gone, the
\* table does, and nothing is on its way to it.  A handler that found no key
\* is alone, so none appears before its setex.  As long as it all fits.
Remembered ==
    Len(said) <= MaxMessages =>
        /\ cache # <<>> => Tells(cache, said) /\ Len(cache) <= Len(said)
        /\ cache = <<>> =>
             /\ Tells(db, said)
             /\ \A h \in Handlers : outbox[h] = <<>> /\ pc[h] \notin {"persist", "ended"}
        /\ \A h \in Handlers :
             /\ pc[h] \in {"find", "fill"} => cache = <<>>
             /\ pc[h] \in {"fill", "save", "context"} =>
                  Tells(local[h], said) /\ Len(local[h]) <= Len(said)
             /\ pc[h] = "thinking" => IsHistory(context[h], said)

LEMMA RememberedQuiet ==
    ASSUME IInv, Tidy, Remembered, NEW h \in Handlers,
           \/ Receive(h) \/ PersistUser(h) \/ Start(h) \/ BeginRound(h) \/ AgentAnswers(h)
           \/ StreamEnd(h) \/ FinishRun(h) \/ Mirror(h) \/ LoopReturns(h),
           Len(said) <= MaxMessages
    PROVE  Remembered'
<1> USE Shape DEF Goto
<1>1. /\ UNCHANGED <<cache, said, local>>
      /\ \A g \in Handlers : /\ pc'[g] = pc[g] \/ pc'[g] \in {"get", "start", "run_task", "over", "done"}
                             /\ pc'[g] = "thinking" => context'[g] = context[g]
  BY DEF Receive, PersistUser, Start, BeginRound, AgentAnswers, StreamEnd, NextRound, FinishRun,
         Mirror, LoopReturns, runs
<1>2. ASSUME cache = <<>>
      PROVE  /\ UNCHANGED <<db, outbox>>
             /\ \A g \in Handlers : outbox[g] = <<>> /\ pc[g] \notin {"persist", "ended"}
  <2>1. \A g \in Handlers : outbox[g] = <<>> /\ pc[g] \notin {"persist", "ended"}
    BY <1>2 DEF Remembered
  <2> QED
    BY <2>1 DEF Receive, PersistUser, Start, BeginRound, AgentAnswers, StreamEnd, FinishRun,
                Mirror, LoopReturns, runs
<1>3. \A g \in Handlers : pc'[g] \in {"find", "fill", "save", "context", "thinking"} =>
         pc'[g] = pc[g] /\ local'[g] = local[g] /\ (pc[g] = "thinking" => context'[g] = context[g])
  BY <1>1
<1> QED
  BY <1>1, <1>2, <1>3 DEF Remembered

LEMMA RememberedRead ==
    ASSUME IInv, Tidy, Remembered, NEW h \in Handlers, Len(said) <= MaxMessages,
           Get(h) \/ Find(h) \/ Fill(h) \/ ReadContext(h)
    PROVE  Remembered'
<1> USE Shape DEF Goto
<1>1. /\ UNCHANGED <<said, db, outbox>>
      /\ \A g \in Handlers \ {h} : pc'[g] = pc[g] /\ pc[g] \in {"idle", "done"}
      /\ pc[h] \notin {"persist", "ended"} /\ pc'[h] \notin {"persist", "ended"}
  <2>1. UNCHANGED <<said, db, outbox>> /\ \A g \in Handlers \ {h} : pc'[g] = pc[g]
    BY DEF Get, Find, Fill, ReadContext
  <2>2. pc[h] \in {"get", "find", "fill", "context"} /\ pc'[h] \notin {"persist", "ended"}
    BY DEF Get, Find, Fill, ReadContext, AfterGet
  <2>3. \A g \in Handlers \ {h} : pc[g] \in {"idle", "done"}
    BY <2>2 DEF Tidy, OneActive, Active, Idle
  <2> QED
    BY <2>1, <2>2, <2>3
<1>2. /\ cache # <<>> => Tells(cache, said) /\ Len(cache) <= Len(said)
      /\ cache = <<>> => /\ Tells(db, said)
                         /\ \A g \in Handlers : outbox[g] = <<>> /\ pc[g] \notin {"persist", "ended"}
      /\ pc[h] \in {"find", "fill"} => cache = <<>>
      /\ pc[h] \in {"fill", "save", "context"} => Tells(local[h], said) /\ Len(local[h]) <= Len(said)
      /\ pc[h] = "thinking" => IsHistory(context[h], said)
  BY DEF Remembered
<1>3. MaxMessages \in Nat /\ MaxHistory \in Nat
  BY MemoryAssumption
<1>4. SUFFICES /\ cache' # <<>> => Tells(cache', said) /\ Len(cache') <= Len(said)
               /\ cache' = <<>> => cache = <<>>
               /\ pc'[h] \in {"find", "fill"} => cache' = <<>>
               /\ pc'[h] \in {"fill", "save", "context"} => Tells(local'[h], said) /\ Len(local'[h]) <= Len(said)
               /\ pc'[h] = "thinking" => IsHistory(context'[h], said)
  BY <1>1, <1>2 DEF Remembered
<1>5. CASE Get(h)
  <2>1. /\ UNCHANGED cache
        /\ \/ cache # <<>> /\ local'[h] = cache /\ pc'[h] \in {"save", "context"}
           \/ cache = <<>> /\ pc'[h] = "find"
    BY <1>5 DEF Get, AfterGet
  <2> QED
    BY <1>2, <2>1
<1>6. CASE Find(h)
  <2>1. /\ UNCHANGED cache /\ pc[h] = "find" /\ cache = <<>>
        /\ local'[h] = FirstN(db, MaxMessages) /\ pc'[h] \in {"fill", "save", "context"}
    BY <1>2, <1>6 DEF Find, AfterGet
  <2>2. Len(db) <= Len(said)
    <3>1. Rows(h) /\ Pending(h) \in Nat
      BY DEF Tidy, Pending
    <3> QED
      BY <3>1 DEF Rows
  <2>3. FirstN(db, MaxMessages) = db
    BY <1>3, <2>2, WholeSlice
  <2> QED
    BY <1>2, <2>1, <2>2, <2>3
<1>7. CASE Fill(h)
  <2>1. /\ UNCHANGED local /\ pc[h] = "fill" /\ cache = <<>>
        /\ cache' = LastN(local[h], MaxMessages) /\ pc'[h] \in {"save", "context"}
    BY <1>2, <1>7 DEF Fill, AfterGet
  <2>2. local[h] \in Seq(Turn) /\ Len(local[h]) \in Nat
    BY LenProperties
  <2>3. LastN(local[h], MaxMessages) = local[h]
    BY <1>2, <1>3, <2>1, <2>2, WholeSlice
  <2> QED
    BY <1>2, <2>1, <2>3
<1>8. CASE ReadContext(h)
  <2>1. /\ UNCHANGED cache /\ pc[h] = "context"
        /\ context'[h] = LastN(local[h], MaxHistory) /\ pc'[h] = "thinking"
    BY <1>8 DEF ReadContext
  <2>2. IsHistory(LastN(local[h], MaxHistory), said)
    BY <1>2, <2>1, EndIsHistory
  <2> QED
    BY <1>2, <2>1, <2>2
<1> QED
  BY <1>5, <1>6, <1>7, <1>8

LEMMA RememberedSave ==
    ASSUME IInv, Tidy, Remembered, NEW h \in Handlers, Save(h)
    PROVE  Remembered'
<1> DEFINE t == <<h, turn[h]>>
<1> USE Shape
<1> SUFFICES ASSUME Len(said') <= MaxMessages PROVE Remembered'
  BY DEF Remembered
<1>1. /\ pc[h] = "save" /\ said' = Append(said, t) /\ cache' = LastN(Append(local[h], t), MaxMessages)
      /\ pc' = [pc EXCEPT ![h] = IF InRun(h) THEN "ended" ELSE "persist"]
  BY DEF Save, Goto
<1>2. Distinct(said')
  BY TidySave
<1>3. /\ t \in Turn /\ MaxMessages \in Nat /\ local[h] \in Seq(Turn) /\ Len(local[h]) \in Nat
  BY MemoryAssumption, LenProperties
<1>4. \A g \in Handlers \ {h} : pc[g] \in {"idle", "done"} /\ pc'[g] = pc[g]
  BY <1>1 DEF Tidy, OneActive, Active, Idle
<1>5. pc'[h] \in {"ended", "persist"}
  BY <1>1
<1> HIDE DEF t
<1>6. Len(said') = Len(said) + 1 /\ said' \in Seq(Turn)
  BY <1>1, <1>3
<1>7. Tells(local[h], said) /\ Len(local[h]) <= Len(said)
  <2>1. Len(said) <= MaxMessages
    BY <1>3, <1>6
  <2> QED
    BY <1>1, <2>1 DEF Remembered
<1> DEFINE a == Append(local[h], t)
<1>8. Tells(a, said')
  BY <1>1, <1>2, <1>3, <1>7, TellsMore
<1>9. a \in Seq(Turn) /\ Len(a) = Len(local[h]) + 1 /\ a # <<>>
  <2>1. a \in Seq(Turn) /\ Len(a) = Len(local[h]) + 1
    BY <1>3, AppendProperties
  <2> HIDE DEF a
  <2> QED
    BY <1>3, <2>1, EmptySeq
<1> HIDE DEF a
<1>10. Len(a) <= Len(said') /\ Len(a) <= MaxMessages
  BY <1>3, <1>6, <1>7, <1>9
<1>11. Tells(cache', said') /\ Len(cache') <= Len(said') /\ cache' # <<>>
  <2>1. LastN(a, MaxMessages) = a
    BY <1>3, <1>9, <1>10, WholeSlice
  <2>2. cache' = a
    BY <1>1, <2>1 DEF a
  <2> QED
    BY <1>8, <1>9, <1>10, <2>2
<1> QED
  BY <1>4, <1>5, <1>11 DEF Remembered

\* The key goes only when every row is there.
LEMMA RememberedExpire ==
    ASSUME OneByOne, IInv, Tidy, Remembered, Expire
    PROVE  Remembered'
<1>1. /\ cache' = <<>> /\ UNCHANGED <<db, pc, local, context, said, outbox>>
      /\ \A h \in Handlers : pc[h] \in {"idle", "done", "thinking"} /\ outbox[h] = <<>>
  BY DEF Expire, OneByOne, Idle
<1>2. \A e : ~OnItsWay(e)
  BY <1>1 DEF OnItsWay, Holds
<1>3. Tells(db, said)
  BY <1>2 DEF Tidy, StoredOrOnItsWay, Tells
<1> QED
  BY <1>1, <1>3 DEF Remembered

LEMMA RememberedStep ==
    ASSUME OneByOne, IInv, Tidy, Remembered, [Next]_vars
    PROVE  Remembered'
<1>1. ASSUME NEW h \in Handlers, Receive(h) \/ Step(h) \/ Mirror(h) \/ LoopReturns(h)
      PROVE  Remembered'
  <2>1. CASE Save(h)
    BY <2>1, RememberedSave
  <2>2. CASE ~Save(h) /\ Len(said) <= MaxMessages
    BY <1>1, <2>2, RememberedQuiet, RememberedRead DEF Step
  <2>3. CASE ~Save(h) /\ ~(Len(said) <= MaxMessages)
    <3>1. UNCHANGED said
      BY <1>1, <2>3 DEF Step, Receive, Get, Find, Fill, PersistUser, Start, BeginRound, ReadContext,
                        AgentAnswers, StreamEnd, FinishRun, Mirror, LoopReturns
    <3> QED
      BY <2>3, <3>1 DEF Remembered
  <2> QED
    BY <2>1, <2>2, <2>3
<1>2. CASE Expire
  BY <1>2, RememberedExpire
<1>3. CASE UNCHANGED vars
  BY <1>3 DEF vars, Remembered
<1>4. ~Crash /\ \A h \in Handlers : ~StorageFails(h) /\ ~MirrorFails(h)
  BY DEF OneByOne, Crash, StorageFails, MirrorFails
<1> QED
  BY <1>1, <1>2, <1>3, <1>4 DEF Next

LEMMA SerialInit ==
    ASSUME Init
    PROVE  Tidy /\ Remembered
<1>1. /\ cache = <<>> /\ db = <<>> /\ said = <<>> /\ left = {} /\ Len(db) = 0 /\ Len(said) = 0
      /\ \A h \in Handlers : pc[h] = "idle" /\ turn[h] = 0 /\ outbox[h] = <<>> /\ Len(outbox[h]) = 0
  BY DEF Init
<1>2. Follows(<<>>, said) /\ Tells(db, said)
  BY <1>1 DEF Follows, Tells
<1>3. ASSUME NEW h \in Handlers PROVE ~Active(h) /\ Own(h) /\ Rows(h)
  <2>1. ~Active(h) /\ pc[h] = "idle" /\ turn[h] = 0 /\ outbox[h] = <<>> /\ Pending(h) = 0
    BY <1>1 DEF Active, Idle, Pending
  <2>2. Own(h)
    BY <1>1, <2>1 DEF Own
  <2>3. Precedes(db, outbox[h], said)
    BY <1>1 DEF Precedes
  <2> QED
    BY <1>1, <1>2, <2>1, <2>2, <2>3 DEF Rows
<1>4. Tidy
  BY <1>2, <1>3 DEF Tidy, OneActive, StoredOrOnItsWay, Tells
<1>5. Remembered
  BY <1>1, <1>2 DEF Remembered
<1> QED
  BY <1>4, <1>5

LEMMA SerialInvariant ==
    ASSUME OneByOne
    PROVE  Spec => [](IInv /\ Tidy /\ Remembered)
<1>1. IInv /\ Tidy /\ Remembered /\ [Next]_vars => Tidy' /\ Remembered'
  BY TidyStep, RememberedStep
<1> QED
  BY <1>1, InitInv, NextInv, SerialInit, PTL DEF Spec

\* One message at a time, and no faults: as long as the list can hold the whole
\* conversation, an agent is given the end of it, in its order, whether it
\* comes from Redis or, after the key expired, from PostgreSQL; and whichever
\* answers are blank, these are all that may be left out.
THEOREM ContextTold ==
    ASSUME Serial, ~EagerExpiry, ~Faults
    PROVE  Spec => []ContextIsHistory
<1>1. OneByOne
  BY DEF OneByOne
<1>2. Remembered => ContextIsHistory
  BY DEF Remembered, ContextIsHistory
<1> QED
  BY <1>1, <1>2, SerialInvariant, PTL

\* The same of a session that may be in either mode: the serial one keeps its
\* promise next to the busy one, whatever the latter's limits are.
THEOREM SerialContextTold ==
    ASSUME Serial, ~EagerExpiry, ~Faults
    PROVE  ModesSpec => []SerialContext
<1> DEFINE Inv == serial => IInv /\ Tidy /\ Remembered
<1>1. OneByOne
  BY DEF OneByOne
<1>2. ModesInit => Inv
  BY InitInv, SerialInit DEF ModesInit
<1>3. Inv /\ [ModesNext]_<<vars, serial>> => Inv'
  <2> SUFFICES ASSUME Inv, [ModesNext]_<<vars, serial>>, serial' PROVE (IInv /\ Tidy /\ Remembered)'
    OBVIOUS
  <2>1. serial /\ [Next]_vars
    BY DEF ModesNext
  <2>2. IInv /\ Tidy /\ Remembered
    BY <2>1
  <2>3. IInv'
    BY <2>1, <2>2, NextInv
  <2>4. Tidy'
    BY <1>1, <2>1, <2>2, TidyStep
  <2>5. Remembered'
    BY <1>1, <2>1, <2>2, RememberedStep
  <2> QED
    BY <2>3, <2>4, <2>5
<1>4. Inv => SerialContext
  BY DEF SerialContext, Remembered, ContextIsHistory
<1> QED
  BY <1>2, <1>3, <1>4, PTL DEF ModesSpec

\* Under the same conditions no turn is lost on its way to PostgreSQL: the rows
\* are turns that were said, in their order, and a turn that was said, is not
\* blank and is in no row yet is in the queue of a handler or is the turn that
\* one has just appended.
THEOREM NoTurnMissing ==
    ASSUME Serial, ~EagerExpiry, ~Faults
    PROVE  Spec => []StoredOrOnItsWay
<1>1. OneByOne
  BY DEF OneByOne
<1>2. Tidy => StoredOrOnItsWay
  BY DEF Tidy
<1> QED
  BY <1>1, <1>2, SerialInvariant, PTL
=============================================================================

---------------------------- MODULE QueueProofs ----------------------------
(***************************************************************************)
(* Proofs about the two queues of the process and what goes through one of *)
(* them.                                                                   *)
(*                                                                         *)
(* AsyncQueueRun, for every set of events: its type invariant, the order   *)
(* of delivery, that no wakeup is lost, and that the class implements the  *)
(* safety part of EventStream.                                             *)
(*                                                                         *)
(* FileLogger, whose queue is a chain of promises, for any number of       *)
(* lines, failures and restarts: rotation loses and reorders nothing.      *)
(*                                                                         *)
(* LogLine: formatLine writes each value once.                             *)
(***************************************************************************)
EXTENDS AsyncQueueRun, FileLogger, LogLine, SequenceTheorems, TLAPS

\* One generator iterates over the queue, so there is at most one waiter; and
\* an error is only remembered together with done.
OneWaiter == queue.waiters = IF queue.reader = "parked" THEN 1 ELSE 0

IInv ==
    /\ TypeOK
    /\ FirstInFirstOut
    /\ NoLostWakeup
    /\ OneWaiter

LEMMA InitHolds == Init => IInv
BY EmptySeq DEF Init, IInv, TypeOK, FirstInFirstOut, NoLostWakeup, OneWaiter,
                NewQueue, Queue

LEMMA WaiterFields ==
    ASSUME NEW q \in Queue(Events), NEW w \in Nat,
           NEW r \in {"asking", "parked", "holding", "returned", "threw", "gone"}
    PROVE  [q EXCEPT !.waiters = w, !.reader = r] \in Queue(Events)
BY DEF Queue

\* Calling the first waiter, or all of them, empties waiters and wakes the
\* generator if it is suspended there.
LEMMA WakeOne ==
    ASSUME NEW q \in Queue(Events), NEW n \in Nat,
           q.waiters = IF q.reader = "parked" THEN 1 ELSE 0,
           n = 1 \/ n = q.waiters
    PROVE  /\ Wake(q, n) \in Queue(Events)
           /\ Wake(q, n).items = q.items
           /\ Wake(q, n).done = q.done
           /\ Wake(q, n).err = q.err
           /\ Wake(q, n).waiters = 0
           /\ Wake(q, n).reader = IF q.reader = "parked" THEN "asking" ELSE q.reader
<1> DEFINE w == IF n < q.waiters THEN q.waiters - n ELSE 0
           r == IF q.waiters > 0 /\ n > 0 /\ q.reader = "parked"
                THEN "asking" ELSE q.reader
<1>1. q.waiters \in Nat
  BY DEF Queue
<1>2. w = 0
  BY <1>1
<1>3. r = IF q.reader = "parked" THEN "asking" ELSE q.reader
  BY <1>1
<1>4. Wake(q, n) = [q EXCEPT !.waiters = w, !.reader = r]
  BY DEF Wake, Queue
<1>5. r \in {"asking", "parked", "holding", "returned", "threw", "gone"}
  BY <1>3 DEF Queue
<1> HIDE DEF w, r
<1>6. Wake(q, n) \in Queue(Events)
  <2>1. w \in Nat
    BY <1>2
  <2>2. [q EXCEPT !.waiters = w, !.reader = r] \in Queue(Events)
    BY <1>5, <2>1, WaiterFields
  <2> QED
    BY <1>4, <2>2, Zenon
<1>7. Wake(q, n).items = q.items
  BY <1>4 DEF Queue
<1>8. Wake(q, n).done = q.done
  BY <1>4 DEF Queue
<1>9. Wake(q, n).err = q.err
  BY <1>4 DEF Queue
<1>10. Wake(q, n).waiters = 0
  BY <1>2, <1>4 DEF Queue
<1>11. Wake(q, n).reader = r
  BY <1>4 DEF Queue
<1> QED
  BY <1>3, <1>6, <1>7, <1>8, <1>9, <1>10, <1>11

LEMMA AppendAfterConcat ==
    ASSUME NEW a \in Seq(Events), NEW b \in Seq(Events), NEW e \in Events
    PROVE  Append(a \o b, e) = a \o Append(b, e)
<1>1. <<e>> \in Seq(Events)
  OBVIOUS
<1>2. a \o b \in Seq(Events)
  BY ConcatProperties
<1>3. Append(a \o b, e) = (a \o b) \o <<e>>
  BY <1>2, AppendIsConcat
<1>4. Append(b, e) = b \o <<e>>
  BY AppendIsConcat
<1>5. (a \o b) \o <<e>> = a \o (b \o <<e>>)
  BY <1>1, ConcatAssociative
<1> QED
  BY <1>3, <1>4, <1>5

LEMMA PushKeeps ==
    ASSUME IInv, NEW e \in Events, PushEvent(e)
    PROVE  IInv'
<1>1. /\ queue \in Queue(Events) /\ sent \in Seq(Events) /\ got \in Seq(Events)
      /\ sent = got \o queue.items
  BY DEF IInv, TypeOK, FirstInFirstOut
<1>2. /\ queue.items \in Seq(Events) /\ queue.waiters \in Nat
  BY <1>1 DEF Queue
<1>3. /\ queue'.items = Append(queue.items, e)
      /\ queue'.done = queue.done /\ queue'.err = queue.err
      /\ queue'.waiters = 0
      /\ queue'.reader = IF queue.reader = "parked" THEN "asking" ELSE queue.reader
      /\ queue' \in Queue(Events)
  <2> DEFINE q == [queue EXCEPT !.items = Append(@, e)]
  <2>1. /\ q \in Queue(Events) /\ q.items = Append(queue.items, e)
        /\ q.done = queue.done /\ q.err = queue.err
        /\ q.waiters = queue.waiters /\ q.reader = queue.reader
    <3> DEFINE longer == Append(queue.items, e)
    <3>1. longer \in Seq(Events)
      BY <1>2, AppendProperties
    <3>2. q = [queue EXCEPT !.items = longer]
      OBVIOUS
    <3> HIDE DEF longer, q
    <3>3. q \in Queue(Events)
      BY <1>1, <3>1, <3>2 DEF Queue
    <3>4. q.items = longer
      BY <1>1, <3>2 DEF Queue
    <3>5. q.done = queue.done /\ q.err = queue.err
      BY <1>1, <3>2 DEF Queue
    <3>6. q.waiters = queue.waiters /\ q.reader = queue.reader
      BY <1>1, <3>2 DEF Queue
    <3> QED
      BY <3>3, <3>4, <3>5, <3>6 DEF longer
  <2>2. q.waiters = IF q.reader = "parked" THEN 1 ELSE 0
    BY <2>1 DEF IInv, OneWaiter
  <2>3. queue' = Wake(q, 1)
    BY DEF PushEvent, Push
  <2> HIDE DEF q
  <2> QED
    BY <2>1, <2>2, <2>3, WakeOne
<1>4. sent' = got' \o queue'.items
  <2>1. sent' = Append(got \o queue.items, e) /\ got' = got
    BY <1>1 DEF PushEvent
  <2>2. Append(got \o queue.items, e) = got \o Append(queue.items, e)
    BY <1>1, <1>2, AppendAfterConcat
  <2> QED
    BY <1>3, <2>1, <2>2
<1>5. TypeOK'
  BY <1>1, <1>3 DEF PushEvent, TypeOK
<1> QED
  BY <1>3, <1>4, <1>5 DEF IInv, FirstInFirstOut, NoLostWakeup, OneWaiter

LEMMA CloseKeeps ==
    ASSUME IInv, EndRun \/ FailRun
    PROVE  IInv'
<1>1. queue \in Queue(Events) /\ queue.waiters \in Nat
  BY DEF IInv, TypeOK, Queue
<1>2. /\ queue'.items = queue.items /\ queue'.done /\ queue'.waiters = 0
      /\ queue'.reader = IF queue.reader = "parked" THEN "asking" ELSE queue.reader
      /\ queue' \in Queue(Events)
      /\ UNCHANGED <<sent, got>>
  <2>1. CASE EndRun
    <3> DEFINE q == [queue EXCEPT !.done = TRUE]
    <3>1. /\ q \in Queue(Events) /\ q.items = queue.items /\ q.done
          /\ q.waiters = queue.waiters /\ q.reader = queue.reader
      BY <1>1 DEF Queue
    <3>2. q.waiters = IF q.reader = "parked" THEN 1 ELSE 0
      BY <3>1 DEF IInv, OneWaiter
    <3>3. queue' = Wake(q, q.waiters) /\ UNCHANGED <<sent, got>>
      BY <2>1, <3>1 DEF EndRun, End
    <3> HIDE DEF q
    <3> QED
      BY <1>1, <3>1, <3>2, <3>3, WakeOne
  <2>2. CASE FailRun
    <3> DEFINE q == [queue EXCEPT !.err = TRUE, !.done = TRUE]
    <3>1. /\ q \in Queue(Events) /\ q.items = queue.items /\ q.done
          /\ q.waiters = queue.waiters /\ q.reader = queue.reader
      BY <1>1 DEF Queue
    <3>2. q.waiters = IF q.reader = "parked" THEN 1 ELSE 0
      BY <3>1 DEF IInv, OneWaiter
    <3>3. queue' = Wake(q, q.waiters) /\ UNCHANGED <<sent, got>>
      BY <2>2, <3>1 DEF FailRun, Fail
    <3> HIDE DEF q
    <3> QED
      BY <1>1, <3>1, <3>2, <3>3, WakeOne
  <2> QED
    BY <2>1, <2>2
<1> QED
  BY <1>1, <1>2 DEF IInv, TypeOK, FirstInFirstOut, NoLostWakeup, OneWaiter, Queue

LEMMA TakeKeeps ==
    ASSUME IInv, TakeEvent
    PROVE  IInv'
<1>1. /\ queue \in Queue(Events) /\ queue.items \in Seq(Events) /\ queue.items # <<>>
      /\ sent \in Seq(Events) /\ got \in Seq(Events)
      /\ sent = got \o queue.items
  BY DEF IInv, TypeOK, FirstInFirstOut, TakeEvent, Yields, Queue
<1>2. /\ queue'.items = Tail(queue.items) /\ queue'.reader = "holding"
      /\ queue'.waiters = queue.waiters /\ queue.reader = "asking"
      /\ got' = Append(got, Head(queue.items)) /\ sent' = sent
      /\ queue'.done = queue.done /\ queue'.err = queue.err
  BY <1>1 DEF TakeEvent, Yields, Yield, Queue
<1>3. /\ Head(queue.items) \in Events /\ Tail(queue.items) \in Seq(Events)
  BY <1>1, HeadTailProperties
<1>4. queue' \in Queue(Events)
  BY <1>1, <1>3 DEF TakeEvent, Yield, Queue
<1>5. sent' = got' \o queue'.items
  <2> DEFINE h == Head(queue.items)
             t == Tail(queue.items)
  <2>1. queue.items = <<h>> \o t
    BY <1>1
  <2>2. h \in Events /\ t \in Seq(Events) /\ <<h>> \in Seq(Events)
    BY <1>3
  <2>3. sent' = got \o (<<h>> \o t) /\ got' = Append(got, h) /\ queue'.items = t
    BY <1>1, <1>2, <2>1
  <2> HIDE DEF h, t
  <2>4. Append(got, h) \o t = got \o (<<h>> \o t)
    BY <1>1, <2>2, AppendIsConcat, ConcatAssociative
  <2> QED
    BY <2>3, <2>4
<1> QED
  BY <1>1, <1>2, <1>3, <1>4, <1>5
     DEF IInv, TypeOK, FirstInFirstOut, NoLostWakeup, OneWaiter

LEMMA GeneratorKeeps ==
    ASSUME IInv, Wait \/ Stop \/ BodyDone \/ BodyThrows
    PROVE  IInv'
<1>1. queue \in Queue(Events) /\ queue.waiters \in Nat
  BY DEF IInv, TypeOK, Queue
<1> USE <1>1 DEF IInv, TypeOK, FirstInFirstOut, NoLostWakeup, OneWaiter, Queue
<1>2. CASE Wait
  <2>1. /\ queue.items = <<>> /\ ~queue.done /\ queue.waiters = 0
        /\ UNCHANGED <<sent, got>>
        /\ queue' = [queue EXCEPT !.waiters = queue.waiters + 1, !.reader = "parked"]
    BY <1>2 DEF Wait, Parks, Park
  <2>2. queue' \in Queue(Events)
    <3>1. queue.waiters + 1 \in Nat
      BY <1>1
    <3> QED
      BY <1>1, <2>1, <3>1, WaiterFields
  <2>3. queue'.items = queue.items
    BY <2>1
  <2>4. queue'.done = queue.done
    BY <2>1
  <2>5. queue'.reader = "parked"
    BY <2>1
  <2>6. queue'.waiters = 1
    BY <2>1
  <2> QED
    BY <2>1, <2>2, <2>3, <2>4, <2>5, <2>6
<1>3. CASE Stop
  BY <1>3 DEF Stop, Finishes, Finish
<1>4. CASE BodyDone
  BY <1>4 DEF BodyDone, AskAgain
<1>5. CASE BodyThrows
  BY <1>5 DEF BodyThrows, Abandon
<1> QED
  BY <1>2, <1>3, <1>4, <1>5

LEMMA InductiveInvariant == Spec => []IInv
<1>1. IInv /\ [Next]_vars => IInv'
  <2> SUFFICES ASSUME IInv, [Next]_vars
               PROVE  IInv'
    OBVIOUS
  <2>1. CASE \E e \in Events : PushEvent(e)
    BY <2>1, PushKeeps
  <2>2. CASE EndRun \/ FailRun
    BY <2>2, CloseKeeps
  <2>3. CASE Reader \/ BodyThrows
    BY <2>3, TakeKeeps, GeneratorKeeps DEF Reader
  <2>4. CASE UNCHANGED vars
    BY <2>4 DEF vars, IInv, TypeOK, FirstInFirstOut, NoLostWakeup, OneWaiter
  <2> QED
    BY <2>1, <2>2, <2>3, <2>4 DEF Next
<1> QED
  BY <1>1, InitHolds, PTL DEF Spec

\* The queue record keeps its shape; its waiter count stays a natural number.
THEOREM TypeCorrect == Spec => []TypeOK
BY InductiveInvariant, PTL DEF IInv

\* Every event the loop body got was pushed, in that order, and none between
\* was dropped, whoever pushed it and whenever the run ended.
THEOREM Fifo == Spec => []FirstInFirstOut
BY InductiveInvariant, PTL DEF IInv

\* The gateway's loop is never left sleeping while there is an event to take
\* or an end to report.
THEOREM WakesUp == Spec => []NoLostWakeup
BY InductiveInvariant, PTL DEF IInv

\* streamExecute's queue implements the abstract event stream: every step of
\* the class is a step of the stream or leaves it unchanged.
THEOREM Refinement == Spec => Stream!SafeSpec
<1>1. Init => Stream!Init
  BY DEF Init, NewQueue, Stream!Init
<1>2. IInv /\ [Next]_vars => [Stream!Next]_(Stream!vars)
  <2> SUFFICES ASSUME IInv, [Next]_vars
               PROVE  Stream!Next \/ UNCHANGED Stream!vars
    OBVIOUS
  <2> USE DEF Stream!vars
  <2>1. queue \in Queue(Events) /\ queue.waiters \in Nat
    BY DEF IInv, TypeOK, Queue
  <2>2. ASSUME NEW e \in Events, PushEvent(e)
        PROVE  Stream!Send
    BY <2>1, <2>2 DEF PushEvent, Push, Wake, Queue, Stream!Send
  <2>3. CASE EndRun \/ FailRun
    <3>1. Stream!Close
      BY <2>1, <2>3 DEF EndRun, FailRun, End, Fail, Wake, Queue, Stream!Close
    <3> QED
      BY <3>1 DEF Stream!Next
  <2>4. CASE TakeEvent
    <3>1. Stream!Deliver
      BY <2>1, <2>4 DEF TakeEvent, Yields, Yield, Queue, Stream!Deliver
    <3> QED
      BY <3>1 DEF Stream!Next
  <2>5. CASE Stop
    <3>1. Stream!Report
      BY <2>1, <2>5 DEF Stop, Finishes, Finish, Queue, Stream!Report
    <3> QED
      BY <3>1 DEF Stream!Next
  <2>6. CASE BodyThrows
    <3>1. Stream!Leave
      BY <2>1, <2>6 DEF BodyThrows, Abandon, Queue, Stream!Leave
    <3> QED
      BY <3>1 DEF Stream!Next
  <2>7. CASE Wait \/ BodyDone
    BY <2>1, <2>7 DEF Wait, Parks, Park, BodyDone, AskAgain, Queue
  <2>8. CASE UNCHANGED vars
    BY <2>8 DEF vars
  <2> QED
    BY <2>2, <2>3, <2>4, <2>5, <2>6, <2>7, <2>8 DEF Next, Reader, Stream!Next
<1> QED
  BY <1>1, <1>2, InductiveInvariant, PTL DEF Spec, Stream!SafeSpec
-----------------------------------------------------------------------------
(***************************************************************************)
(* The log.  The lines that are done are those before the chain, and the   *)
(* chain is the rest of what was logged: this orders a line that is        *)
(* appended behind all that is written.  An archive's name is not in the   *)
(* future, so that a rename puts the current file behind all archives.     *)
(***************************************************************************)
Done == Len(sizes) - Len(chain)

\* The chain is what was logged last, in order; its first job is under way.
ChainIsRest ==
    /\ Len(chain) <= Len(sizes)
    /\ \A i \in 1 .. Len(chain) : chain[i] = Done + i
    /\ at # "mkdir" => chain # <<>>

WrittenIsDone ==
    \A p \in Places : \A i \in 1 .. Len(FileAt(p).lines) : FileAt(p).lines[i] <= Done

NamesOfPast ==
    /\ archive <= now
    /\ \A t \in Moments : archives[t] # NoFile => t <= now
    /\ at = "rename" => \A t \in Moments : archives[t] # NoFile => t <= archive

\* While nothing fails, a line is appended only where it fits, or alone.
RoomForLine ==
    /\ current.lines = <<>> => current.bytes = 0
    /\ errors = 0 /\ at = "append" =>
          current.lines = <<>> \/ current.bytes + sizes[Head(chain)] <= MaxFileSize

LogInv == /\ LogTypeOK /\ ChainIsRest /\ WrittenIsDone /\ NamesOfPast /\ RoomForLine
          /\ LinesInOrder /\ LinesKept /\ FilesFitLimit

LEMMA FilesAt ==
    ASSUME LogTypeOK
    PROVE  /\ \A p \in Places : FileAt(p) \in Files
           /\ \A p \in Places : p \in Moments \/ p = MaxNow + 1
           /\ \A t \in Moments : t \in Places /\ FileAt(t) = archives[t] /\ t < MaxNow + 1
           /\ MaxNow + 1 \in Places /\ FileAt(MaxNow + 1) = current
  BY LoggerAssumption DEF LogTypeOK, Places, FileAt, Moments

\* A file's lines, written out.
LEMMA FileFields ==
    ASSUME NEW f \in Files
    PROVE  /\ f.lines \in Seq(Lines) /\ f.bytes \in Nat /\ Len(f.lines) \in Nat
           /\ ToSet(f.lines) = {f.lines[i] : i \in 1 .. Len(f.lines)}
           /\ \A i \in 1 .. Len(f.lines) : f.lines[i] \in Nat
<1>1. f.lines \in Seq(Lines) /\ f.bytes \in Nat
  BY DEF Files
<1>2. \A i \in 1 .. Len(f.lines) : f.lines[i] \in Lines
  BY <1>1
<1>3. Lines \subseteq Nat
  BY LoggerAssumption DEF Lines
<1>4. DOMAIN f.lines = 1 .. Len(f.lines) /\ Len(f.lines) \in Nat
  BY <1>1
<1> QED
  BY <1>1, <1>2, <1>3, <1>4 DEF ToSet

LEMMA NoFileIsFile ==
    NoFile \in Files /\ Len(NoFile.lines) = 0 /\ NoFile.bytes = 0 /\ NoFile.lines = <<>>
  BY DEF NoFile, Files

\* What the steps that touch no file have to keep.
LEMMA FilesStay ==
    ASSUME LogInv, current' = current, archives' = archives, Done' \in Nat, Done <= Done'
    PROVE  WrittenIsDone' /\ LinesInOrder' /\ \A p \in Places : FileAt(p)' = FileAt(p)
<1>1. \A p \in Places : FileAt(p)' = FileAt(p)
  BY DEF FileAt
<1>2. LogTypeOK /\ WrittenIsDone /\ LinesInOrder
  BY DEF LogInv
<1>3. Done \in Int
  BY <1>2 DEF LogTypeOK, Done
<1>4. WrittenIsDone'
  <2>1. ASSUME NEW p \in Places, NEW i \in 1 .. Len(FileAt(p).lines)
        PROVE  FileAt(p).lines[i] <= Done'
    <3>1. FileAt(p).lines[i] \in Nat
      BY <1>2, FilesAt, FileFields
    <3>2. FileAt(p).lines[i] <= Done
      BY <1>2 DEF WrittenIsDone
    <3> HIDE DEF Done
    <3> QED
      BY <3>1, <3>2, <1>3
  <2> QED
    BY <2>1, <1>1 DEF WrittenIsDone
<1>5. LinesInOrder'
  BY <1>1, <1>2 DEF LinesInOrder
<1> QED
  BY <1>1, <1>4, <1>5

LEMMA Counts ==
    ASSUME LogInv
    PROVE  /\ Len(sizes) \in Nat /\ Len(chain) \in Nat /\ Done \in Nat
           /\ Len(chain) <= Len(sizes) /\ Len(sizes) <= MaxLines
           /\ chain \in Seq(Lines) /\ sizes \in Seq(1 .. MaxSize)
           /\ ToSet(chain) = {chain[i] : i \in 1 .. Len(chain)}
<1>1. chain \in Seq(Lines) /\ sizes \in Seq(1 .. MaxSize) /\ Len(chain) <= Len(sizes)
      /\ Len(sizes) <= MaxLines
  BY DEF LogInv, LogTypeOK, ChainIsRest
<1>2. Len(sizes) \in Nat /\ Len(chain) \in Nat /\ DOMAIN chain = 1 .. Len(chain)
  BY <1>1
<1> QED
  BY <1>1, <1>2 DEF Done, ToSet

LEMMA FirstJob ==
    ASSUME LogInv, chain # <<>>
    PROVE  /\ Head(chain) = Done + 1 /\ Head(chain) \in 1 .. Len(sizes)
           /\ Head(chain) \in Lines /\ sizes[Head(chain)] \in 1 .. MaxSize
           /\ Tail(chain) \in Seq(Lines) /\ Len(Tail(chain)) = Len(chain) - 1
           /\ Len(chain) >= 1
           /\ \A i \in 1 .. Len(Tail(chain)) : Tail(chain)[i] = chain[i + 1]
           /\ ToSet(chain) = {Head(chain)} \union ToSet(Tail(chain))
<1> DEFINE rest == Tail(chain)
<1>1. /\ chain \in Seq(Lines) /\ Len(chain) \in Nat /\ Len(chain) <= Len(sizes)
      /\ Len(sizes) \in Nat /\ sizes \in Seq(1 .. MaxSize)
      /\ ToSet(chain) = {chain[i] : i \in 1 .. Len(chain)}
      /\ \A i \in 1 .. Len(chain) : chain[i] = Done + i
  BY Counts DEF LogInv, ChainIsRest
<1>2. Len(chain) >= 1 /\ Head(chain) = chain[1] /\ Head(chain) \in Lines
  BY <1>1
<1>3. /\ rest \in Seq(Lines) /\ Len(rest) = Len(chain) - 1
      /\ \A i \in 1 .. Len(rest) : rest[i] = chain[i + 1]
  BY <1>1, HeadTailProperties
<1>4. ToSet(rest) = {rest[i] : i \in 1 .. Len(rest)}
  BY <1>3 DEF ToSet
<1> HIDE DEF rest
<1>5. Head(chain) = Done + 1 /\ Head(chain) \in 1 .. Len(sizes)
  BY <1>1, <1>2 DEF Done
<1>6. sizes[Head(chain)] \in 1 .. MaxSize
  BY <1>1, <1>5, ElementOfSeq
<1>7. ToSet(chain) \subseteq {Head(chain)} \union ToSet(rest)
  <2>1. ASSUME NEW i \in 1 .. Len(chain)
        PROVE  chain[i] = Head(chain) \/ chain[i] \in ToSet(rest)
    <3>1. CASE i = 1
      BY <3>1, <1>2
    <3>2. CASE i # 1
      <4>1. i - 1 \in 1 .. Len(rest) /\ rest[i - 1] = chain[i]
        BY <3>2, <1>1, <1>2, <1>3
      <4> QED
        BY <4>1, <1>4
    <3> QED
      BY <3>1, <3>2
  <2> QED
    BY <2>1, <1>1
<1>8. {Head(chain)} \union ToSet(rest) \subseteq ToSet(chain)
  <2>1. 1 \in 1 .. Len(chain) /\ \A i \in 1 .. Len(rest) : i + 1 \in 1 .. Len(chain)
    BY <1>1, <1>2, <1>3
  <2> QED
    BY <2>1, <1>1, <1>2, <1>3, <1>4
<1> QED
  BY <1>2, <1>3, <1>5, <1>6, <1>7, <1>8 DEF rest

\* The job that is over was the first of the chain.
LEMMA JobIsDone ==
    ASSUME LogInv, chain # <<>>, JobEnds, sizes' = sizes
    PROVE  /\ Done' = Done + 1 /\ Done' \in Nat /\ Done <= Done'
           /\ ChainIsRest' /\ chain' \in Seq(Lines)
           /\ ToSet(chain) = {Head(chain)} \union ToSet(chain')
<1> DEFINE rest == Tail(chain)
<1>1. chain' = rest /\ at' = "mkdir"
  BY DEF JobEnds
<1>2. /\ Len(sizes) \in Nat /\ Len(chain) \in Nat /\ Done \in Nat
      /\ Len(chain) <= Len(sizes)
  BY Counts
<1>3. /\ rest \in Seq(Lines) /\ Len(rest) = Len(chain) - 1 /\ Len(chain) >= 1
      /\ \A i \in 1 .. Len(rest) : rest[i] = chain[i + 1]
      /\ ToSet(chain) = {Head(chain)} \union ToSet(rest)
  BY FirstJob
<1>4. \A i \in 1 .. Len(chain) : chain[i] = Done + i
  BY DEF LogInv, ChainIsRest
<1> HIDE DEF rest
<1>5. Done' = Done + 1
  BY <1>1, <1>2, <1>3 DEF Done
<1>6. ASSUME NEW i \in 1 .. Len(rest)
      PROVE  rest[i] = Done + 1 + i
  <2>1. i + 1 \in 1 .. Len(chain)
    BY <1>2, <1>3
  <2> QED
    BY <2>1, <1>2, <1>3, <1>4
<1>7. ChainIsRest'
  BY <1>1, <1>2, <1>3, <1>5, <1>6 DEF ChainIsRest
<1> QED
  BY <1>1, <1>2, <1>3, <1>5, <1>7

-----------------------------------------------------------------------------
\* Steps that leave the files, the chain and the lines as they are.
LEMMA QuietKeeps ==
    ASSUME LogInv, UNCHANGED <<sizes, chain, current, archives, excused>>,
           errors' = 0 => errors = 0
    PROVE  WrittenIsDone' /\ LinesInOrder' /\ LinesKept' /\ FilesFitLimit'
<1>1. Done' = Done /\ Done \in Nat /\ Done <= Done
  <2>1. Done \in Nat
    BY Counts
  <2>2. Done' = Done
    BY DEF Done
  <2> HIDE DEF Done
  <2> QED
    BY <2>1, <2>2
<1>2. WrittenIsDone' /\ LinesInOrder' /\ \A p \in Places : FileAt(p)' = FileAt(p)
  BY <1>1, FilesStay
<1>3. LinesKept'
  BY <1>2 DEF LogInv, LinesKept
<1>4. FilesFitLimit'
  BY <1>2 DEF LogInv, FilesFitLimit
<1> QED
  BY <1>2, <1>3, <1>4

LEMMA EnqueueKeeps == LogInv /\ EnqueueWrite => LogInv'
<1> SUFFICES ASSUME LogInv, EnqueueWrite PROVE LogInv'
  OBVIOUS
<1> DEFINE n == Len(sizes)
<1>1. PICK size \in 1 .. MaxSize : sizes' = Append(sizes, size)
  BY DEF EnqueueWrite
<1>2. /\ n \in Nat /\ Len(chain) \in Nat /\ Done \in Nat /\ Len(chain) <= n
      /\ chain \in Seq(Lines) /\ sizes \in Seq(1 .. MaxSize)
      /\ ToSet(chain) = {chain[i] : i \in 1 .. Len(chain)}
  BY Counts
<1>3. /\ sizes' \in Seq(1 .. MaxSize) /\ Len(sizes') = n + 1
      /\ \A k \in 1 .. n : sizes'[k] = sizes[k]
      /\ n < MaxLines /\ n + 1 \in Lines
  BY <1>1, <1>2, LoggerAssumption DEF EnqueueWrite, Lines
<1>4. chain' = Append(chain, n + 1)
  BY <1>3 DEF EnqueueWrite
<1>5. /\ chain' \in Seq(Lines) /\ Len(chain') = Len(chain) + 1 /\ chain' # <<>>
      /\ \A i \in 1 .. Len(chain) : chain'[i] = chain[i]
      /\ chain'[Len(chain) + 1] = n + 1
  BY <1>2, <1>3, <1>4
<1>6. ToSet(chain') = ToSet(chain) \union {n + 1}
  <2>1. ToSet(chain') = {chain'[i] : i \in 1 .. Len(chain')}
    BY <1>5 DEF ToSet
  <2>2. 1 .. Len(chain') = 1 .. Len(chain) \union {Len(chain) + 1}
    BY <1>2, <1>5
  <2> QED
    BY <1>2, <1>5, <2>1, <2>2
<1>7. UNCHANGED <<at, archive, current, archives, now, errors, excused>>
  BY DEF EnqueueWrite
<1>8. Done' = Done /\ Done' \in Nat /\ Done <= Done'
  BY <1>2, <1>3, <1>5 DEF Done
<1>9. LogTypeOK'
  BY <1>3, <1>5, <1>7, LoggerAssumption DEF LogInv, LogTypeOK, Moments, Lines, Files
<1>10. ChainIsRest'
  <2>1. \A i \in 1 .. Len(chain) : chain[i] = Done + i
    BY DEF LogInv, ChainIsRest
  <2>2. n + 1 = Done + (Len(chain) + 1)
    BY <1>2 DEF Done
  <2>3. ASSUME NEW i \in 1 .. Len(chain')
        PROVE  chain'[i] = Done' + i
    <3>1. CASE i = Len(chain) + 1
      BY <3>1, <1>5, <1>8, <2>2
    <3>2. CASE i # Len(chain) + 1
      <4>1. i \in 1 .. Len(chain)
        BY <3>2, <1>2, <1>5
      <4> QED
        BY <4>1, <1>5, <1>8, <2>1
    <3> QED
      BY <3>1, <3>2
  <2>4. Len(chain') <= Len(sizes')
    BY <1>2, <1>3, <1>5
  <2> QED
    BY <1>5, <2>3, <2>4 DEF ChainIsRest
<1>11. WrittenIsDone' /\ LinesInOrder' /\ \A p \in Places : FileAt(p)' = FileAt(p)
  BY <1>7, <1>8, FilesStay
<1>12. LinesKept'
  <2>1. ASSUME NEW k \in 1 .. Len(sizes')
        PROVE  \/ k \in excused' \union ToSet(chain')
               \/ \E p \in Places : k \in ToSet(FileAt(p)'.lines)
    <3>1. CASE k = n + 1
      BY <3>1, <1>6
    <3>2. CASE k \in 1 .. n
      BY <3>2, <1>6, <1>7, <1>11 DEF LogInv, LinesKept
    <3> QED
      BY <3>1, <3>2, <1>2, <1>3
  <2> QED
    BY <2>1 DEF LinesKept
<1>13. FilesFitLimit'
  BY <1>7, <1>11 DEF LogInv, FilesFitLimit
<1>14. NamesOfPast'
  BY <1>7 DEF LogInv, NamesOfPast
<1>15. RoomForLine'
  <2>1. CASE at = "append"
    <3>1. chain # <<>>
      BY <2>1 DEF LogInv, ChainIsRest
    <3>2. Head(chain') = Head(chain) /\ Head(chain) \in 1 .. n
      BY <3>1, <1>2, <1>5, FirstJob
    <3>3. sizes'[Head(chain')] = sizes[Head(chain)]
      BY <3>2, <1>3
    <3> QED
      BY <3>3, <1>7 DEF LogInv, RoomForLine
  <2>2. CASE at # "append"
    BY <2>2, <1>7 DEF LogInv, RoomForLine
  <2> QED
    BY <2>1, <2>2
<1> QED
  BY <1>9, <1>10, <1>11, <1>12, <1>13, <1>14, <1>15 DEF LogInv

\* Mkdir, Stat, a preparation that fails, and time.
LEMMA PreparingKeeps == LogInv /\ (Mkdir \/ Stat \/ PrepareFails \/ Tick) => LogInv'
<1> SUFFICES ASSUME LogInv, Mkdir \/ Stat \/ PrepareFails \/ Tick PROVE LogInv'
  OBVIOUS
<1>1. /\ UNCHANGED <<sizes, chain, current, archives, excused>>
      /\ errors' = 0 => errors = 0
  BY DEF Mkdir, Stat, PrepareFails, Tick, Goes, Fails, LogInv, LogTypeOK
<1>2. WrittenIsDone' /\ LinesInOrder' /\ LinesKept' /\ FilesFitLimit'
  BY <1>1, QuietKeeps
<1>3. LogTypeOK'
  BY LoggerAssumption
     DEF LogInv, LogTypeOK, Mkdir, Stat, PrepareFails, Tick, Goes, Fails, Moments
<1>4. ChainIsRest'
  BY DEF LogInv, ChainIsRest, Done, Mkdir, Stat, PrepareFails, Tick, Goes
<1>5. NamesOfPast'
  <2>1. now \in Nat /\ archive \in Nat /\ now <= now'
    BY LoggerAssumption
       DEF LogInv, LogTypeOK, Moments, Mkdir, Stat, PrepareFails, Tick
  <2>2. now' \in Nat
    BY <1>3, LoggerAssumption DEF LogTypeOK, Moments
  <2>3. \A t \in Moments : t \in Nat
    BY LoggerAssumption DEF Moments
  <2> QED
    BY <1>1, <2>1, <2>2, <2>3
       DEF LogInv, NamesOfPast, Mkdir, Stat, PrepareFails, Tick, Goes
<1>6. RoomForLine'
  <2>1. CASE Stat
    <3>1. CASE current # NoFile /\ current.bytes + sizes[Head(chain)] > MaxFileSize
      BY <2>1, <3>1, <1>1 DEF Stat, Goes, LogInv, RoomForLine
    <3>2. CASE ~(current # NoFile /\ current.bytes + sizes[Head(chain)] > MaxFileSize)
      <4>1. current.bytes \in Nat /\ sizes[Head(chain)] \in 1 .. MaxSize
        BY <2>1, FirstJob DEF Stat, LogInv, LogTypeOK, Files
      <4>2. current = NoFile \/ current.bytes + sizes[Head(chain)] <= MaxFileSize
        BY <3>2, <4>1, LoggerAssumption
      <4> QED
        BY <4>2, <1>1, NoFileIsFile DEF LogInv, RoomForLine
    <3> QED
      BY <3>1, <3>2
  <2>2. CASE Mkdir \/ Tick
    BY <2>2, <1>1 DEF Mkdir, Tick, Goes, LogInv, RoomForLine
  <2>3. CASE PrepareFails
    <3>1. errors' # 0
      BY <2>3 DEF PrepareFails, Fails, LogInv, LogTypeOK
    <3> QED
      BY <3>1, <1>1 DEF LogInv, RoomForLine
  <2> QED
    BY <2>1, <2>2, <2>3
<1> QED
  BY <1>2, <1>3, <1>4, <1>5, <1>6 DEF LogInv

\* A job that fails, and a restart: the lines that are lost are excused.
LEMMA FailingKeeps == LogInv /\ (WriteFails \/ Restart) => LogInv'
<1> SUFFICES ASSUME LogInv, WriteFails \/ Restart PROVE LogInv'
  OBVIOUS
<1>1. /\ UNCHANGED <<sizes, archive, current, archives, now>> /\ at' = "mkdir"
      /\ errors' # 0 /\ errors' \in 0 .. MaxErrors
  BY LoggerAssumption
     DEF WriteFails, Restart, Fails, JobEnds, LogInv, LogTypeOK
<1>2. /\ Done' \in Nat /\ Done <= Done' /\ ChainIsRest' /\ chain' \in Seq(Lines)
      /\ excused' \subseteq Lines
      /\ excused \union ToSet(chain) = excused' \union ToSet(chain')
  <2>1. CASE WriteFails
    <3>1. /\ chain # <<>> /\ JobEnds /\ sizes' = sizes
          /\ excused' = excused \union {Head(chain)}
      BY <2>1 DEF WriteFails
    <3>2. Head(chain) \in Lines
      BY <3>1, FirstJob
    <3>3. excused \subseteq Lines
      BY DEF LogInv, LogTypeOK
    <3> QED
      BY <3>1, <3>2, <3>3, JobIsDone
  <2>2. CASE Restart
    <3>1. chain' = <<>> /\ excused' = excused \union ToSet(chain)
      BY <2>2 DEF Restart
    <3>2. /\ Len(sizes) \in Nat /\ Len(chain) \in Nat /\ Len(chain) <= Len(sizes)
          /\ chain \in Seq(Lines)
          /\ ToSet(chain) = {chain[i] : i \in 1 .. Len(chain)}
      BY Counts
    <3>3. ToSet(chain) \subseteq Lines /\ excused \subseteq Lines
      BY <3>2 DEF LogInv, LogTypeOK
    <3>4. ToSet(chain') = {}
      BY <3>1 DEF ToSet
    <3>5. Done' = Len(sizes)
      BY <1>1, <3>1, <3>2 DEF Done
    <3>6. Done' \in Nat /\ Done <= Done'
      BY <3>2, <3>5 DEF Done
    <3>7. ChainIsRest'
      BY <1>1, <3>1, <3>2 DEF ChainIsRest
    <3> QED
      BY <3>1, <3>3, <3>4, <3>6, <3>7
  <2> QED
    BY <2>1, <2>2
<1>3. WrittenIsDone' /\ LinesInOrder' /\ \A p \in Places : FileAt(p)' = FileAt(p)
  BY <1>1, <1>2, FilesStay
<1>4. LinesKept'
  BY <1>1, <1>2, <1>3 DEF LogInv, LinesKept
<1>5. FilesFitLimit' /\ RoomForLine'
  BY <1>1 DEF LogInv, FilesFitLimit, RoomForLine
<1>6. NamesOfPast'
  BY <1>1 DEF LogInv, NamesOfPast
<1>7. LogTypeOK'
  BY <1>1, <1>2 DEF LogInv, LogTypeOK, Moments, Files
<1> QED
  BY <1>2, <1>3, <1>4, <1>5, <1>6, <1>7 DEF LogInv

\* The current file becomes the last of the archives; one that had its name is
\* lost.
LEMMA RenameKeeps == LogInv /\ Rename => LogInv'
<1> SUFFICES ASSUME LogInv, Rename PROVE LogInv'
  OBVIOUS
<1> DEFINE last == MaxNow + 1
<1>1. /\ chain # <<>> /\ at = "rename" /\ at' = "append"
      /\ UNCHANGED <<sizes, chain, archive, now, errors>>
      /\ archives' = [archives EXCEPT ![archive] = current] /\ current' = NoFile
      /\ excused' = excused \union ToSet(archives[archive].lines)
  BY DEF Rename, Goes
<1>2. /\ archive \in Moments /\ archives \in [Moments -> Files] /\ current \in Files
      /\ \A p \in Places : FileAt(p) \in Files /\ (p \in Moments \/ p = last)
      /\ last \in Places /\ FileAt(last) = current
      /\ \A t \in Moments : t \in Places /\ FileAt(t) = archives[t] /\ t < last
  BY FilesAt DEF LogInv, LogTypeOK
<1>3. ASSUME NEW p \in Places
      PROVE  FileAt(p)' = IF p = archive THEN current
                          ELSE IF p = last THEN NoFile ELSE FileAt(p)
  BY <1>1, <1>2 DEF FileAt
<1>4. Done' = Done
  BY <1>1 DEF Done
<1>5. \A t \in Moments : archives[t] # NoFile => t <= archive
  BY <1>1 DEF LogInv, NamesOfPast
<1>6. LogTypeOK'
  <2>1. ToSet(archives[archive].lines) \subseteq Lines
    <3>1. archives[archive].lines \in Seq(Lines)
      BY <1>2 DEF Files
    <3> QED
      BY <3>1 DEF ToSet
  <2> QED
    BY <1>1, <1>2, <2>1, NoFileIsFile DEF LogInv, LogTypeOK, Moments
<1>7. ChainIsRest'
  BY <1>1, <1>4 DEF LogInv, ChainIsRest
<1>8. WrittenIsDone'
  <2>1. ASSUME NEW p \in Places, NEW i \in 1 .. Len(FileAt(p)'.lines)
        PROVE  FileAt(p)'.lines[i] <= Done'
    <3>1. CASE p = archive
      BY <2>1, <3>1, <1>2, <1>3, <1>4 DEF LogInv, WrittenIsDone
    <3>2. CASE p # archive /\ p = last
      BY <2>1, <3>2, <1>3, NoFileIsFile
    <3>3. CASE p # archive /\ p # last
      BY <2>1, <3>3, <1>3, <1>4 DEF LogInv, WrittenIsDone
    <3> QED
      BY <3>1, <3>2, <3>3
  <2> QED
    BY <2>1 DEF WrittenIsDone
<1>9. LinesInOrder'
  <2>1. ASSUME NEW p \in Places, NEW q \in Places,
               NEW i \in 1 .. Len(FileAt(p)'.lines),
               NEW j \in 1 .. Len(FileAt(q)'.lines), p < q \/ (p = q /\ i < j)
        PROVE  FileAt(p)'.lines[i] < FileAt(q)'.lines[j]
    <3>1. /\ p = archive \/ p # last
          /\ q = archive \/ q # last
      BY <2>1, <1>3, NoFileIsFile
    <3>2. CASE q = archive
      <4>1. CASE p = archive
        <5>1. FileAt(p)' = FileAt(last) /\ FileAt(q)' = FileAt(last)
          BY <3>2, <4>1, <1>2, <1>3
        <5>2. i < j /\ i \in 1 .. Len(FileAt(last).lines) /\ j \in 1 .. Len(FileAt(last).lines)
          <6>1. archive \in Int
            BY <1>2, LoggerAssumption DEF Moments
          <6> QED
            BY <2>1, <3>2, <4>1, <5>1, <6>1
        <5> QED
          BY <5>1, <5>2, <1>2 DEF LogInv, LinesInOrder
      <4>2. CASE p # archive
        <5>1. /\ p \in Moments /\ p < last /\ FileAt(p)' = FileAt(p)
              /\ FileAt(q)' = FileAt(last)
          BY <3>1, <3>2, <4>2, <1>2, <1>3
        <5> QED
          BY <2>1, <5>1, <1>2 DEF LogInv, LinesInOrder
      <4> QED
        BY <4>1, <4>2
    <3>3. CASE q # archive
      <4>1. q \in Moments /\ FileAt(q)' = archives[q]
        BY <3>1, <3>3, <1>2, <1>3
      <4>2. archives[q] # NoFile
        BY <2>1, <4>1, NoFileIsFile
      <4>3. q <= archive /\ q \in Int /\ archive \in Int /\ p \in Int
        BY <4>1, <4>2, <1>2, <1>5, LoggerAssumption DEF Moments, Places
      <4>4. p # archive
        BY <2>1, <3>3, <4>3
      <4>5. FileAt(p)' = FileAt(p) /\ FileAt(q)' = FileAt(q)
        BY <3>1, <3>3, <4>4, <1>3
      <4> QED
        BY <2>1, <4>5 DEF LogInv, LinesInOrder
    <3> QED
      BY <3>2, <3>3
  <2> QED
    BY <2>1 DEF LinesInOrder
<1>10. LinesKept'
  <2>1. ASSUME NEW k \in 1 .. Len(sizes)
        PROVE  \/ k \in excused' \union ToSet(chain)
               \/ \E p \in Places : k \in ToSet(FileAt(p)'.lines)
    <3>1. CASE k \in excused \union ToSet(chain)
      BY <3>1, <1>1
    <3>2. ASSUME NEW p \in Places, k \in ToSet(FileAt(p).lines)
          PROVE  \/ k \in excused'
                 \/ \E q \in Places : k \in ToSet(FileAt(q)'.lines)
      <4>1. CASE p = archive
        BY <3>2, <4>1, <1>1, <1>2
      <4>2. CASE p # archive /\ p = last
        BY <3>2, <4>2, <1>2, <1>3
      <4>3. CASE p # archive /\ p # last
        BY <3>2, <4>3, <1>3
      <4> QED
        BY <4>1, <4>2, <4>3
    <3> QED
      BY <3>1, <3>2 DEF LogInv, LinesKept
  <2> QED
    BY <2>1, <1>1 DEF LinesKept
<1>11. FilesFitLimit'
  <2>1. ASSUME NEW p \in Places, errors = 0, FileAt(p)'.bytes > MaxFileSize
        PROVE  Len(FileAt(p)'.lines) = 1
    <3>1. CASE p = archive
      BY <2>1, <3>1, <1>2, <1>3 DEF LogInv, FilesFitLimit
    <3>2. CASE p # archive /\ p = last
      BY <2>1, <3>2, <1>3, NoFileIsFile, LoggerAssumption
    <3>3. CASE p # archive /\ p # last
      BY <2>1, <3>3, <1>3 DEF LogInv, FilesFitLimit
    <3> QED
      BY <3>1, <3>2, <3>3
  <2> QED
    BY <2>1, <1>1 DEF FilesFitLimit
<1>12. NamesOfPast'
  <2>1. ASSUME NEW t \in Moments, archives'[t] # NoFile
        PROVE  t <= now
    <3>1. t = archive \/ archives'[t] = archives[t]
      BY <1>1, <1>2
    <3> QED
      BY <2>1, <3>1 DEF LogInv, NamesOfPast
  <2> QED
    BY <2>1, <1>1 DEF LogInv, NamesOfPast
<1>13. RoomForLine'
  BY <1>1, NoFileIsFile DEF RoomForLine
<1> QED
  BY <1>6, <1>7, <1>8, <1>9, <1>10, <1>11, <1>12, <1>13 DEF LogInv

\* The line that is appended is behind all that is written, and fits.
LEMMA AppendKeeps == LogInv /\ AppendLine => LogInv'
<1> SUFFICES ASSUME LogInv, AppendLine PROVE LogInv'
  OBVIOUS
<1> DEFINE last == MaxNow + 1
           k == Head(chain)
           file == With(current, k)
<1>1. /\ chain # <<>> /\ at = "append" /\ current' = file /\ JobEnds /\ at' = "mkdir"
      /\ UNCHANGED <<sizes, archive, archives, now, errors, excused>>
  BY DEF AppendLine, JobEnds
<1>2. /\ k = Done + 1 /\ k \in Lines /\ sizes[k] \in 1 .. MaxSize
      /\ Done' = Done + 1 /\ Done \in Nat /\ Done' \in Nat
      /\ ChainIsRest' /\ chain' \in Seq(Lines)
      /\ ToSet(chain) = {k} \union ToSet(chain')
  BY <1>1, FirstJob, JobIsDone, Counts
<1>3. /\ archives \in [Moments -> Files] /\ current \in Files
      /\ \A p \in Places : FileAt(p) \in Files /\ (p \in Moments \/ p = last)
      /\ last \in Places /\ FileAt(last) = current
      /\ \A t \in Moments : t \in Places /\ FileAt(t) = archives[t] /\ t < last
  BY FilesAt DEF LogInv, LogTypeOK
<1>4. /\ current.lines \in Seq(Lines) /\ current.bytes \in Nat
      /\ Len(current.lines) \in Nat
      /\ ToSet(current.lines) = {current.lines[i] : i \in 1 .. Len(current.lines)}
  BY <1>3, FileFields
<1>5. file.lines = Append(current.lines, k) /\ file.bytes = current.bytes + sizes[k]
  BY DEF With
<1>6. /\ file.lines \in Seq(Lines) /\ Len(file.lines) = Len(current.lines) + 1
      /\ \A i \in 1 .. Len(current.lines) : file.lines[i] = current.lines[i]
      /\ file.lines[Len(current.lines) + 1] = k
  <2> DEFINE old == current.lines
  <2>1. old \in Seq(Lines) /\ k \in Lines
    BY <1>2, <1>4
  <2>2. file.lines = Append(old, k)
    BY <1>5
  <2> HIDE DEF old, k, file
  <2>3. /\ file.lines \in Seq(Lines) /\ Len(file.lines) = Len(old) + 1
        /\ \A i \in 1 .. Len(old) : file.lines[i] = old[i]
        /\ file.lines[Len(old) + 1] = k
    BY <2>1, <2>2, AppendProperties
  <2> QED
    BY <2>3 DEF old
<1>7. file \in Files
  <2>1. current.bytes + sizes[k] \in Nat
    BY <1>2, <1>4
  <2>2. Append(current.lines, k) \in Seq(Lines)
    BY <1>5, <1>6
  <2> QED
    BY <2>1, <2>2 DEF With, Files
<1>8. ASSUME NEW p \in Places
      PROVE  FileAt(p)' = IF p = last THEN file ELSE FileAt(p)
  BY <1>1, <1>3 DEF FileAt
<1> HIDE DEF k, file, Done
<1>9. LogTypeOK'
  BY <1>1, <1>2, <1>7 DEF LogInv, LogTypeOK
<1>10. \A p \in Places : \A i \in 1 .. Len(FileAt(p).lines) :
          FileAt(p).lines[i] <= Done /\ FileAt(p).lines[i] \in Nat
  BY <1>3, FileFields DEF LogInv, WrittenIsDone
<1>11. WrittenIsDone'
  <2>1. ASSUME NEW p \in Places, NEW i \in 1 .. Len(FileAt(p)'.lines)
        PROVE  FileAt(p)'.lines[i] <= Done'
    <3>1. CASE p # last
      <4>1. FileAt(p)' = FileAt(p)
        BY <3>1, <1>8
      <4> QED
        BY <2>1, <4>1, <1>2, <1>10
    <3>2. CASE p = last /\ i = Len(current.lines) + 1
      BY <3>2, <1>2, <1>6, <1>8
    <3>3. CASE p = last /\ i # Len(current.lines) + 1
      <4>1. i \in 1 .. Len(current.lines) /\ FileAt(p)'.lines[i] = FileAt(last).lines[i]
        BY <2>1, <3>3, <1>3, <1>4, <1>6, <1>8
      <4> QED
        BY <4>1, <1>2, <1>3, <1>10
    <3> QED
      BY <3>1, <3>2, <3>3
  <2> QED
    BY <2>1 DEF WrittenIsDone
<1>12. LinesInOrder'
  <2>1. ASSUME NEW p \in Places, NEW q \in Places,
               NEW i \in 1 .. Len(FileAt(p)'.lines),
               NEW j \in 1 .. Len(FileAt(q)'.lines), p < q \/ (p = q /\ i < j)
        PROVE  FileAt(p)'.lines[i] < FileAt(q)'.lines[j]
    <3>0. p \in Int /\ q \in Int /\ last \in Int /\ p <= last /\ q <= last
      BY LoggerAssumption DEF Places
    <3>1. i \in 1 .. Len(FileAt(p).lines) /\ FileAt(p)'.lines[i] = FileAt(p).lines[i]
      <4>1. CASE p # last
        BY <2>1, <4>1, <1>8
      <4>2. CASE p = last
        <5>1. q = last /\ i < j
          BY <2>1, <4>2, <3>0
        <5>2. i \in 1 .. Len(current.lines)
          BY <2>1, <4>2, <5>1, <1>4, <1>6, <1>8
        <5> QED
          BY <4>2, <5>2, <1>3, <1>6, <1>8
      <4> QED
        BY <4>1, <4>2
    <3>2. CASE q = last /\ j = Len(current.lines) + 1
      <4>1. FileAt(q)'.lines[j] = Done + 1
        BY <3>2, <1>2, <1>6, <1>8
      <4> QED
        BY <3>1, <4>1, <1>2, <1>10
    <3>3. CASE ~(q = last /\ j = Len(current.lines) + 1)
      <4>1. j \in 1 .. Len(FileAt(q).lines) /\ FileAt(q)'.lines[j] = FileAt(q).lines[j]
        BY <2>1, <3>3, <1>3, <1>4, <1>6, <1>8
      <4> QED
        BY <2>1, <3>1, <4>1 DEF LogInv, LinesInOrder
    <3> QED
      BY <3>2, <3>3
  <2> QED
    BY <2>1 DEF LinesInOrder
<1>13. ToSet(file.lines) = ToSet(current.lines) \union {k}
  <2>1. ToSet(file.lines) = {file.lines[i] : i \in 1 .. Len(file.lines)}
    BY <1>6 DEF ToSet
  <2>2. 1 .. Len(file.lines) = 1 .. Len(current.lines) \union {Len(current.lines) + 1}
    BY <1>4, <1>6
  <2> QED
    BY <1>4, <1>6, <2>1, <2>2
<1>14. LinesKept'
  <2>1. ASSUME NEW n \in 1 .. Len(sizes)
        PROVE  \/ n \in excused \union ToSet(chain')
               \/ \E p \in Places : n \in ToSet(FileAt(p)'.lines)
    <3>1. CASE n = k
      BY <3>1, <1>3, <1>8, <1>13
    <3>2. CASE n # k /\ n \in excused \union ToSet(chain)
      BY <3>2, <1>2
    <3>3. ASSUME NEW p \in Places, n \in ToSet(FileAt(p).lines)
          PROVE  n \in ToSet(FileAt(p)'.lines)
      BY <3>3, <1>3, <1>8, <1>13
    <3> QED
      BY <3>1, <3>2, <3>3 DEF LogInv, LinesKept
  <2> QED
    BY <2>1, <1>1 DEF LinesKept
<1>15. FilesFitLimit'
  <2>1. ASSUME NEW p \in Places, errors = 0, FileAt(p)'.bytes > MaxFileSize
        PROVE  Len(FileAt(p)'.lines) = 1
    <3>1. CASE p # last
      BY <2>1, <3>1, <1>8 DEF LogInv, FilesFitLimit
    <3>2. CASE p = last
      <4>1. file.bytes > MaxFileSize
        BY <2>1, <3>2, <1>8
      <4>2. current.lines = <<>> \/ current.bytes + sizes[k] <= MaxFileSize
        BY <2>1, <1>1 DEF LogInv, RoomForLine, k
      <4>3. current.bytes + sizes[k] \in Nat /\ MaxFileSize \in Nat
        BY <1>2, <1>4, LoggerAssumption
      <4>4. current.lines = <<>>
        BY <4>1, <4>2, <4>3, <1>5
      <4>5. Len(file.lines) = 1
        BY <4>4, <1>6
      <4> QED
        BY <4>5, <3>2, <1>8
    <3> QED
      BY <3>1, <3>2
  <2> QED
    BY <2>1, <1>1 DEF FilesFitLimit
<1>16. NamesOfPast'
  BY <1>1 DEF LogInv, NamesOfPast
<1>17. RoomForLine'
  <2>1. file.lines # <<>>
    BY <1>4, <1>6
  <2> QED
    BY <2>1, <1>1 DEF RoomForLine
<1> QED
  BY <1>2, <1>9, <1>11, <1>12, <1>14, <1>15, <1>16, <1>17 DEF LogInv

LEMMA LogInitInv == LogInit => LogInv
<1> SUFFICES ASSUME LogInit PROVE LogInv
  OBVIOUS
<1>1. /\ sizes = <<>> /\ chain = <<>> /\ at = "mkdir" /\ archive = 0 /\ now = 0
      /\ current = NoFile /\ archives = [t \in Moments |-> NoFile]
      /\ errors = 0 /\ excused = {}
  BY DEF LogInit
<1>2. LogTypeOK
  BY <1>1, NoFileIsFile, LoggerAssumption DEF LogTypeOK, Moments
<1>3. \A p \in Places : FileAt(p) = NoFile
  BY <1>1 DEF FileAt
<1>4. ChainIsRest /\ NamesOfPast /\ RoomForLine /\ LinesKept
  BY <1>1, NoFileIsFile, LoggerAssumption
     DEF ChainIsRest, NamesOfPast, RoomForLine, LinesKept, Moments
<1>5. WrittenIsDone /\ LinesInOrder /\ FilesFitLimit
  BY <1>3, NoFileIsFile, LoggerAssumption DEF WrittenIsDone, LinesInOrder, FilesFitLimit
<1> QED
  BY <1>2, <1>4, <1>5 DEF LogInv

\* Whatever fails and however often the process is restarted, rotation loses
\* no line but those whose own job failed or whose archive was renamed over,
\* writes none twice, keeps the order of the calls across the files, and keeps
\* every file within its limit as long as nothing fails.
THEOREM LogStaysWhole == LogSpec => []LogIsWhole
<1>1. LogInv /\ UNCHANGED logVars => LogInv'
  BY DEF logVars, LogInv, LogTypeOK, ChainIsRest, Done, WrittenIsDone, NamesOfPast,
         RoomForLine, LinesInOrder, LinesKept, FilesFitLimit, FileAt
<1>2. LogInv /\ [LogNext]_logVars => LogInv'
  BY <1>1, EnqueueKeeps, PreparingKeeps, FailingKeeps, RenameKeeps, AppendKeeps
     DEF LogNext, LogJob
<1>3. LogInv => LogIsWhole
  BY DEF LogInv, LogIsWhole
<1> QED
  BY <1>2, <1>3, LogInitInv, PTL DEF LogSpec
-----------------------------------------------------------------------------
\* Whatever is passed to log() or error() after the message, each value that
\* has something to show is in exactly one part of the line: in the context,
\* in the trace or in the metadata (extractContext, extractTrace and
\* extractMetadata agree on who takes which).
THEOREM EachValueOnce ==
    ASSUME NEW Values, NEW params \in Seq(Values),
           NEW i \in DOMAIN params, params[i] # Empty
    PROVE  /\ i \in ContextAt(params) \union TraceAt(params) \union MetadataAt(params)
           /\ i \notin ContextAt(params) \intersect TraceAt(params)
           /\ i \notin ContextAt(params) \intersect MetadataAt(params)
           /\ i \notin TraceAt(params) \intersect MetadataAt(params)
<1> DEFINE n == Len(params)
<1>1. n \in Nat /\ DOMAIN params = 1 .. n
  OBVIOUS
<1>2. CASE i = n /\ params[i] \in Strings
  <2>1. i \in ContextAt(params) /\ i \notin TraceAt(params)
    BY <1>1, <1>2 DEF ContextAt, TraceAt
  <2>2. i \notin MetadataAt(params)
    BY <1>1, <1>2, <2>1 DEF MetadataAt
  <2> QED
    BY <2>1, <2>2
<1>3. CASE ~(i = n /\ params[i] \in Strings)
  <2>1. i \notin ContextAt(params)
    BY <1>1, <1>3 DEF ContextAt
  <2>2. i \in TraceAt(params) <=> i \notin MetadataAt(params)
    <3>1. ContextAt(params) \subseteq {n}
      BY <1>1 DEF ContextAt
    <3>2. (\E k \in ContextAt(params) : params[k] # Empty) => i <= n - 1
      BY <1>1, <1>3, <3>1 DEF ContextAt
    <3>3. TraceAt(params) \subseteq {1} /\ (TraceAt(params) # {} => n >= 2)
      BY <1>1 DEF TraceAt
    <3> QED
      BY <1>1, <3>2, <3>3 DEF MetadataAt
  <2> QED
    BY <2>1, <2>2
<1> QED
  BY <1>2, <1>3
=============================================================================

------------------------- MODULE SessionFilesProofs -------------------------
(***************************************************************************)
(* Proofs about SessionDeletion and SessionPrompts: what a deletion leaves *)
(* behind, for any number of requests, messages and failures, and that its *)
(* jobs run dry although every failure adds some; and what                 *)
(* connections, prompts, edits, refreshes and deletions make of a          *)
(* session's templates and of the conversation of its prompts.             *)
(***************************************************************************)
EXTENDS SessionDeletion, SessionPrompts, SequenceTheorems, TLAPS

\* A handler has the session's turns in hand only between its get() or find()
\* and its save.
LocalInHand == \A m \in Messages : pc[m] \notin {"fill", "save"} => local[m] = {}

\* What the history overlap says: otherwise no handler is at work meanwhile.
DeletesAlone == Deleting => \A m \in Messages : Busy(m) => m \in overlap

\* A handler that has looked for the row, and that no deletion came across,
\* finds it when it inserts.
RowStands ==
    \A m \in Messages :
        Busy(m) /\ pc[m] \notin {"check", "make"} => row \/ m \in overlap

\* What is cleared stays cleared, as far as old turns go.
OldStaysCleared ==
    /\ \A c \in Callers : pass[c] = "database" => Old \notin disk
    /\ \A c \in Callers :
          pass[c] \in {"directory", "database"} => overlap # {} \/ Old \notin mem
    /\ "deleted" \in told =>
          /\ Old \notin rows \union disk
          /\ overlap # {} \/ (Old \notin mem /\ \A m \in Messages : Old \notin local[m])

DeletionInv == TypeOK /\ LocalInHand /\ DeletesAlone /\ OldStaysCleared
-----------------------------------------------------------------------------
LEMMA TurnsOfMessages ==
    ASSUME NEW m \in Messages, NEW who \in {"user", "agent"}
    PROVE  <<m, who>> \in Turn /\ <<m, who>> # Old
  BY DeletionAssumption DEF Turn, Old

LEMMA DeletionInit == Init => DeletionInv /\ RowStands
<1> SUFFICES ASSUME Init PROVE DeletionInv /\ RowStands
  OBVIOUS
<1>1. Old \in Turn
  BY DEF Turn
<1>2. pass[Worker] = "idle" /\ \A c \in Callers : pass[c] = "idle"
  BY DEF Init, Callers
<1>3. TypeOK
  <2>1. /\ waiting \in [0 .. Attempts - 1 -> Nat]
        /\ attempt = -1 /\ attempt \in -1 .. Attempts - 1
    BY DEF Init, Attempts
  <2>2. pass \in [Callers -> {"idle", "redis", "directory", "database"}]
    BY DEF Init
  <2>3. /\ answer \in [Requests -> {"none", "started", "adding", "deleted",
                                     "queued", "error"}]
        /\ pc \in [Messages -> {"idle", "check", "make", "get", "find", "fill",
                                 "save", "insert", "write", "done"}]
        /\ side \in [Messages -> {"user", "agent"}]
        /\ local \in [Messages -> SUBSET Turn]
    BY DEF Init
  <2>4. /\ mem \subseteq Turn /\ rows \subseteq Turn /\ disk \subseteq Turn
        /\ row \in BOOLEAN /\ overlap \subseteq Messages
        /\ open \subseteq Requests
        /\ told \subseteq {"started", "deleted", "queued", "failed", "stuck"}
    BY <1>1 DEF Init
  <2>5. failures \in 0 .. MaxFailures /\ requeue \in Nat
    BY DeletionAssumption DEF Init
  <2> QED
    BY <1>2, <2>1, <2>2, <2>3, <2>4, <2>5 DEF TypeOK
<1>4. LocalInHand /\ DeletesAlone /\ RowStands
  BY <1>2 DEF Init, LocalInHand, DeletesAlone, RowStands, Deleting
<1>5. OldStaysCleared
  BY <1>2 DEF Init, OldStaysCleared
<1> QED
  BY <1>3, <1>4, <1>5 DEF DeletionInv

LEMMA DeletionTyped == TypeOK /\ [Next]_vars => TypeOK'
<1> SUFFICES ASSUME TypeOK, [Next]_vars PROVE TypeOK'
  OBVIOUS
<1>0. /\ Worker \in Callers /\ Requests \subseteq Callers /\ Attempts = 3
      /\ \A r \in Requests : r # Worker
  BY DeletionAssumption DEF Callers, Attempts
<1> USE DEF TypeOK, stores, jobs, outcome, handlers
<1>1. CASE UNCHANGED vars
  BY <1>1 DEF vars
<1>2. ASSUME NEW r \in Requests, Request(r) PROVE TypeOK'
  BY <1>0, <1>2 DEF Request, EnterPass
<1>3. ASSUME NEW c \in Callers, ClearRedis(c) \/ ClearDirectory(c) PROVE TypeOK'
  BY <1>0, <1>3 DEF ClearRedis, ClearDirectory
<1>4. ASSUME NEW r \in Requests, RequestSucceeds(r) PROVE TypeOK'
  BY <1>0, <1>4 DEF RequestSucceeds, ClearDatabase
<1>5. ASSUME NEW r \in Requests, RequestFails(r) PROVE TypeOK'
  BY <1>0, <1>5, DeletionAssumption DEF RequestFails
<1>6. ASSUME NEW r \in Requests, Enqueue(r) PROVE TypeOK'
  BY <1>0, <1>6 DEF Enqueue
<1>7. ASSUME NEW r \in Requests, EnqueueFails(r) PROVE TypeOK'
  BY <1>0, <1>7, DeletionAssumption DEF EnqueueFails
<1>8. ASSUME NEW a \in 0 .. Attempts - 1, TakeJob(a) PROVE TypeOK'
  BY <1>0, <1>8 DEF TakeJob, EnterPass
<1>9. CASE JobSucceeds
  <2>1. attempt' = -1 /\ pass' = [pass EXCEPT ![Worker] = "idle"] /\ row' \in BOOLEAN
        /\ rows' = {} /\ open' = {} /\ told' = told \union {"deleted"}
    BY <1>9 DEF JobSucceeds, ClearDatabase
  <2> QED
    BY <1>0, <1>9, <2>1 DEF JobSucceeds, ClearDatabase
<1>10. CASE JobFails
  <2>1. /\ attempt \in 0 .. 2 /\ failures' \in 0 .. MaxFailures
        /\ pass' = [pass EXCEPT ![Worker] = "idle"] /\ attempt' = -1
    BY <1>0, <1>10, DeletionAssumption DEF JobFails
  <2>2. waiting' \in [0 .. Attempts - 1 -> Nat] /\ -1 \in -1 .. Attempts - 1
    BY <1>0, <1>10, <2>1 DEF JobFails
  <2>3. /\ told' \subseteq {"started", "deleted", "queued", "failed", "stuck"}
        /\ requeue' \in Nat
    <3>1. \/ told' = told \union {"stuck"} /\ requeue' = requeue
          \/ told' = told \union {"failed"} /\ requeue' = requeue + 1
      BY <1>10 DEF JobFails
    <3>2. told' \subseteq {"started", "deleted", "queued", "failed", "stuck"}
      BY <3>1
    <3>3. requeue' \in Nat
      BY <3>1
    <3> QED
      BY <3>2, <3>3
  <2>4. /\ pass' \in [Callers -> {"idle", "redis", "directory", "database"}]
        /\ pass'[Worker] = "idle"
    BY <1>0, <2>1
  <2>5. UNCHANGED <<mem, row, rows, disk, answer, open, pc, side, local, overlap>>
    BY <1>10 DEF JobFails
  <2>6. attempt' = -1 <=> pass'[Worker] = "idle"
    BY <2>1, <2>4
  <2>7. attempt' \in -1 .. Attempts - 1
    BY <2>1, <2>2
  <2> QED
    BY <2>1, <2>2, <2>3, <2>4, <2>5, <2>6, <2>7
<1>11. CASE Requeue
  <2>1. requeue' \in Nat /\ waiting' \in [0 .. 2 -> Nat]
    BY <1>0, <1>11 DEF Requeue
  <2> QED
    BY <1>0, <1>11, <2>1 DEF Requeue
<1>12. ASSUME NEW m \in Messages, Receive(m) \/ CheckRow(m) \/ MakeRow(m) PROVE TypeOK'
  BY <1>12 DEF Receive, CheckRow, MakeRow, Goto, ByStore, Deleting
<1>13. ASSUME NEW m \in Messages, Get(m) \/ Find(m) \/ Fill(m) PROVE TypeOK'
  BY <1>13 DEF Get, Find, Fill, Goto
<1>14. ASSUME NEW m \in Messages, Save(m) \/ Insert(m) \/ Write(m) PROVE TypeOK'
  BY <1>14, TurnsOfMessages DEF Save, Insert, Write, Goto
<1> QED
  BY <1>1, <1>2, <1>3, <1>4, <1>5, <1>6, <1>7, <1>8, <1>9, <1>10, <1>11, <1>12,
     <1>13, <1>14
     DEF Next, Gateway, Progress, Work, Handle, Callers

\* An old turn gets back to Redis only from the hands of a handler, and a
\* handler that has one got it from a store.
LEMMA HandlerKeeps ==
    ASSUME DeletionInv, TypeOK', NEW m \in Messages, Receive(m) \/ Handle(m)
    PROVE  DeletionInv'
<1>0. TypeOK /\ LocalInHand /\ DeletesAlone /\ OldStaysCleared
  BY DEF DeletionInv
<1>1. /\ UNCHANGED <<pass, told>> /\ overlap \subseteq overlap'
      /\ \A n \in Messages \ {m} : pc'[n] = pc[n] /\ local'[n] = local[n]
  BY <1>0 DEF TypeOK, Receive, Handle, CheckRow, MakeRow, Get, Find, Fill, Save,
              Insert, Write, Goto, outcome, stores, jobs
<1>2. Deleting => m \in overlap'
  <2>1. CASE Receive(m)
    BY <2>1 DEF Receive
  <2>2. CASE Handle(m)
    <3>1. Busy(m) /\ overlap' = overlap
      BY <2>2 DEF Handle, CheckRow, MakeRow, Get, Find, Fill, Save, Insert, Write, Busy
    <3> QED
      BY <1>0, <3>1 DEF DeletesAlone
  <2> QED
    BY <2>1, <2>2
<1>3. DeletesAlone'
  BY <1>0, <1>1, <1>2 DEF DeletesAlone, Deleting, Busy
<1>4. LocalInHand'
  <2>1. pc'[m] \notin {"fill", "save"} => local'[m] = {}
    BY <1>0 DEF TypeOK, LocalInHand, Receive, Handle, CheckRow, MakeRow, Get, Find,
                Fill, Save, Insert, Write, Goto, handlers, ByStore
  <2> QED
    BY <1>0, <1>1, <2>1 DEF LocalInHand
<1>5. rows' \subseteq rows \union {<<m, side[m]>>} /\ disk' \subseteq disk \union {<<m, side[m]>>}
  BY DEF Receive, Handle, CheckRow, MakeRow, Get, Find, Fill, Save, Insert, Write, stores
<1>6. <<m, side[m]>> # Old
  BY <1>0, TurnsOfMessages DEF TypeOK
<1>7. /\ mem' \subseteq mem \union local[m] \union {<<m, side[m]>>}
      /\ local'[m] \subseteq local[m] \union mem \union rows
  BY <1>0 DEF TypeOK, Receive, Handle, CheckRow, MakeRow, Get, Find, Fill, Save,
              Insert, Write, stores, handlers
<1>8. OldStaysCleared'
  <2>1. ASSUME NEW c \in Callers, pass'[c] = "database"
        PROVE  Old \notin disk'
    BY <2>1, <1>0, <1>1, <1>5, <1>6 DEF OldStaysCleared
  <2>2. ASSUME NEW c \in Callers, pass'[c] \in {"directory", "database"}
        PROVE  overlap' # {}
    <3>1. Deleting
      BY <2>2, <1>1 DEF Deleting
    <3> QED
      BY <3>1, <1>2
  <2>3. ASSUME "deleted" \in told'
        PROVE  Old \notin rows' \union disk'
    BY <2>3, <1>0, <1>1, <1>5, <1>6 DEF OldStaysCleared
  <2>4. ASSUME "deleted" \in told', overlap' = {}
        PROVE  Old \notin mem' /\ \A n \in Messages : Old \notin local'[n]
    BY <2>4, <1>0, <1>1, <1>6, <1>7 DEF OldStaysCleared
  <2> QED
    BY <2>1, <2>2, <2>3, <2>4 DEF OldStaysCleared
<1> QED
  BY <1>3, <1>4, <1>8 DEF DeletionInv

\* Where a deletion is entered, given up or ended without clearing anything.
LEMMA DeletionMoves ==
    ASSUME DeletionInv, TypeOK', UNCHANGED <<stores, handlers>>, NEW c \in Callers,
           NEW label \in {"idle", "redis"},
           pass' = [pass EXCEPT ![c] = label],
           "deleted" \in told' => "deleted" \in told,
           \/ label = "idle" /\ overlap' = overlap
           \/ overlap' = overlap \union {m \in Messages : Busy(m)}
    PROVE  DeletionInv'
<1>0. /\ TypeOK /\ LocalInHand /\ DeletesAlone /\ OldStaysCleared
      /\ UNCHANGED <<mem, rows, disk, pc, local>> /\ overlap \subseteq overlap'
  <2>1. TypeOK /\ LocalInHand /\ DeletesAlone /\ OldStaysCleared
    BY DEF DeletionInv
  <2>2. UNCHANGED <<mem, rows, disk, pc, local>>
    BY DEF stores, handlers
  <2>3. overlap \subseteq overlap'
    OBVIOUS
  <2> QED
    BY <2>1, <2>2, <2>3
<1>1. pass'[c] = label /\ \A d \in Callers \ {c} : pass'[d] = pass[d]
  BY <1>0 DEF TypeOK
<1>2. LocalInHand'
  BY <1>0 DEF LocalInHand
<1>3. DeletesAlone'
  <2>1. CASE label = "idle" /\ overlap' = overlap
    <3>1. Deleting' => Deleting
      BY <2>1, <1>1 DEF Deleting
    <3> QED
      BY <2>1, <3>1, <1>0 DEF DeletesAlone, Busy
  <2>2. CASE overlap' = overlap \union {m \in Messages : Busy(m)}
    BY <2>2, <1>0 DEF DeletesAlone, Busy
  <2> QED
    BY <2>1, <2>2
<1>4. OldStaysCleared'
  <2>1. ASSUME NEW d \in Callers, pass'[d] \in {"directory", "database"}
        PROVE  pass'[d] = pass[d]
    BY <2>1, <1>1
  <2>2. ASSUME NEW d \in Callers, pass'[d] = "database"
        PROVE  Old \notin disk'
    BY <2>1, <2>2, <1>0 DEF OldStaysCleared
  <2>3. ASSUME NEW d \in Callers, pass'[d] \in {"directory", "database"}, overlap' = {}
        PROVE  Old \notin mem'
    BY <2>1, <2>3, <1>0 DEF OldStaysCleared
  <2>4. ASSUME "deleted" \in told'
        PROVE  Old \notin rows' \union disk'
    BY <2>4, <1>0 DEF OldStaysCleared
  <2>5. ASSUME "deleted" \in told', overlap' = {}
        PROVE  Old \notin mem' /\ \A n \in Messages : Old \notin local'[n]
    BY <2>5, <1>0 DEF OldStaysCleared
  <2> QED
    BY <2>2, <2>3, <2>4, <2>5 DEF OldStaysCleared
<1> QED
  BY <1>2, <1>3, <1>4 DEF DeletionInv

\* Clearing Redis and the directory, and the end of a deletion.
LEMMA ClearingKeeps ==
    ASSUME DeletionInv, TypeOK', NEW c \in Callers, UNCHANGED <<handlers, overlap>>,
           \/ ClearRedis(c) \/ ClearDirectory(c)
           \/ /\ pass[c] = "database" /\ ClearDatabase
              /\ pass' = [pass EXCEPT ![c] = "idle"]
    PROVE  DeletionInv'
<1>0. /\ TypeOK /\ LocalInHand /\ DeletesAlone /\ OldStaysCleared
      /\ UNCHANGED <<pc, local, overlap>>
  BY DEF DeletionInv, handlers
<1>1. /\ pass[c] # "idle" /\ \A d \in Callers \ {c} : pass'[d] = pass[d]
      /\ mem' \subseteq mem /\ rows' \subseteq rows /\ disk' \subseteq disk
  BY <1>0 DEF TypeOK, ClearRedis, ClearDirectory, ClearDatabase
<1>2. LocalInHand'
  BY <1>0 DEF LocalInHand
<1>3. Deleting
  BY <1>1 DEF Deleting
<1>4. overlap # {} \/ \A m \in Messages : ~Busy(m) /\ local[m] = {}
  BY <1>0, <1>3 DEF DeletesAlone, LocalInHand, Busy
<1>5. DeletesAlone'
  BY <1>0, <1>3 DEF DeletesAlone, Busy
<1>6. CASE ClearRedis(c)
  <2>1. mem' = {} /\ pass'[c] = "directory" /\ told' = told
    BY <1>0, <1>6 DEF ClearRedis, TypeOK, outcome
  <2>2. OldStaysCleared'
    BY <1>0, <1>1, <2>1 DEF OldStaysCleared
  <2> QED
    BY <1>2, <1>5, <2>2 DEF DeletionInv
<1>7. CASE ClearDirectory(c)
  <2>1. disk' = {} /\ pass[c] = "directory" /\ pass'[c] = "database" /\ told' = told
    BY <1>0, <1>7 DEF ClearDirectory, TypeOK, outcome
  <2>2. OldStaysCleared'
    BY <1>0, <1>1, <2>1 DEF OldStaysCleared
  <2> QED
    BY <1>2, <1>5, <2>2 DEF DeletionInv
<1>8. CASE /\ pass[c] = "database" /\ ClearDatabase
           /\ pass' = [pass EXCEPT ![c] = "idle"]
  <2>1. rows' = {} /\ pass'[c] = "idle" /\ mem' = mem
    BY <1>0, <1>8 DEF ClearDatabase, TypeOK
  <2>2. Old \notin disk /\ (overlap # {} \/ Old \notin mem)
    BY <1>0, <1>8 DEF OldStaysCleared
  <2>3. OldStaysCleared'
    BY <1>0, <1>1, <1>4, <2>1, <2>2 DEF OldStaysCleared
  <2> QED
    BY <1>2, <1>5, <2>3 DEF DeletionInv
<1> QED
  BY <1>6, <1>7, <1>8

LEMMA DeletionStep == DeletionInv /\ [Next]_vars => DeletionInv'
<1> SUFFICES ASSUME DeletionInv, [Next]_vars PROVE DeletionInv'
  OBVIOUS
<1>0. TypeOK /\ TypeOK' /\ Worker \in Callers /\ Requests \subseteq Callers
  BY DeletionTyped DEF DeletionInv, Callers
<1>1. CASE UNCHANGED vars
  BY <1>0, <1>1 DEF DeletionInv, LocalInHand, DeletesAlone, OldStaysCleared,
     Deleting, Busy, vars, stores, outcome, handlers
<1>2. ASSUME NEW r \in Requests, Request(r) PROVE DeletionInv'
  BY <1>0, <1>2, DeletionMoves DEF Request, EnterPass
<1>3. ASSUME NEW c \in Callers, Progress(c) PROVE DeletionInv'
  BY <1>0, <1>3, ClearingKeeps DEF Progress, ClearRedis, ClearDirectory
<1>4. ASSUME NEW r \in Requests, RequestSucceeds(r) PROVE DeletionInv'
  BY <1>0, <1>4, ClearingKeeps DEF RequestSucceeds
<1>5. ASSUME NEW r \in Requests, RequestFails(r) PROVE DeletionInv'
  BY <1>0, <1>5, DeletionMoves DEF RequestFails
<1>6. ASSUME NEW r \in Requests, Enqueue(r) \/ EnqueueFails(r) PROVE DeletionInv'
  BY <1>0, <1>6 DEF Enqueue, EnqueueFails, DeletionInv, LocalInHand, DeletesAlone,
     OldStaysCleared, Deleting, Busy, stores, handlers
<1>7. ASSUME NEW a \in 0 .. Attempts - 1, TakeJob(a) PROVE DeletionInv'
  BY <1>0, <1>7, DeletionMoves DEF TakeJob, EnterPass, outcome
<1>8. CASE JobSucceeds
  BY <1>0, <1>8, ClearingKeeps DEF JobSucceeds
<1>9. CASE JobFails
  <2>1. "deleted" \in told' => "deleted" \in told
    BY <1>9 DEF JobFails
  <2> QED
    BY <1>0, <1>9, <2>1, DeletionMoves DEF JobFails
<1>10. CASE Requeue
  BY <1>0, <1>10 DEF Requeue, DeletionInv, LocalInHand, DeletesAlone,
     OldStaysCleared, Deleting, Busy, stores, outcome, handlers
<1>11. ASSUME NEW m \in Messages, Receive(m) \/ Handle(m) PROVE DeletionInv'
  BY <1>0, <1>11, HandlerKeeps
<1> QED
  BY <1>1, <1>2, <1>3, <1>4, <1>5, <1>6, <1>7, <1>8, <1>9, <1>10, <1>11
     DEF Next, Gateway, Work, Callers

\* The deletion's state keeps its shape.
THEOREM DeletionTypeCorrect == Spec => []TypeOK
<1>1. Init => TypeOK
  BY DeletionInit DEF DeletionInv
<1> QED
  BY <1>1, DeletionTyped, PTL DEF Spec

\* A deletion takes the row from handlers that it comes across only; a handler
\* that has seen or made the row keeps it otherwise.
LEMMA RowStep ==
    ASSUME DeletionInv, DeletionInv', RowStands, [Next]_vars
    PROVE  RowStands'
<1>0. TypeOK /\ TypeOK' /\ DeletesAlone
  BY DEF DeletionInv
<1>1. CASE UNCHANGED vars
  BY <1>1 DEF RowStands, Busy, vars, stores, handlers
<1>2. ASSUME NEW m \in Messages, Receive(m) \/ Handle(m) PROVE RowStands'
  <2>1. /\ overlap \subseteq overlap' /\ (row => row')
        /\ \A n \in Messages \ {m} : pc'[n] = pc[n]
    BY <1>0, <1>2 DEF TypeOK, Receive, Handle, CheckRow, MakeRow, Get, Find, Fill, Save,
                      Insert, Write, Goto, stores
  <2>2. Busy(m)' /\ pc'[m] \notin {"check", "make"} => row' \/ m \in overlap'
    BY <1>0, <1>2, <2>1 DEF TypeOK, RowStands, Receive, Handle, CheckRow, MakeRow, Get,
                      Find, Fill, Save, Insert, Write, Goto, ByStore, stores, Busy
  <2> QED
    BY <2>1, <2>2 DEF RowStands, Busy
<1>3. ASSUME NEW c \in Callers, pass[c] = "database", ClearDatabase, UNCHANGED <<handlers, overlap>>
      PROVE  RowStands'
  <2>1. Deleting
    BY <1>3 DEF Deleting
  <2> QED
    BY <1>0, <1>3, <2>1 DEF DeletesAlone, RowStands, Busy, handlers
<1>4. ASSUME row' = row, pc' = pc, overlap \subseteq overlap' PROVE RowStands'
  BY <1>4 DEF RowStands, Busy
<1>5. ASSUME NEW r \in Requests, Request(r) \/ Gateway(r) \/ EnqueueFails(r) PROVE RowStands'
  BY <1>3, <1>4, <1>5 DEF Gateway, Progress, Request, EnterPass, ClearRedis, ClearDirectory,
     RequestSucceeds, RequestFails, Enqueue, EnqueueFails, Callers, stores, handlers
<1>6. CASE Work \/ Requeue
  BY <1>3, <1>4, <1>6 DEF Work, Progress, ClearRedis, ClearDirectory, TakeJob, EnterPass,
     JobSucceeds, JobFails, Requeue, Callers, stores, handlers
<1> QED
  BY <1>1, <1>2, <1>5, <1>6 DEF Next

\* However many requests, failures, retries and messages there are: the foreign
\* key rejects no turn of a message that no deletion came across, although the
\* row is looked for some steps before the turn is inserted.
THEOREM RejectedByDeletion == Spec => OnlyDeletionRejects
<1>1. TypeOK /\ RowStands /\ [Next]_vars =>
        [\A m \in Messages : pc[m] = "insert" /\ pc'[m] = "done" => m \in overlap]_vars
  <2> SUFFICES ASSUME TypeOK, RowStands, Next, NEW m \in Messages,
                      pc[m] = "insert", pc'[m] = "done"
               PROVE  m \in overlap
    OBVIOUS
  <2>1. Insert(m)
    BY DEF TypeOK, Next, Gateway, Progress, Work, Handle, Request, ClearRedis, ClearDirectory,
       RequestSucceeds, RequestFails, Enqueue, EnqueueFails, TakeJob, JobSucceeds, JobFails,
       Requeue, Receive, CheckRow, MakeRow, Get, Find, Fill, Save, Insert, Write, Goto, handlers
  <2>2. ~row
    BY <2>1 DEF Insert, Goto, TypeOK
  <2> QED
    BY <2>2 DEF RowStands, Busy
<1>2. Spec => [](DeletionInv /\ RowStands)
  BY DeletionInit, DeletionStep, RowStep, PTL DEF Spec
<1>3. DeletionInv => TypeOK
  BY DEF DeletionInv
<1> QED
  BY <1>1, <1>2, <1>3, PTL DEF Spec, OnlyDeletionRejects

\* However many requests, failures, retries and handlers there are: once a
\* deletion has been announced, what was said before it is neither in the
\* messages nor in the transcript, and not in Redis either unless a handler was
\* at work meanwhile.  The chain-of-thought file is not among these stores.
THEOREM DeletedStaysGone == Spec => []DeletedMeansGone
<1>1. DeletionInv => DeletedMeansGone
  BY DEF DeletionInv, OldStaysCleared, DeletedMeansGone
<1> QED
  BY <1>1, DeletionInit, DeletionStep, PTL DEF Spec
-----------------------------------------------------------------------------
\* A request that was answered "queued" and is not carried out yet has a job
\* that waits, is worked on or is about to be added again.
OpenHasJob ==
    open # {} =>
        (\E a \in 0 .. Attempts - 1 : waiting[a] > 0) \/ attempt # -1 \/ requeue > 0

\* No failure makes the queue forget a deletion: as long as a queued request is
\* not carried out, there is a job for it, through every last attempt.
THEOREM QueuedHasJob == Spec => []OpenHasJob
<1>1. Init => OpenHasJob
  BY DEF Init, OpenHasJob
<1>2. TypeOK /\ OpenHasJob /\ [Next]_vars => OpenHasJob'
  <2> SUFFICES ASSUME TypeOK, OpenHasJob, [Next]_vars PROVE OpenHasJob'
    OBVIOUS
  <2>0. /\ Attempts = 3 /\ waiting \in [0 .. 2 -> Nat] /\ requeue \in Nat
        /\ attempt \in -1 .. 2
    BY DEF TypeOK, Attempts
  <2>1. CASE UNCHANGED <<jobs, open>>
    BY <2>1 DEF OpenHasJob, jobs
  <2>2. ASSUME NEW r \in Requests, Enqueue(r) PROVE OpenHasJob'
    BY <2>0, <2>2 DEF Enqueue, OpenHasJob
  <2>3. ASSUME NEW a \in 0 .. Attempts - 1, TakeJob(a) PROVE OpenHasJob'
    BY <2>0, <2>3 DEF TakeJob, OpenHasJob
  <2>4. CASE JobSucceeds
    BY <2>4 DEF JobSucceeds, OpenHasJob
  <2>5. CASE JobFails
    BY <2>0, <2>5 DEF JobFails, OpenHasJob, StuckAfter
  <2>6. CASE Requeue
    BY <2>0, <2>6 DEF Requeue, OpenHasJob
  <2>7. CASE \/ UNCHANGED vars
             \/ \E r \in Requests :
                   \/ Request(r) \/ Progress(r) \/ RequestSucceeds(r)
                   \/ RequestFails(r) \/ EnqueueFails(r)
             \/ Progress(Worker)
             \/ \E m \in Messages : Receive(m) \/ Handle(m)
    <3>1. UNCHANGED <<jobs, open>>
      BY <2>7 DEF vars, jobs, outcome, Request, Progress, ClearRedis, ClearDirectory,
         RequestSucceeds, RequestFails, EnqueueFails, Receive, Handle, CheckRow,
         MakeRow, Get, Find, Fill, Save, Insert, Write
    <3> QED
      BY <2>1, <3>1
  <2> QED
    BY <2>2, <2>3, <2>4, <2>5, <2>6, <2>7 DEF Next, Gateway, Work
<1> QED
  BY <1>1, <1>2, DeletionTypeCorrect, PTL DEF Spec
-----------------------------------------------------------------------------
\* What is left to do for the worker: the jobs that wait or are about to be
\* added, the store it is at, and the failures that may still add jobs.
JobsLeft ==
    4 * (waiting[0] + waiting[1] + waiting[2]) + 5 * requeue
    + (CASE pass[Worker] = "idle" -> 0 [] pass[Worker] = "database" -> 1
         [] pass[Worker] = "directory" -> 2 [] pass[Worker] = "redis" -> 3)
    + 10 * (MaxFailures - failures)

Drains == JobsLeft' < JobsLeft
Waits == JobsLeft' = JobsLeft

LEMMA JobsTyped ==
    ASSUME TypeOK
    PROVE  /\ waiting \in [0 .. 2 -> Nat] /\ requeue \in Nat
           /\ waiting[0] \in Nat /\ waiting[1] \in Nat /\ waiting[2] \in Nat
           /\ pass[Worker] \in {"idle", "redis", "directory", "database"}
           /\ MaxFailures \in Nat /\ failures \in 0 .. MaxFailures
           /\ attempt \in -1 .. 2 /\ Worker \in Callers /\ JobsLeft \in Nat
<1>1. /\ waiting \in [0 .. 2 -> Nat] /\ requeue \in Nat
      /\ pass[Worker] \in {"idle", "redis", "directory", "database"}
      /\ MaxFailures \in Nat /\ failures \in 0 .. MaxFailures
      /\ attempt \in -1 .. 2 /\ Worker \in Callers
  BY DeletionAssumption DEF TypeOK, Attempts, Callers
<1>2. waiting[0] \in Nat /\ waiting[1] \in Nat /\ waiting[2] \in Nat
  BY <1>1
<1> QED
  BY <1>1, <1>2 DEF JobsLeft

\* The worker's own steps; a failure pays for the jobs it adds.
LEMMA WorkDrains ==
    ASSUME TypeOK, Work \/ Requeue
    PROVE  Drains
<1>0. /\ waiting \in [0 .. 2 -> Nat] /\ requeue \in Nat
      /\ waiting[0] \in Nat /\ waiting[1] \in Nat /\ waiting[2] \in Nat
      /\ MaxFailures \in Nat /\ failures \in 0 .. MaxFailures
      /\ attempt \in -1 .. 2 /\ Attempts = 3
  BY JobsTyped DEF Attempts
<1>1. CASE ClearRedis(Worker)
  <2>1. /\ pass[Worker] = "redis" /\ pass'[Worker] = "directory"
        /\ waiting' = waiting /\ requeue' = requeue /\ failures' = failures
    BY <1>1, JobsTyped DEF ClearRedis, jobs, TypeOK
  <2> QED
    BY <1>0, <2>1 DEF Drains, JobsLeft
<1>2. CASE ClearDirectory(Worker)
  <2>1. /\ pass[Worker] = "directory" /\ pass'[Worker] = "database"
        /\ waiting' = waiting /\ requeue' = requeue /\ failures' = failures
    BY <1>2, JobsTyped DEF ClearDirectory, jobs, TypeOK
  <2> QED
    BY <1>0, <2>1 DEF Drains, JobsLeft
<1>3. CASE JobSucceeds
  <2>1. /\ pass[Worker] = "database" /\ pass'[Worker] = "idle"
        /\ waiting' = waiting /\ requeue' = requeue /\ failures' = failures
    BY <1>3, JobsTyped DEF JobSucceeds, TypeOK
  <2> QED
    BY <1>0, <2>1 DEF Drains, JobsLeft
<1>4. CASE JobFails
  <2>1. /\ pass[Worker] # "idle" /\ pass'[Worker] = "idle"
        /\ failures' = failures + 1 /\ failures < MaxFailures
        /\ requeue' \in {requeue, requeue + 1}
    BY <1>4, JobsTyped DEF JobFails, TypeOK
  <2>2. waiting'[0] + waiting'[1] + waiting'[2] <= waiting[0] + waiting[1] + waiting[2] + 1
    <3>1. waiting' = waiting \/ \E a \in 0 .. 2 : waiting' = [waiting EXCEPT ![a] = @ + 1]
      <4>1. attempt + 1 < Attempts => attempt + 1 \in 0 .. 2
        BY <1>0
      <4> QED
        BY <1>4, <4>1 DEF JobFails
    <3> QED
      BY <1>0, <3>1
  <2>3. waiting'[0] \in Int /\ waiting'[1] \in Int /\ waiting'[2] \in Int
    BY <1>0, <1>4 DEF JobFails
  <2>4. pass[Worker] \in {"redis", "directory", "database"}
    BY <2>1, JobsTyped
  <2> QED
    BY <1>0, <2>1, <2>2, <2>3, <2>4 DEF Drains, JobsLeft
<1>5. ASSUME NEW a \in 0 .. Attempts - 1, TakeJob(a)
      PROVE  Drains
  <2>1. /\ pass[Worker] = "idle" /\ pass'[Worker] = "redis"
        /\ requeue' = requeue /\ failures' = failures
    BY <1>5, JobsTyped DEF TakeJob, EnterPass, TypeOK
  <2>2. /\ a \in 0 .. 2 /\ waiting' = [waiting EXCEPT ![a] = @ - 1]
    BY <1>0, <1>5 DEF TakeJob
  <2>3. waiting'[0] + waiting'[1] + waiting'[2] = waiting[0] + waiting[1] + waiting[2] - 1
    BY <1>0, <2>2
  <2>4. waiting'[0] \in Int /\ waiting'[1] \in Int /\ waiting'[2] \in Int
    BY <1>0, <2>2
  <2> QED
    BY <1>0, <2>1, <2>3, <2>4 DEF Drains, JobsLeft
<1>6. CASE Requeue
  <2>1. /\ pass' = pass /\ requeue' = requeue - 1 /\ failures' = failures
        /\ waiting' = [waiting EXCEPT ![0] = @ + 1]
    BY <1>6 DEF Requeue
  <2>2. waiting'[0] = waiting[0] + 1 /\ waiting'[1] = waiting[1] /\ waiting'[2] = waiting[2]
    BY <1>0, <2>1
  <2>3. pass[Worker] \in {"idle", "redis", "directory", "database"}
    BY JobsTyped
  <2> QED
    BY <1>0, <2>1, <2>2, <2>3 DEF Drains, JobsLeft
<1> QED
  BY <1>1, <1>2, <1>3, <1>4, <1>5, <1>6 DEF Work, Progress

\* A request leaves the jobs alone, fails, or adds one.
LEMMA RequestsWait ==
    ASSUME TypeOK, NEW r \in Requests, Request(r) \/ Gateway(r) \/ EnqueueFails(r)
    PROVE  Drains \/ Waits \/ Enqueue(r)
<1>1. r # Worker /\ r \in Callers /\ pass \in [Callers -> {"idle", "redis", "directory", "database"}]
  BY DeletionAssumption DEF Callers, TypeOK
<1>2. CASE Enqueue(r)
  BY <1>2
<1>3. CASE RequestFails(r) \/ EnqueueFails(r)
  <2>1. /\ pass'[Worker] = pass[Worker] /\ waiting' = waiting /\ requeue' = requeue
        /\ failures' = failures + 1 /\ failures < MaxFailures
    BY <1>1, <1>3 DEF RequestFails, EnqueueFails, jobs, Callers
  <2> QED
    BY <2>1, JobsTyped DEF Drains, JobsLeft
<1>4. CASE Request(r) \/ Progress(r) \/ RequestSucceeds(r)
  <2>1. /\ pass'[Worker] = pass[Worker] /\ waiting' = waiting /\ requeue' = requeue
        /\ failures' = failures
    BY <1>1, <1>4
       DEF Request, EnterPass, Progress, ClearRedis, ClearDirectory, RequestSucceeds, jobs, Callers
  <2> QED
    BY <2>1 DEF Waits, JobsLeft
<1> QED
  BY <1>2, <1>3, <1>4 DEF Gateway

LEMMA MessagesWait ==
    ASSUME NEW m \in Messages, Receive(m) \/ Handle(m)
    PROVE  Waits
<1>1. pass' = pass /\ waiting' = waiting /\ requeue' = requeue /\ failures' = failures
  BY DEF Receive, Handle, CheckRow, MakeRow, Get, Find, Fill, Save, Insert, Write, jobs
<1> QED
  BY <1>1 DEF Waits, JobsLeft

\* Every failed attempt adds a job next to the one that is tried again, and
\* still the queue runs dry: each step of the worker and of onFailed leaves
\* less to do, and only a request that is queued adds to it.  So all jobs of a
\* session are done some time after its last request, not only the first one
\* that succeeds (QueuedIsCarriedOut).
THEOREM JobsRunDry ==
    Spec => /\ [](JobsLeft \in Nat)
            /\ [][/\ Work \/ Requeue => Drains
                  /\ Drains \/ Waits \/ \E r \in Requests : Enqueue(r)]_vars
<1> DEFINE Dries == /\ Work \/ Requeue => Drains
                    /\ Drains \/ Waits \/ \E r \in Requests : Enqueue(r)
<1>1. TypeOK => JobsLeft \in Nat
  BY JobsTyped
<1>2. TypeOK /\ [Next]_vars => [Dries]_vars
  BY WorkDrains, RequestsWait, MessagesWait DEF Next
<1> HIDE DEF Dries
<1>3. Spec => [](JobsLeft \in Nat) /\ [][Dries]_vars
  BY <1>1, <1>2, DeletionTypeCorrect, PTL DEF Spec
<1> QED
  BY <1>3 DEF Dries
-----------------------------------------------------------------------------
LEMMA PromptsTypeInit == PromptsInit => PromptsTypeOK
<1> SUFFICES ASSUME PromptsInit PROVE PromptsTypeOK
  OBVIOUS
<1>1. 0 \in 0 .. MaxEdits /\ 0 \in 0 .. MaxRefreshes /\ 0 \in 0 .. MaxDeletions
  BY PromptsAssumption
<1>2. Absent \in Contents
  BY DEF Contents
<1>3. arrays \in [Prompts -> Seq(Prompts \X {"user", "assistant"})]
  BY DEF PromptsInit
<1>4. visit \in [Connections ->
          [step : {"none", "mkdir", "open", "write", "established", "failed"}, at : Templates]]
  BY DEF PromptsInit, Templates
<1>5. since \in [Templates -> SUBSET Contents]
  BY <1>2 DEF PromptsInit
<1> QED
  BY <1>1, <1>2, <1>3, <1>4, <1>5 DEF PromptsInit, PromptsTypeOK

\* The copies of the templates.
LEMMA CopiesTypeStep ==
    ASSUME PromptsTypeOK, NEW c \in Connections,
           \/ EnterSession(c)
           \/ \E t \in Templates : MakeFolder(c, t) \/ OpenCopy(c, t) \/ WriteCopy(c, t)
    PROVE  PromptsTypeOK'
<1>1. /\ version' = version /\ refreshes' = refreshes /\ deletions' = deletions
      /\ UNCHANGED <<cached, turn, reading, got, kept, mine, arrays, safe, raced, doubled>>
  BY DEF EnterSession, MakeFolder, OpenCopy, WriteCopy, marks, debug
<1>2. /\ folder' \subseteq Templates /\ fresh' \subseteq Connections
      /\ ready' \in BOOLEAN
  BY DEF PromptsTypeOK, EnterSession, MakeFolder, OpenCopy, WriteCopy, marks
<1>3. /\ visit' \in [Connections ->
          [step : {"none", "mkdir", "open", "write", "established", "failed"}, at : Templates]]
  BY DEF PromptsTypeOK, EnterSession, MakeFolder, OpenCopy, WriteCopy, Go, Templates
<1>4. version \in Contents /\ Torn \in Contents
  BY DEF PromptsTypeOK, Contents
<1>5. copied' \in [Templates -> Contents] /\ since' \in [Templates -> SUBSET Contents]
  <2>1. copied \in [Templates -> Contents] /\ since \in [Templates -> SUBSET Contents]
    BY DEF PromptsTypeOK
  <2>2. CASE UNCHANGED <<copied, since>>
    BY <2>1, <2>2
  <2>3. ASSUME NEW t \in Templates, NEW x \in Contents, Put(t, x)
        PROVE  copied' \in [Templates -> Contents] /\ since' \in [Templates -> SUBSET Contents]
    BY <2>1, <2>3 DEF Put
  <2> QED
    BY <1>4, <2>2, <2>3 DEF EnterSession, MakeFolder, OpenCopy, WriteCopy, marks
<1> QED
  BY <1>1, <1>2, <1>3, <1>5 DEF PromptsTypeOK

\* Edits, refreshes and deletions.
LEMMA FilesTypeStep ==
    ASSUME PromptsTypeOK, Edit \/ Refresh \/ DeleteDirectory
    PROVE  PromptsTypeOK'
<1>1. UNCHANGED <<visit, turn, reading, got, kept, mine, arrays, doubled>>
  BY DEF Edit, Refresh, Cleared, DeleteDirectory, files, marks, debug
<1>2. /\ version' \in 0 .. MaxEdits /\ refreshes' \in 0 .. MaxRefreshes
      /\ deletions' \in 0 .. MaxDeletions
  BY PromptsAssumption DEF PromptsTypeOK, Edit, Refresh, Cleared, DeleteDirectory, files
<1>3. Absent \in Contents
  BY DEF Contents
<1>4. /\ folder' \subseteq Templates /\ fresh' \subseteq Connections /\ safe' \subseteq Prompts
      /\ ready' \in BOOLEAN /\ raced' \in BOOLEAN
  BY DEF PromptsTypeOK, Edit, Refresh, Cleared, DeleteDirectory, files, marks
<1>5. copied' \in [Templates -> Contents] /\ cached' \in [Templates -> Contents]
  BY <1>3 DEF PromptsTypeOK, Edit, Refresh, Cleared, DeleteDirectory, files
<1>6. since' \in [Templates -> SUBSET Contents]
  BY <1>3 DEF PromptsTypeOK, Edit, Refresh, Cleared, DeleteDirectory, marks
<1> QED
  BY <1>1, <1>2, <1>4, <1>5, <1>6 DEF PromptsTypeOK

\* The events of prompts.
LEMMA TakenArray ==
    ASSUME PromptsTypeOK, NEW p \in Prompts, TakeArray(p)
    PROVE  /\ mine' \in [Prompts -> Prompts \union {None}]
           /\ arrays' \in [Prompts -> Seq(Prompts \X {"user", "assistant"})]
<1> DEFINE a == IF kept = None THEN p ELSE kept
           M == Prompts \X {"user", "assistant"}
<1>1. a \in Prompts /\ <<p, "user">> \in M
  BY DEF PromptsTypeOK
<1>2. /\ mine' = [mine EXCEPT ![p] = a]
      /\ arrays' = [arrays EXCEPT ![a] = Append(arrays[a], <<p, "user">>)]
  BY DEF TakeArray
<1>3. arrays \in [Prompts -> Seq(M)] /\ mine \in [Prompts -> Prompts \union {None}]
  BY DEF PromptsTypeOK
<1>4. Append(arrays[a], <<p, "user">>) \in Seq(M)
  BY <1>1, <1>3, AppendProperties
<1> HIDE DEF a, M
<1>5. /\ mine' \in [Prompts -> Prompts \union {None}]
      /\ arrays' \in [Prompts -> Seq(M)]
  BY <1>1, <1>2, <1>3, <1>4
<1> QED
  BY <1>5 DEF M

LEMMA EventTypeStep ==
    ASSUME PromptsTypeOK, NEW p \in Prompts,
           \/ ReceivePrompt(p) \/ BeginPrompt(p) \/ ShowPrompt(p) \/ BuildFails(p)
           \/ AskModel(p) \/ AsksForTools(p) \/ ToolsDone(p) \/ FailPrompt(p)
    PROVE  PromptsTypeOK'
<1>1. UNCHANGED <<files, cached, got, kept, refreshes, deletions, fresh, ready,
                  since, raced>>
  BY DEF ReceivePrompt, BeginPrompt, ShowPrompt, BuildFails, AskModel, AsksForTools,
         ToolsDone, FailPrompt, marks
<1>2. turn' \in [Prompts -> {"none", "row", "show", "build", "model", "tools",
                              "answered", "error", "exception"}]
  BY DEF PromptsTypeOK, ReceivePrompt, BeginPrompt, ShowPrompt, BuildFails, AskModel,
         AsksForTools, ToolsDone, FailPrompt, Turns
<1>3. /\ reading' \in [Prompts ->
                          [Templates -> {"none", "asked", "read", "done", "missing"}]]
      /\ safe' \subseteq Prompts
  <2>1. /\ reading \in [Prompts ->
                          [Templates -> {"none", "asked", "read", "done", "missing"}]]
        /\ safe \subseteq Prompts
    BY DEF PromptsTypeOK
  <2>2. CASE StartBuild(p)
    <3>1. [t \in Templates |-> IF cached[t] # Absent THEN "done" ELSE "asked"]
             \in [Templates -> {"none", "asked", "read", "done", "missing"}]
      OBVIOUS
    <3> QED
      BY <2>1, <2>2, <3>1 DEF StartBuild
  <2>3. CASE UNCHANGED <<reading, safe>>
    BY <2>1, <2>3
  <2> QED
    BY <2>2, <2>3 DEF ReceivePrompt, BeginPrompt, ShowPrompt, BuildFails, AskModel,
         AsksForTools, ToolsDone, FailPrompt, marks
<1>4. doubled' \in BOOLEAN
  BY DEF PromptsTypeOK, ReceivePrompt, BeginPrompt, ShowPrompt, BuildFails, AskModel,
         AsksForTools, ToolsDone, FailPrompt, marks
<1>5. /\ mine' \in [Prompts -> Prompts \union {None}]
      /\ arrays' \in [Prompts -> Seq(Prompts \X {"user", "assistant"})]
  BY TakenArray DEF PromptsTypeOK, ReceivePrompt, BeginPrompt, ShowPrompt, BuildFails,
         AskModel, AsksForTools, ToolsDone, FailPrompt
<1> QED
  BY <1>1, <1>2, <1>3, <1>4, <1>5 DEF PromptsTypeOK, files

LEMMA ReadTypeStep ==
    ASSUME PromptsTypeOK, NEW p \in Prompts, NEW t \in Templates,
           ReadFile(p, t) \/ StoreTemplate(p, t)
    PROVE  PromptsTypeOK'
<1>1. UNCHANGED <<files, turn, kept, mine, arrays, refreshes, deletions, fresh, ready,
                  safe, since, doubled>>
  BY DEF ReadFile, StoreTemplate, marks
<1>2. raced' \in BOOLEAN
  BY DEF PromptsTypeOK, ReadFile, StoreTemplate, marks
<1>3. Absent \in Contents
  BY DEF Contents
<1>4. got' \in [Prompts -> [Templates -> Contents]] /\ cached' \in [Templates -> Contents]
  <2>1. /\ got \in [Prompts -> [Templates -> Contents]]
        /\ copied \in [Templates -> Contents] /\ cached \in [Templates -> Contents]
    BY DEF PromptsTypeOK
  <2>2. ASSUME NEW x \in Contents, got' = [got EXCEPT ![p][t] = x]
        PROVE  got' \in [Prompts -> [Templates -> Contents]]
    BY <2>1, <2>2
  <2>3. got[p][t] \in Contents /\ copied[t] \in Contents
    BY <2>1
  <2> QED
    BY <1>3, <2>1, <2>2, <2>3 DEF ReadFile, StoreTemplate
<1>5. reading' \in [Prompts -> [Templates -> {"none", "asked", "read", "done", "missing"}]]
  <2> DEFINE R == {"none", "asked", "read", "done", "missing"}
  <2>1. reading \in [Prompts -> [Templates -> R]] /\ {"read", "missing", "done"} \subseteq R
    BY DEF PromptsTypeOK
  <2>2. \E x \in {"read", "missing", "done"} : reading' = [reading EXCEPT ![p][t] = x]
    BY DEF ReadFile, StoreTemplate
  <2> HIDE DEF R
  <2>3. reading' \in [Prompts -> [Templates -> R]]
    BY <2>1, <2>2
  <2> QED
    BY <2>3 DEF R
<1> QED
  BY <1>1, <1>2, <1>4, <1>5 DEF PromptsTypeOK, files

LEMMA FinishTypeStep ==
    ASSUME PromptsTypeOK, NEW p \in Prompts, FinishPrompt(p)
    PROVE  PromptsTypeOK'
<1> DEFINE M == Prompts \X {"user", "assistant"}
<1>1. UNCHANGED <<files, cached, got, reading, mine, refreshes, deletions, marks>>
  BY DEF FinishPrompt
<1>2. turn' \in [Prompts -> {"none", "row", "show", "build", "model", "tools",
                              "answered", "error", "exception"}]
  BY DEF PromptsTypeOK, FinishPrompt, Turns
<1>3. kept' \in Prompts \union {None}
  BY DEF PromptsTypeOK, FinishPrompt
<1>4. arrays' \in [Prompts -> Seq(M)]
  <2>1. arrays \in [Prompts -> Seq(M)] /\ <<p, "assistant">> \in M
    BY DEF PromptsTypeOK
  <2>2. arrays' = [arrays EXCEPT ![mine[p]] = Append(arrays[mine[p]], <<p, "assistant">>)]
    BY DEF FinishPrompt
  <2>3. mine[p] \in Prompts => Append(arrays[mine[p]], <<p, "assistant">>) \in Seq(M)
    BY <2>1, AppendProperties
  <2> HIDE DEF M
  <2> QED
    BY <2>1, <2>2, <2>3
<1> QED
  BY <1>1, <1>2, <1>3, <1>4 DEF PromptsTypeOK, files, marks

LEMMA PromptsTypeStep == PromptsTypeOK /\ [PromptsNext]_promptVars => PromptsTypeOK'
<1>1. ASSUME PromptsTypeOK, UNCHANGED promptVars PROVE PromptsTypeOK'
  BY <1>1 DEF promptVars, files, debug, marks, PromptsTypeOK
<1> QED
  BY <1>1, CopiesTypeStep, FilesTypeStep, EventTypeStep, ReadTypeStep, FinishTypeStep
     DEF PromptsNext

\* Type correctness of the prompts' model, for any number of connections and
\* prompts and any bounds: a prompt's array is one that some prompt made, and
\* the conversation that is kept too.
THEOREM PromptsTypeCorrect == PromptsSpec => []PromptsTypeOK
  BY PromptsTypeInit, PromptsTypeStep, PTL DEF PromptsSpec
-----------------------------------------------------------------------------
\* A copy that is written by a connection that no deletion came across has
\* been opened and not been deleted.
CopyThere ==
    \A c \in fresh, t \in Templates : At(c, "write", t) => copied[t] # Absent

\* Once a session is ready its template is there, torn at worst; what a safe
\* build reads of it is not nothing.
ReadyThere ==
    /\ ready => copied["agent"] # Absent
    /\ safe # {} => ready

SafeReads ==
    \A p \in safe :
        /\ reading[p]["agent"] # "missing"
        /\ reading[p]["agent"] = "read" => got[p]["agent"] # Absent

ReadyInv == CopyThere /\ ReadyThere /\ SafeReads

\* Without a deletion no copy vanishes.
LEMMA CopiesStay ==
    ASSUME PromptsTypeOK, NEW c \in Connections, NEW t \in Templates,
           OpenCopy(c, t) \/ WriteCopy(c, t), NEW u \in Templates, copied[u] # Absent
    PROVE  copied'[u] # Absent
<1>1. version # Absent /\ Torn # Absent
  BY PromptsAssumption DEF PromptsTypeOK
<1>2. copied \in [Templates -> Contents]
  BY DEF PromptsTypeOK
<1> QED
  BY <1>1, <1>2 DEF OpenCopy, WriteCopy, Put

LEMMA ReadyOfCopies ==
    ASSUME PromptsTypeOK, ReadyInv, NEW c \in Connections,
           \/ EnterSession(c)
           \/ \E t \in Templates : MakeFolder(c, t) \/ OpenCopy(c, t) \/ WriteCopy(c, t)
    PROVE  ReadyInv'
<1>1. UNCHANGED <<reading, got, safe>>
  BY DEF EnterSession, MakeFolder, OpenCopy, WriteCopy, marks, debug
<1>2. SafeReads'
  BY <1>1 DEF ReadyInv, SafeReads
<1>3. \A u \in Templates : copied[u] # Absent => copied'[u] # Absent
  BY CopiesStay DEF EnterSession, MakeFolder
<1>4. "agent" \in Templates /\ c \in DOMAIN visit
  BY DEF Templates, PromptsTypeOK
<1>5. \A d \in Connections \ {c} : visit'[d] = visit[d]
  BY DEF PromptsTypeOK, EnterSession, MakeFolder, OpenCopy, WriteCopy, Go
<1>6. fresh' \subseteq fresh \union {c} /\ fresh \subseteq Connections
  BY DEF PromptsTypeOK, EnterSession, MakeFolder, OpenCopy, WriteCopy, marks
<1>7. CopyThere'
  <2>1. ASSUME NEW u \in Templates, At(c, "write", u)' PROVE copied'[u] # Absent
    <3>1. ~EnterSession(c)
      BY <2>1, <1>4 DEF EnterSession, At, Go
    <3>2. ASSUME NEW t \in Templates PROVE ~MakeFolder(c, t) /\ ~WriteCopy(c, t)
      BY <2>1, <1>4 DEF MakeFolder, WriteCopy, At, Go
    <3>3. ASSUME NEW t \in Templates, OpenCopy(c, t) PROVE copied'[u] # Absent
      <4>1. t \in folder /\ Put(t, Torn) /\ u = t
        BY <2>1, <3>3, <1>4 DEF OpenCopy, At, Go
      <4> QED
        BY <4>1, PromptsAssumption DEF Put, PromptsTypeOK
    <3> QED
      BY <3>1, <3>2, <3>3
  <2>2. ASSUME NEW d \in fresh', d # c, NEW u \in Templates, At(d, "write", u)'
        PROVE  copied'[u] # Absent
    BY <2>2, <1>3, <1>5, <1>6 DEF ReadyInv, CopyThere, At
  <2> QED
    BY <2>1, <2>2 DEF CopyThere, At
<1>8. ReadyThere'
  <2>1. ready => ready'
    BY DEF EnterSession, MakeFolder, OpenCopy, WriteCopy, marks
  <2>2. ASSUME ready', ~ready PROVE copied'["agent"] # Absent
    <3>1. WriteCopy(c, "agent") /\ c \in fresh
      BY <2>2 DEF EnterSession, MakeFolder, OpenCopy, WriteCopy, marks, Templates
    <3>2. copied["agent"] # Absent
      BY <3>1, <1>4 DEF ReadyInv, CopyThere, WriteCopy
    <3> QED
      BY <3>2, <1>3, <1>4
  <2> QED
    BY <2>1, <2>2, <1>1, <1>3, <1>4 DEF ReadyInv, ReadyThere
<1> QED
  BY <1>2, <1>7, <1>8 DEF ReadyInv

LEMMA ReadyOfReads ==
    ASSUME PromptsTypeOK, ReadyInv, NEW p \in Prompts, NEW t \in Templates,
           ReadFile(p, t) \/ StoreTemplate(p, t)
    PROVE  ReadyInv'
<1>1. UNCHANGED <<copied, visit, fresh, ready, safe>>
  BY DEF ReadFile, StoreTemplate, files, marks
<1>2. CopyThere' /\ ReadyThere'
  BY <1>1 DEF ReadyInv, CopyThere, ReadyThere, At
<1>3. /\ reading \in [Prompts -> [Templates -> {"none", "asked", "read", "done", "missing"}]]
      /\ got \in [Prompts -> [Templates -> Contents]] /\ "agent" \in Templates
      /\ safe \subseteq Prompts
  BY DEF PromptsTypeOK, Templates
<1>4. ASSUME p \in safe, t = "agent"
      PROVE  /\ reading'[p]["agent"] # "missing"
             /\ reading'[p]["agent"] = "read" => got'[p]["agent"] # Absent
  <2>1. CASE ReadFile(p, t)
    <3>1. copied["agent"] # Absent
      BY <1>4 DEF ReadyInv, ReadyThere
    <3> QED
      BY <2>1, <3>1, <1>3, <1>4 DEF ReadFile
  <2>2. CASE StoreTemplate(p, t)
    <3>1. got[p]["agent"] # Absent
      BY <2>2, <1>4 DEF StoreTemplate, ReadyInv, SafeReads
    <3> QED
      BY <2>2, <3>1, <1>3, <1>4 DEF StoreTemplate
  <2> QED
    BY <2>1, <2>2
<1>5. ASSUME NEW q \in Prompts, q # p \/ t # "agent"
      PROVE  reading'[q]["agent"] = reading[q]["agent"] /\ got'[q]["agent"] = got[q]["agent"]
  BY <1>3, <1>5 DEF ReadFile, StoreTemplate
<1>6. SafeReads'
  BY <1>1, <1>3, <1>4, <1>5 DEF ReadyInv, SafeReads
<1> QED
  BY <1>2, <1>6 DEF ReadyInv

LEMMA ReadyOfBuilds ==
    ASSUME PromptsTypeOK, ReadyInv, NEW p \in Prompts, StartBuild(p),
           UNCHANGED <<copied, visit, got, fresh, ready>>
    PROVE  ReadyInv'
<1>1. CopyThere'
  BY DEF ReadyInv, CopyThere, At
<1>2. ReadyThere'
  BY DEF ReadyInv, ReadyThere, StartBuild
<1>3. \A q \in Prompts \ {p} : reading'[q] = reading[q]
  BY DEF StartBuild, PromptsTypeOK
<1>4. reading'[p]["agent"] \in {"done", "asked"}
  BY DEF StartBuild, PromptsTypeOK, Templates
<1>5. safe' \subseteq safe \union {p} /\ safe \subseteq Prompts
  BY DEF StartBuild, PromptsTypeOK
<1>6. SafeReads'
  BY <1>3, <1>4, <1>5 DEF ReadyInv, SafeReads
<1> QED
  BY <1>1, <1>2, <1>6 DEF ReadyInv

LEMMA ReadyStep == PromptsTypeOK /\ ReadyInv /\ [PromptsNext]_promptVars => ReadyInv'
<1> SUFFICES ASSUME PromptsTypeOK, ReadyInv, [PromptsNext]_promptVars PROVE ReadyInv'
  OBVIOUS
<1>1. CASE UNCHANGED <<copied, visit, reading, got, fresh, ready, safe>>
  BY <1>1 DEF ReadyInv, CopyThere, ReadyThere, SafeReads, At
<1>2. CASE DeleteDirectory
  BY <1>2 DEF DeleteDirectory, ReadyInv, CopyThere, ReadyThere, SafeReads
<1>3. ASSUME NEW p \in Prompts, BeginPrompt(p) \/ ShowPrompt(p) PROVE ReadyInv'
  <2>1. StartBuild(p) /\ UNCHANGED <<copied, visit, got, fresh, ready>>
    BY <1>3 DEF BeginPrompt, ShowPrompt, files
  <2> QED
    BY <2>1, ReadyOfBuilds
<1>4. CASE \/ UNCHANGED promptVars \/ Edit \/ Refresh
           \/ \E p \in Prompts :
                 \/ ReceivePrompt(p) \/ BuildFails(p) \/ AskModel(p) \/ AsksForTools(p)
                 \/ ToolsDone(p) \/ FinishPrompt(p) \/ FailPrompt(p)
  BY <1>1, <1>4 DEF promptVars, Edit, Refresh, Cleared, ReceivePrompt, BuildFails,
     AskModel, AsksForTools, ToolsDone, FinishPrompt, FailPrompt, files, debug, marks
<1> QED
  BY <1>2, <1>3, <1>4, ReadyOfCopies, ReadyOfReads DEF PromptsNext

\* connection:established means what it says, with any number of connections
\* that copy the templates anew, edits, refreshes and prompts: until the
\* session is deleted no build of a prompt misses a template.
THEOREM TemplatesAreThere == PromptsSpec => []EstablishedIsReady
<1>1. PromptsInit => ReadyInv
  BY DEF PromptsInit, ReadyInv, CopyThere, ReadyThere, SafeReads
<1>2. ReadyInv => EstablishedIsReady
  BY DEF ReadyInv, SafeReads, EstablishedIsReady
<1> QED
  BY <1>1, <1>2, PromptsTypeCorrect, ReadyStep, PTL DEF PromptsSpec
-----------------------------------------------------------------------------
\* A copy is among what it has been since the cache was cleared; and unless a
\* read met a copy or a refresh, what is cached, or read and about to be, is a
\* whole file that was there since, or nothing.
Whole(t) == (since[t] \ {Torn}) \union {Absent}

SinceCleared ==
    /\ \A t \in Templates : copied[t] \in since[t]
    /\ raced \/ \A t \in Templates :
          /\ cached[t] \in Whole(t)
          /\ \A p \in Prompts : reading[p][t] = "read" => got[p][t] \in Whole(t)

\* Of a change that reads nothing and clears nothing.
LEMMA SinceGrows ==
    ASSUME SinceCleared, UNCHANGED <<cached, got, raced>>,
           \A t \in Templates : since[t] \subseteq since'[t] /\ copied'[t] \in since'[t],
           \A p \in Prompts, t \in Templates :
              reading'[p][t] = "read" => reading[p][t] = "read"
    PROVE  SinceCleared'
<1>1. \A t \in Templates : Whole(t) \subseteq Whole(t)'
  BY DEF Whole
<1> QED
  BY <1>1 DEF SinceCleared

LEMMA SinceOfReads ==
    ASSUME PromptsTypeOK, SinceCleared, NEW p \in Prompts, NEW t \in Templates,
           ReadFile(p, t) \/ StoreTemplate(p, t)
    PROVE  SinceCleared'
<1>1. UNCHANGED <<copied, since>> /\ (raced => raced')
  <2>1. UNCHANGED <<copied, since>>
    BY DEF ReadFile, StoreTemplate, files, marks
  <2>2. raced => raced'
    BY DEF PromptsTypeOK, ReadFile, StoreTemplate, marks
  <2> QED
    BY <2>1, <2>2
<1>2. /\ reading \in [Prompts -> [Templates -> {"none", "asked", "read", "done", "missing"}]]
      /\ got \in [Prompts -> [Templates -> Contents]] /\ cached \in [Templates -> Contents]
  BY DEF PromptsTypeOK
<1>3. \A u \in Templates : Whole(u)' = Whole(u)
  BY <1>1 DEF Whole
<1>4. \A q \in Prompts, u \in Templates :
         q # p \/ u # t => reading'[q][u] = reading[q][u] /\ got'[q][u] = got[q][u]
  <2>1. \E x, y : /\ reading' = [reading EXCEPT ![p][t] = x]
                 /\ got' = [got EXCEPT ![p][t] = y]
    BY DEF ReadFile, StoreTemplate
  <2>2. ASSUME NEW q \in Prompts, NEW u \in Templates, q # p \/ u # t
        PROVE  reading'[q][u] = reading[q][u] /\ got'[q][u] = got[q][u]
    BY <1>2, <2>1, <2>2
  <2> QED
    BY <2>2
<1>5. ASSUME ~raced' PROVE reading'[p][t] = "read" => got'[p][t] \in Whole(t)
  <2>1. CASE ReadFile(p, t)
    <3>1. got'[p][t] = copied[t] /\ copied[t] # Torn
      BY <2>1, <1>2, <1>5 DEF ReadFile
    <3> QED
      BY <3>1 DEF SinceCleared, Whole
  <2>2. CASE StoreTemplate(p, t)
    BY <2>2, <1>2 DEF StoreTemplate
  <2> QED
    BY <2>1, <2>2
<1>6. ASSUME ~raced', NEW u \in Templates PROVE cached'[u] \in Whole(u)
  <2>1. CASE ReadFile(p, t)
    BY <2>1, <1>1, <1>6 DEF ReadFile, SinceCleared
  <2>2. CASE StoreTemplate(p, t)
    <3>1. got[p][t] \in Whole(t) /\ cached[u] \in Whole(u)
      BY <2>2, <1>1, <1>6 DEF StoreTemplate, SinceCleared
    <3> QED
      BY <2>2, <3>1, <1>2 DEF StoreTemplate
  <2> QED
    BY <2>1, <2>2
<1>7. ASSUME ~raced', NEW q \in Prompts, NEW u \in Templates, reading'[q][u] = "read"
      PROVE  got'[q][u] \in Whole(u)
  <2>1. CASE q = p /\ u = t
    BY <2>1, <1>5, <1>7
  <2>2. CASE q # p \/ u # t
    BY <2>2, <1>1, <1>4, <1>7 DEF SinceCleared
  <2> QED
    BY <2>1, <2>2
<1>8. \A u \in Templates : copied'[u] \in since'[u]
  BY <1>1 DEF SinceCleared
<1> QED
  BY <1>3, <1>6, <1>7, <1>8 DEF SinceCleared

LEMMA SinceStep == PromptsTypeOK /\ SinceCleared /\ [PromptsNext]_promptVars => SinceCleared'
<1> SUFFICES ASSUME PromptsTypeOK, SinceCleared, [PromptsNext]_promptVars
             PROVE  SinceCleared'
  OBVIOUS
<1>0. /\ copied \in [Templates -> Contents] /\ since \in [Templates -> SUBSET Contents]
      /\ reading \in [Prompts -> [Templates -> {"none", "asked", "read", "done", "missing"}]]
      /\ \A t \in Templates : copied[t] \in since[t]
  BY DEF PromptsTypeOK, SinceCleared
<1>1. CASE UNCHANGED <<copied, cached, reading, got, since, raced>>
  BY <1>0, <1>1, SinceGrows
<1>2. CASE DeleteDirectory
  <2>1. \A t \in Templates : since[t] \subseteq since'[t] /\ copied'[t] \in since'[t]
    BY <1>2 DEF DeleteDirectory
  <2> QED
    BY <1>2, <2>1, SinceGrows DEF DeleteDirectory, debug
<1>3. CASE Refresh
  <2>1. UNCHANGED <<copied, reading, got>>
    BY <1>3 DEF Refresh, Cleared, files, debug
  <2>2. \A t \in Templates : since'[t] = {copied[t]} /\ cached'[t] = Absent
    BY <1>3 DEF Refresh, Cleared
  <2>3. raced' \/ \A p \in Prompts, t \in Templates : reading[p][t] # "read"
    BY <1>3 DEF Refresh, Cleared, InFlight
  <2> QED
    BY <2>1, <2>2, <2>3 DEF SinceCleared, Whole
<1>4. ASSUME NEW c \in Connections, NEW t \in Templates, OpenCopy(c, t) \/ WriteCopy(c, t)
      PROVE  SinceCleared'
  <2>1. UNCHANGED <<cached, reading, got, raced>>
    BY <1>4 DEF OpenCopy, WriteCopy, debug
  <2>2. \A u \in Templates : since[u] \subseteq since'[u] /\ copied'[u] \in since'[u]
    <3>1. CASE UNCHANGED <<copied, since>>
      BY <3>1, <1>0
    <3>2. ASSUME NEW x, Put(t, x)
          PROVE  \A u \in Templates : since[u] \subseteq since'[u] /\ copied'[u] \in since'[u]
      BY <3>2, <1>0 DEF Put
    <3> QED
      BY <1>4, <3>1, <3>2 DEF OpenCopy, WriteCopy
  <2> QED
    BY <2>1, <2>2, SinceGrows
<1>5. ASSUME NEW p \in Prompts, BeginPrompt(p) \/ ShowPrompt(p) PROVE SinceCleared'
  <2>1. StartBuild(p) /\ UNCHANGED <<copied, cached, got, since, raced>>
    BY <1>5 DEF BeginPrompt, ShowPrompt, files
  <2>2. \A q \in Prompts, t \in Templates : reading'[q][t] = "read" => reading[q][t] = "read"
    BY <1>0, <2>1 DEF StartBuild
  <2> QED
    BY <1>0, <2>1, <2>2, SinceGrows
<1>6. CASE \/ UNCHANGED promptVars \/ Edit
           \/ \E c \in Connections :
                 EnterSession(c) \/ \E t \in Templates : MakeFolder(c, t)
           \/ \E p \in Prompts :
                 \/ ReceivePrompt(p) \/ BuildFails(p) \/ AskModel(p) \/ AsksForTools(p)
                 \/ ToolsDone(p) \/ FinishPrompt(p) \/ FailPrompt(p)
  BY <1>1, <1>6 DEF promptVars, Edit, EnterSession, MakeFolder, ReceivePrompt, BuildFails,
     AskModel, AsksForTools, ToolsDone, FinishPrompt, FailPrompt, files, debug, marks
<1> QED
  BY <1>2, <1>3, <1>4, <1>5, <1>6, SinceOfReads DEF PromptsNext

\* Whatever connections, deletions, refreshes and builds of prompts come
\* together: unless a read met a copy or a refresh, what is cached is a whole
\* template of the session's directory since the last refresh.
THEOREM CachedIsWhole == PromptsSpec => []CacheIsCurrent
<1>1. PromptsInit => SinceCleared
  BY DEF PromptsInit, SinceCleared, Whole
<1>2. SinceCleared => CacheIsCurrent
  BY DEF SinceCleared, CacheIsCurrent, Whole
<1> QED
  BY <1>1, <1>2, PromptsTypeCorrect, SinceStep, PTL DEF PromptsSpec
-----------------------------------------------------------------------------
\* What a handler that is answering has said is in the array it works on;
\* unless two prompts made a first array, all of them work on the kept one.
Has(a, m) == \E i \in 1 .. Len(a) : a[i] = m

Said == \A p \in Prompts :
    Answering(p) => mine[p] \in Prompts /\ Has(arrays[mine[p]], <<p, "user">>)

OneArray ==
    doubled \/
        /\ kept = None => \A p, q \in Prompts : Answering(p) /\ Answering(q) => p = q
        /\ kept # None => \A p \in Prompts : Answering(p) => mine[p] = kept

ConversationInv == Said /\ OneArray /\ ConversationIsKept

LEMMA AppendKeeps ==
    ASSUME NEW S, NEW a \in Seq(S), NEW x \in S
    PROVE  /\ Has(Append(a, x), x)
           /\ \A m : Has(a, m) => Has(Append(a, x), m) /\ Before(Append(a, x), m, x)
           /\ \A m, n : Before(a, m, n) => Before(Append(a, x), m, n)
<1> DEFINE b == Append(a, x)
<1>1. /\ Len(a) \in Nat /\ Len(b) = Len(a) + 1 /\ b[Len(a) + 1] = x
      /\ \A i \in 1 .. Len(a) : b[i] = a[i]
  BY AppendProperties, LenProperties
<1> HIDE DEF b
<1>2. Has(b, x)
  BY <1>1 DEF Has
<1>3. ASSUME NEW m, Has(a, m) PROVE Has(b, m) /\ Before(b, m, x)
  <2>1. PICK i \in 1 .. Len(a) : a[i] = m
    BY <1>3 DEF Has
  <2>2. i \in 1 .. Len(b) /\ Len(b) \in 1 .. Len(b) /\ i < Len(b) /\ b[i] = m /\ b[Len(b)] = x
    BY <1>1, <2>1
  <2> QED
    BY <2>2 DEF Has, Before
<1>4. ASSUME NEW m, NEW n, Before(a, m, n) PROVE Before(b, m, n)
  <2>1. PICK i \in 1 .. Len(a), j \in 1 .. Len(a) : i < j /\ a[i] = m /\ a[j] = n
    BY <1>4 DEF Before
  <2>2. i \in 1 .. Len(b) /\ j \in 1 .. Len(b) /\ b[i] = m /\ b[j] = n
    BY <1>1, <2>1
  <2> QED
    BY <2>1, <2>2 DEF Before
<1> QED
  BY <1>2, <1>3, <1>4 DEF b

\* No message of an array is lost or moved when another one is appended.
LEMMA ArraysGrow ==
    ASSUME PromptsTypeOK, NEW k \in Prompts, NEW p \in Prompts,
           NEW who \in {"user", "assistant"},
           arrays' = [arrays EXCEPT ![k] = Append(@, <<p, who>>)]
    PROVE  /\ Has(arrays'[k], <<p, who>>)
           /\ \A m : Has(arrays[k], m) => Before(arrays'[k], m, <<p, who>>)
           /\ \A a \in Prompts : \A m : Has(arrays[a], m) => Has(arrays'[a], m)
           /\ \A a \in Prompts : \A m, n : Before(arrays[a], m, n) => Before(arrays'[a], m, n)
<1> DEFINE M == Prompts \X {"user", "assistant"}
<1>1. arrays \in [Prompts -> Seq(M)] /\ <<p, who>> \in M
  BY DEF PromptsTypeOK
<1>2. /\ arrays'[k] = Append(arrays[k], <<p, who>>) /\ arrays[k] \in Seq(M)
      /\ \A a \in Prompts \ {k} : arrays'[a] = arrays[a]
  BY <1>1
<1> HIDE DEF M
<1> QED
  BY <1>1, <1>2, AppendKeeps

LEMMA ConversationOfBegin ==
    ASSUME PromptsTypeOK, ConversationInv, NEW p \in Prompts, BeginPrompt(p)
    PROVE  ConversationInv'
<1> DEFINE k == IF kept = None THEN p ELSE kept
<1>1. /\ turn[p] = "row" /\ turn'[p] = "show" /\ kept' = kept /\ k \in Prompts
      /\ \A q \in Prompts \ {p} : turn'[q] = turn[q]
      /\ doubled' = (doubled \/ (kept = None /\ \E q \in Prompts : Answering(q)))
  BY DEF PromptsTypeOK, BeginPrompt, Turns
<1>2. /\ arrays' = [arrays EXCEPT ![k] = Append(@, <<p, "user">>)]
      /\ mine'[p] = k /\ \A q \in Prompts \ {p} : mine'[q] = mine[q]
  BY DEF PromptsTypeOK, BeginPrompt, TakeArray
<1>3. k = IF kept = None THEN p ELSE kept
  OBVIOUS
<1> HIDE DEF k
<1>4. /\ Has(arrays'[k], <<p, "user">>)
      /\ \A a \in Prompts : \A m : Has(arrays[a], m) => Has(arrays'[a], m)
      /\ \A a \in Prompts : \A m, n : Before(arrays[a], m, n) => Before(arrays'[a], m, n)
  BY <1>1, <1>2, ArraysGrow
<1>5. \A q \in Prompts \ {p} : Answering(q)' <=> Answering(q)
  BY <1>1 DEF Answering
<1>6. Said'
  <2>1. ASSUME NEW q \in Prompts \ {p}, Answering(q)'
        PROVE  mine'[q] \in Prompts /\ Has(arrays'[mine'[q]], <<q, "user">>)
    <3>1. Answering(q) /\ mine'[q] = mine[q]
      BY <1>2, <1>5, <2>1
    <3>2. mine[q] \in Prompts /\ Has(arrays[mine[q]], <<q, "user">>)
      BY <3>1 DEF ConversationInv, Said
    <3> QED
      BY <1>4, <3>1, <3>2
  <2>2. mine'[p] \in Prompts /\ Has(arrays'[mine'[p]], <<p, "user">>)
    BY <1>1, <1>2, <1>4
  <2> QED
    BY <2>1, <2>2 DEF Said
<1>7. OneArray'
  <2>1. ASSUME ~doubled', kept = None
        PROVE  \A q, r \in Prompts : Answering(q)' /\ Answering(r)' => q = r
    <3>1. \A q \in Prompts : ~Answering(q)
      BY <1>1, <2>1
    <3> QED
      BY <1>5, <3>1
  <2>2. ASSUME ~doubled', kept # None, NEW q \in Prompts, Answering(q)'
        PROVE  mine'[q] = kept
    <3>1. CASE q = p
      BY <1>2, <1>3, <2>2, <3>1
    <3>2. CASE q # p
      BY <1>1, <1>2, <1>5, <2>2, <3>2 DEF ConversationInv, OneArray
    <3> QED
      BY <3>1, <3>2
  <2> QED
    BY <1>1, <2>1, <2>2 DEF OneArray
<1>8. ConversationIsKept'
  <2> SUFFICES ASSUME ~doubled', NEW q \in Prompts, turn'[q] = "answered"
               PROVE  kept # None /\ Before(arrays'[kept], <<q, "user">>, <<q, "assistant">>)
    BY <1>1 DEF ConversationIsKept
  <2>1. kept # None /\ Before(arrays[kept], <<q, "user">>, <<q, "assistant">>)
    BY <1>1 DEF ConversationInv, ConversationIsKept
  <2>2. kept \in Prompts
    BY <2>1 DEF PromptsTypeOK
  <2> QED
    BY <1>4, <2>1, <2>2
<1> QED
  BY <1>6, <1>7, <1>8 DEF ConversationInv

LEMMA ConversationOfFinish ==
    ASSUME PromptsTypeOK, ConversationInv, NEW p \in Prompts, FinishPrompt(p)
    PROVE  ConversationInv'
<1> DEFINE k == mine[p]
<1>1. /\ Answering(p) /\ turn'[p] = "answered" /\ mine' = mine /\ doubled' = doubled
      /\ \A q \in Prompts \ {p} : turn'[q] = turn[q]
      /\ kept' = k /\ arrays' = [arrays EXCEPT ![k] = Append(@, <<p, "assistant">>)]
  BY DEF PromptsTypeOK, FinishPrompt, Turns, Answering, marks
<1>2. k \in Prompts /\ Has(arrays[k], <<p, "user">>) /\ k # None
  BY <1>1, PromptsAssumption DEF ConversationInv, Said
<1>3. mine[p] = k
  OBVIOUS
<1> HIDE DEF k
<1>4. /\ Before(arrays'[k], <<p, "user">>, <<p, "assistant">>)
      /\ \A a \in Prompts : \A m : Has(arrays[a], m) => Has(arrays'[a], m)
      /\ \A a \in Prompts : \A m, n : Before(arrays[a], m, n) => Before(arrays'[a], m, n)
  BY <1>1, <1>2, ArraysGrow
<1>5. \A q \in Prompts : Answering(q)' => q # p /\ Answering(q)
  BY <1>1 DEF Answering
<1>6. Said'
  <2>1. ASSUME NEW q \in Prompts, Answering(q)'
        PROVE  mine[q] \in Prompts /\ Has(arrays'[mine[q]], <<q, "user">>)
    <3>1. mine[q] \in Prompts /\ Has(arrays[mine[q]], <<q, "user">>)
      BY <1>5, <2>1 DEF ConversationInv, Said
    <3> QED
      BY <1>4, <3>1
  <2> QED
    BY <1>1, <2>1 DEF Said
<1>7. OneArray'
  <2>1. ASSUME ~doubled, NEW q \in Prompts, Answering(q)' PROVE mine[q] = k
    <3>1. Answering(q) /\ q # p
      BY <1>5, <2>1
    <3>2. kept # None
      BY <1>1, <2>1, <3>1 DEF ConversationInv, OneArray
    <3> QED
      BY <1>1, <1>3, <2>1, <3>1, <3>2 DEF ConversationInv, OneArray
  <2> QED
    BY <1>1, <1>2, <2>1 DEF OneArray
<1>8. ConversationIsKept'
  <2> SUFFICES ASSUME ~doubled, NEW q \in Prompts, turn'[q] = "answered"
               PROVE  Before(arrays'[k], <<q, "user">>, <<q, "assistant">>)
    BY <1>1, <1>2 DEF ConversationIsKept
  <2>1. CASE q = p
    BY <1>4, <2>1
  <2>2. CASE q # p
    <3>1. kept # None /\ Before(arrays[kept], <<q, "user">>, <<q, "assistant">>)
      BY <1>1, <2>2 DEF ConversationInv, ConversationIsKept
    <3>2. kept = k
      BY <1>1, <1>3, <3>1 DEF ConversationInv, OneArray
    <3> QED
      BY <1>2, <1>4, <3>1, <3>2
  <2> QED
    BY <2>1, <2>2
<1> QED
  BY <1>6, <1>7, <1>8 DEF ConversationInv

LEMMA ConversationStep ==
    PromptsTypeOK /\ ConversationInv /\ [PromptsNext]_promptVars => ConversationInv'
<1> SUFFICES ASSUME PromptsTypeOK, ConversationInv, [PromptsNext]_promptVars
             PROVE  ConversationInv'
  OBVIOUS
<1>1. ASSUME UNCHANGED <<kept, mine, arrays, doubled>>,
             \A p \in Prompts : /\ Answering(p)' => Answering(p)
                                /\ turn'[p] = "answered" => turn[p] = "answered"
      PROVE  ConversationInv'
  <2>1. Said'
    BY <1>1 DEF ConversationInv, Said
  <2>2. OneArray'
    BY <1>1 DEF ConversationInv, OneArray
  <2>3. ConversationIsKept'
    BY <1>1 DEF ConversationInv, ConversationIsKept
  <2> QED
    BY <2>1, <2>2, <2>3 DEF ConversationInv
<1>2. CASE UNCHANGED <<turn, kept, mine, arrays, doubled>>
  BY <1>1, <1>2 DEF Answering
<1>3. ASSUME NEW p \in Prompts,
             \/ ReceivePrompt(p) \/ ShowPrompt(p) \/ BuildFails(p) \/ AskModel(p)
             \/ AsksForTools(p) \/ ToolsDone(p) \/ FailPrompt(p)
      PROVE  ConversationInv'
  <2>1. UNCHANGED <<kept, mine, arrays, doubled>>
    BY <1>3 DEF ReceivePrompt, ShowPrompt, BuildFails, AskModel, AsksForTools,
       ToolsDone, FailPrompt, marks
  <2>2. turn'[p] # "answered" /\ (Answering(p)' => Answering(p))
    BY <1>3 DEF PromptsTypeOK, ReceivePrompt, ShowPrompt, BuildFails, AskModel,
       AsksForTools, ToolsDone, FailPrompt, Turns, Answering
  <2>3. \A q \in Prompts \ {p} : turn'[q] = turn[q]
    BY <1>3 DEF PromptsTypeOK, ReceivePrompt, ShowPrompt, BuildFails, AskModel,
       AsksForTools, ToolsDone, FailPrompt, Turns
  <2> QED
    BY <1>1, <2>1, <2>2, <2>3 DEF Answering
<1>4. CASE \/ UNCHANGED promptVars \/ Edit \/ Refresh \/ DeleteDirectory
           \/ \E c \in Connections :
                 \/ EnterSession(c)
                 \/ \E t \in Templates : MakeFolder(c, t) \/ OpenCopy(c, t) \/ WriteCopy(c, t)
           \/ \E p \in Prompts, t \in Templates : ReadFile(p, t) \/ StoreTemplate(p, t)
  BY <1>2, <1>4 DEF promptVars, Edit, Refresh, Cleared, DeleteDirectory, EnterSession,
     MakeFolder, OpenCopy, WriteCopy, ReadFile, StoreTemplate, debug, marks
<1> QED
  BY <1>3, <1>4, ConversationOfBegin, ConversationOfFinish DEF PromptsNext

\* However many prompts of a session are answered side by side, fail, or take
\* rounds of tool calls: unless two of them were both its first, the kept
\* conversation has every prompt that was answered, message before answer.
THEOREM AnswersAreKept == PromptsSpec => []ConversationIsKept
<1>1. PromptsInit => ConversationInv
  BY DEF PromptsInit, ConversationInv, Said, OneArray, ConversationIsKept, Answering
<1>2. ConversationInv => ConversationIsKept
  BY DEF ConversationInv
<1> QED
  BY <1>1, <1>2, PromptsTypeCorrect, ConversationStep, PTL DEF PromptsSpec
=============================================================================

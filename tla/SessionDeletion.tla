-------------------------- MODULE SessionDeletion --------------------------
(***************************************************************************)
(* Deleting one session: the session:delete handler of ChatGateway, the    *)
(* three stores that SessionDeletionService clears one after the other,    *)
(* the BullMQ queue that a failed deletion goes to and the worker          *)
(* (SessionDeletionProcessor) that retries it - while message handlers of  *)
(* the same session go on writing to the same stores.                      *)
(*                                                                         *)
(* The directory that a deletion removes is workspace/sessions/<id>, with  *)
(* the transcript in it.  What agents think and answer is also written to  *)
(* sessions/<id>/chain-of-thought.md (cot-writer.service.ts:8,19), which   *)
(* no deletion touches: that file is no store of this module, and nothing  *)
(* is said about it.                                                       *)
(*                                                                         *)
(* BullMQ is external: one worker runs one job at a time, a failed job is  *)
(* run again until it has had its three attempts, and "failed" is emitted  *)
(* after every attempt that fails.  Jobs of a session are alike, so the    *)
(* queue is a count per number of attempts made.                           *)
(***************************************************************************)
EXTENDS Integers, FiniteSets

CONSTANTS
    Requests,     \* session:delete events
    Messages,     \* message:send events of the session
    MaxFailures   \* store commands that fail (a bound of the model)

Worker == "worker"
Attempts == 3             \* the attempts option of SessionDeletionQueue.add
StuckAfter == 10          \* MAX_RETRY_BEFORE_STUCK

ASSUME DeletionAssumption ==
    /\ Worker \notin Requests /\ "before" \notin Messages
    /\ MaxFailures \in Nat

\* Old stands for what was said before; a message adds the user's turn and
\* the answer of one agent.
Old == <<"before", "user">>
Turn == {Old} \union (Messages \X {"user", "agent"})

VARIABLES
    mem,        \* turns under the session's key in Redis; {}: no key
    row,        \* the session's row in PostgreSQL
    rows,       \* turns in its messages
    disk,       \* turns in its transcript, in workspace/sessions/<id>
    pass,       \* the store deleteSession clears next, per caller
    waiting,    \* jobs by attempts made
    attempt,    \* attempts the job in the worker had had, -1: no job
    requeue,    \* calls of onFailed that have yet to add their job
    answer,     \* what each request was answered
    open,       \* requests answered "queued" and not carried out since
    told,       \* history: session:delete... events sent
    failures,   \* history: failures so far
    pc,         \* where a message handler stands
    side,       \* whose turn it is storing, "user" or "agent"
    local,      \* the array its get() returned
    overlap     \* history: handlers under way together with a deletion

stores == <<mem, row, rows, disk>>
jobs == <<waiting, attempt, requeue>>
outcome == <<answer, open, told>>
handlers == <<pc, side, local>>
vars == <<stores, pass, jobs, outcome, failures, handlers, overlap>>

Callers == Requests \union {Worker}
Deleting == \E c \in Callers : pass[c] # "idle"
Busy(m) == pc[m] \notin {"idle", "done"}

Init ==
    /\ mem = {Old} /\ row = TRUE /\ rows = {Old} /\ disk = {Old}
    /\ pass = [c \in Callers |-> "idle"]
    /\ waiting = [a \in 0 .. Attempts - 1 |-> 0]
    /\ attempt = -1 /\ requeue = 0
    /\ answer = [r \in Requests |-> "none"]
    /\ open = {} /\ told = {} /\ failures = 0
    /\ pc = [m \in Messages |-> "idle"]
    /\ side = [m \in Messages |-> "user"]
    /\ local = [m \in Messages |-> {}]
    /\ overlap = {}
-----------------------------------------------------------------------------
\* deleteSession is entered.
EnterPass(c) ==
    /\ pass' = [pass EXCEPT ![c] = "redis"]
    /\ overlap' = overlap \union {m \in Messages : Busy(m)}

Request(r) ==
    /\ answer[r] = "none"
    /\ answer' = [answer EXCEPT ![r] = "started"]
    /\ EnterPass(r)
    /\ told' = told \union {"started"}
    /\ UNCHANGED <<stores, jobs, open, failures, handlers>>

\* shortTermMemory.clear, then deleteSessionDirectory.
ClearRedis(c) ==
    /\ pass[c] = "redis"
    /\ mem' = {}
    /\ pass' = [pass EXCEPT ![c] = "directory"]
    /\ UNCHANGED <<row, rows, disk, jobs, outcome, failures, handlers, overlap>>

\* Mutant: an error of fs.rm is swallowed.
ClearDirectoryMaybe(c) ==
    /\ pass[c] = "directory"
    /\ disk' \in {disk, {}}
    /\ pass' = [pass EXCEPT ![c] = "database"]
    /\ UNCHANGED <<mem, row, rows, jobs, outcome, failures, handlers, overlap>>

ClearDirectory(c) ==
    /\ pass[c] = "directory"
    /\ disk' = {}
    /\ pass' = [pass EXCEPT ![c] = "database"]
    /\ UNCHANGED <<mem, row, rows, jobs, outcome, failures, handlers, overlap>>

\* The transaction: the session's row and, by cascade, its messages.
ClearDatabase == row' = FALSE /\ rows' = {} /\ UNCHANGED <<mem, disk>>

\* The last store is cleared for a request: it announces the deletion.
RequestSucceeds(r) ==
    /\ pass[r] = "database"
    /\ ClearDatabase
    /\ pass' = [pass EXCEPT ![r] = "idle"]
    /\ answer' = [answer EXCEPT ![r] = "deleted"]
    /\ told' = told \union {"deleted"}
    /\ UNCHANGED <<jobs, open, failures, handlers, overlap>>

\* Mutant: a caught error is answered like a success.
RequestFailsQuietly(r) ==
    /\ pass[r] # "idle" /\ failures < MaxFailures
    /\ failures' = failures + 1
    /\ pass' = [pass EXCEPT ![r] = "idle"]
    /\ answer' = [answer EXCEPT ![r] = "queued"]
    /\ open' = open \union {r}
    /\ UNCHANGED <<stores, jobs, told, handlers, overlap>>

\* A store fails under a request: the catch block adds a job.
RequestFails(r) ==
    /\ pass[r] # "idle" /\ failures < MaxFailures
    /\ failures' = failures + 1
    /\ pass' = [pass EXCEPT ![r] = "idle"]
    /\ answer' = [answer EXCEPT ![r] = "adding"]
    /\ UNCHANGED <<stores, jobs, open, told, handlers, overlap>>

\* deletionQueue.add is through: the request is answered "queued".
Enqueue(r) ==
    /\ answer[r] = "adding"
    /\ waiting' = [waiting EXCEPT ![0] = @ + 1]
    /\ answer' = [answer EXCEPT ![r] = "queued"]
    /\ open' = open \union {r}
    /\ told' = told \union {"queued"}
    /\ UNCHANGED <<stores, pass, attempt, requeue, failures, handlers, overlap>>

\* deletionQueue.add is rejected, and with it the handler.
EnqueueFails(r) ==
    /\ answer[r] = "adding" /\ failures < MaxFailures
    /\ failures' = failures + 1
    /\ answer' = [answer EXCEPT ![r] = "error"]
    /\ UNCHANGED <<stores, pass, jobs, open, told, handlers, overlap>>
-----------------------------------------------------------------------------
\* The worker takes a job.
TakeJob(a) ==
    /\ attempt = -1 /\ waiting[a] > 0
    /\ waiting' = [waiting EXCEPT ![a] = @ - 1]
    /\ attempt' = a
    /\ EnterPass(Worker)
    /\ UNCHANGED <<stores, requeue, outcome, failures, handlers>>

\* The job is done, onCompleted announces it.
JobSucceeds ==
    /\ pass[Worker] = "database"
    /\ ClearDatabase
    /\ pass' = [pass EXCEPT ![Worker] = "idle"]
    /\ attempt' = -1
    /\ open' = {}
    /\ told' = told \union {"deleted"}
    /\ UNCHANGED <<waiting, requeue, answer, failures, handlers, overlap>>

\* An attempt fails.  BullMQ keeps the job for another attempt if it has one
\* left; onFailed, called after every failure, adds a job of its own unless
\* the attempts of this job have reached MAX_RETRY_BEFORE_STUCK.
JobFails ==
    /\ pass[Worker] # "idle" /\ failures < MaxFailures
    /\ failures' = failures + 1
    /\ pass' = [pass EXCEPT ![Worker] = "idle"]
    /\ attempt' = -1
    /\ waiting' = IF attempt + 1 < Attempts
                  THEN [waiting EXCEPT ![attempt + 1] = @ + 1] ELSE waiting
    /\ IF attempt + 1 >= StuckAfter
       THEN told' = told \union {"stuck"} /\ UNCHANGED requeue
       ELSE told' = told \union {"failed"} /\ requeue' = requeue + 1
    /\ UNCHANGED <<stores, answer, open, handlers, overlap>>

\* onFailed's deletionQueue.add is through; its delay is not passed on.
Requeue ==
    /\ requeue > 0
    /\ requeue' = requeue - 1
    /\ waiting' = [waiting EXCEPT ![0] = @ + 1]
    /\ UNCHANGED <<stores, pass, attempt, outcome, failures, handlers, overlap>>
-----------------------------------------------------------------------------
Goto(m, label) == pc' = [pc EXCEPT ![m] = label]

ByStore(m) == IF side[m] = "user" THEN "get" ELSE "insert"

\* ensureSessionRow: exist(), and a save() if there was none.
Receive(m) ==
    /\ pc[m] = "idle"
    /\ Goto(m, "check")
    /\ overlap' = IF Deleting THEN overlap \union {m} ELSE overlap
    /\ UNCHANGED <<stores, pass, jobs, outcome, failures, side, local>>

\* Mutant: the row is taken to be there since the session was opened.
CheckRowTrusts(m) ==
    /\ pc[m] = "check"
    /\ Goto(m, ByStore(m))
    /\ UNCHANGED <<stores, pass, jobs, outcome, failures, side, local, overlap>>

CheckRow(m) ==
    /\ pc[m] = "check"
    /\ Goto(m, IF row THEN ByStore(m) ELSE "make")
    /\ UNCHANGED <<stores, pass, jobs, outcome, failures, side, local, overlap>>

\* If another handler has made the row meanwhile, save() finds it, or does
\* not find it yet and is rejected for its key, and the handler with it.
MakeRow(m) ==
    /\ pc[m] = "make"
    /\ row' = TRUE
    /\ \E next \in {ByStore(m)} \union (IF row THEN {"done"} ELSE {}) : Goto(m, next)
    /\ UNCHANGED <<mem, rows, disk, pass, jobs, outcome, failures, side, local, overlap>>

\* The steps of ShortTermMemoryService.append; SessionMemory has them in full.
Get(m) ==
    /\ pc[m] = "get"
    /\ local' = [local EXCEPT ![m] = mem]
    /\ Goto(m, IF mem = {} THEN "find" ELSE "save")
    /\ UNCHANGED <<stores, pass, jobs, outcome, failures, side, overlap>>

Find(m) ==
    /\ pc[m] = "find"
    /\ local' = [local EXCEPT ![m] = rows]
    /\ Goto(m, IF rows = {} THEN "save" ELSE "fill")
    /\ UNCHANGED <<stores, pass, jobs, outcome, failures, side, overlap>>

Fill(m) ==
    /\ pc[m] = "fill"
    /\ mem' = local[m]
    /\ Goto(m, "save")
    /\ UNCHANGED <<row, rows, disk, pass, jobs, outcome, failures, side, local, overlap>>

Save(m) ==
    /\ pc[m] = "save"
    /\ mem' = local[m] \union {<<m, side[m]>>}
    /\ local' = [local EXCEPT ![m] = {}]
    /\ Goto(m, IF side[m] = "user" THEN "insert" ELSE "check")
    /\ UNCHANGED <<row, rows, disk, pass, jobs, outcome, failures, side, overlap>>

\* The insert of the turn: without the session's row the foreign key rejects
\* it, and the handler with it.
Insert(m) ==
    /\ pc[m] = "insert"
    /\ rows' = IF row THEN rows \union {<<m, side[m]>>} ELSE rows
    /\ Goto(m, IF row THEN "write" ELSE "done")
    /\ UNCHANGED <<mem, row, disk, pass, jobs, outcome, failures, side, local, overlap>>

\* transcriptService.appendEntry makes the directory anew; then the agent's
\* turn is stored, the context first.
Write(m) ==
    /\ pc[m] = "write"
    /\ disk' = disk \union {<<m, side[m]>>}
    /\ side' = [side EXCEPT ![m] = "agent"]
    /\ Goto(m, IF side[m] = "user" THEN "get" ELSE "done")
    /\ UNCHANGED <<mem, row, rows, pass, jobs, outcome, failures, local, overlap>>
-----------------------------------------------------------------------------
Progress(c) == ClearRedis(c) \/ ClearDirectory(c)

Gateway(r) == Progress(r) \/ RequestSucceeds(r) \/ RequestFails(r) \/ Enqueue(r)

Work ==
    \/ Progress(Worker) \/ JobSucceeds \/ JobFails
    \/ \E a \in 0 .. Attempts - 1 : TakeJob(a)

Handle(m) ==
    \/ CheckRow(m) \/ MakeRow(m) \/ Get(m) \/ Find(m)
    \/ Fill(m) \/ Save(m) \/ Insert(m) \/ Write(m)

Next ==
    \/ \E r \in Requests : Request(r) \/ Gateway(r) \/ EnqueueFails(r)
    \/ Work \/ Requeue
    \/ \E m \in Messages : Receive(m) \/ Handle(m)

\* Stores answer, if only with an error, and the worker goes on taking jobs.
Fairness ==
    /\ \A r \in Requests : WF_vars(Gateway(r))
    /\ WF_vars(Work) /\ WF_vars(Requeue)

Spec == Init /\ [][Next]_vars /\ Fairness
-----------------------------------------------------------------------------
TypeOK ==
    /\ row \in BOOLEAN
    /\ mem \subseteq Turn /\ rows \subseteq Turn /\ disk \subseteq Turn
    /\ pass \in [Callers -> {"idle", "redis", "directory", "database"}]
    /\ waiting \in [0 .. Attempts - 1 -> Nat] /\ requeue \in Nat
    /\ attempt \in -1 .. Attempts - 1
    /\ attempt = -1 <=> pass[Worker] = "idle"
    /\ answer \in [Requests -> {"none", "started", "adding", "deleted",
                                "queued", "error"}]
    /\ open \subseteq Requests
    /\ told \subseteq {"started", "deleted", "queued", "failed", "stuck"}
    /\ failures \in 0 .. MaxFailures
    /\ pc \in [Messages -> {"idle", "check", "make", "get", "find", "fill",
                            "save", "insert", "write", "done"}]
    /\ side \in [Messages -> {"user", "agent"}]
    /\ local \in [Messages -> SUBSET Turn]
    /\ overlap \subseteq Messages

\* Only a deletion that is under way together with a message makes the foreign
\* key reject one of its turns: the row is looked for before each of them
\* (chat.gateway.ts:158, 524), so that after a deletion, by however many
\* callers, the session can go on, with several messages at once, too.
OnlyDeletionRejects ==
    [][\A m \in Messages : pc[m] = "insert" /\ pc'[m] = "done" => m \in overlap]_vars

\* Once the deletion is announced, what was said before it is neither in the
\* messages nor in the transcript, and if no message was being handled
\* meanwhile, it is not in Redis either.  (The file chain-of-thought.md, which
\* nothing removes, is another matter.)
DeletedMeansGone ==
    "deleted" \in told => /\ Old \notin rows \union disk
                          /\ overlap # {} \/ Old \notin mem

\* The same for Redis without the condition: "all messages of the
\* conversation are deleted, Redis, PostgreSQL and workspace included"
\* (2026-03-22-session-deletion-design.md:3).
DeletedEverywhere == "deleted" \in told => Old \notin mem \union rows \union disk

\* Retrying comes to an end: whatever fails for a while, a queued deletion is
\* carried out.
QueuedIsCarriedOut == \A r \in Requests : r \in open ~> r \notin open
=============================================================================

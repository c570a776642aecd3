----------------------------- MODULE FileLogger -----------------------------
(***************************************************************************)
(* FileLogger: log(), error() and the others put a job at the end of a     *)
(* chain of promises; a job makes the directory, looks at the size of the  *)
(* file, renames it to an archive when the line would not fit, and appends *)
(* the line.  Each of those calls may fail, and the process may stop with  *)
(* jobs in the chain.  The archive's name is the local time to the         *)
(* millisecond.                                                            *)
(*                                                                         *)
(* A line is its number in the order of the calls.  The parts of a line    *)
(* are formatLine's, over the values of optionalParams.                    *)
(***************************************************************************)
EXTENDS Integers, Sequences, SequencesExt, FiniteSets

CONSTANTS
    MaxLines,     \* calls of the logger (a bound of the model)
    MaxSize,      \* lines have 1 .. MaxSize bytes
    MaxFileSize,  \* maxFileSizeBytes
    MaxNow,       \* bound: milliseconds that pass
    MaxErrors     \* bound: calls that fail, and restarts

ASSUME LoggerAssumption ==
    /\ MaxLines \in Nat /\ MaxSize \in Nat /\ MaxFileSize \in Nat
    /\ MaxNow \in Nat /\ MaxErrors \in Nat

Lines == 1 .. MaxLines

VARIABLES
    sizes,     \* sizes[k]: the size of the k-th line that was logged
    chain,     \* jobs that are not done, the first of them is under way
    at,        \* what that job awaits
    archive,   \* the name getArchiveFileName gave it
    current,   \* the current file: its lines, and its size
    archives,  \* archives[t]: the archive of the moment t, if any
    now,       \* new Date()
    errors,    \* history: how many calls failed
    excused    \* history: lines whose own job failed or was cut off, or
               \* whose archive was renamed over

logVars == <<sizes, chain, at, archive, current, archives, now, errors, excused>>

Moments == 0 .. MaxNow

\* A file as the file system has it.  NoFile is one that is not there.
NoFile == [lines |-> <<>>, bytes |-> 0]
With(file, k) == [lines |-> Append(file.lines, k), bytes |-> file.bytes + sizes[k]]

LogInit ==
    /\ sizes = <<>> /\ chain = <<>> /\ at = "mkdir" /\ archive = 0
    /\ current = NoFile /\ archives = [t \in Moments |-> NoFile]
    /\ now = 0 /\ errors = 0 /\ excused = {}
-----------------------------------------------------------------------------
\* enqueueWrite: the call returns, the job is at the end of the chain.
EnqueueWrite ==
    /\ Len(sizes) < MaxLines
    /\ \E size \in 1 .. MaxSize : sizes' = Append(sizes, size)
    /\ chain' = Append(chain, Len(sizes'))
    /\ UNCHANGED <<at, archive, current, archives, now, errors, excused>>

Goes(label) == at' = label /\ UNCHANGED chain
\* The job is over, the next one starts.
JobEnds == at' = "mkdir" /\ chain' = Tail(chain)
Fails == errors < MaxErrors /\ errors' = errors + 1

Mkdir ==
    /\ chain # <<>> /\ at = "mkdir"
    /\ Goes("stat")
    /\ UNCHANGED <<sizes, archive, current, archives, now, errors, excused>>

\* prepareWritableFile: a file that the line does not fit into is renamed.  A
\* file that is not there makes stat throw, as any error: append to the path.
Stat ==
    /\ chain # <<>> /\ at = "stat"
    /\ IF current # NoFile /\ current.bytes + sizes[Head(chain)] > MaxFileSize
       THEN Goes("rename") /\ archive' = now
       ELSE Goes("append") /\ UNCHANGED archive
    /\ UNCHANGED <<sizes, current, archives, now, errors, excused>>

\* rename replaces a file that has that name already.
Rename ==
    /\ chain # <<>> /\ at = "rename"
    /\ archives' = [archives EXCEPT ![archive] = current]
    /\ excused' = excused \union ToSet(archives[archive].lines)
    /\ current' = NoFile
    /\ Goes("append")
    /\ UNCHANGED <<sizes, archive, now, errors>>

\* prepareWritableFile has a catch: the line goes to the current file.
PrepareFails ==
    /\ chain # <<>> /\ at \in {"stat", "rename"}
    /\ Fails
    /\ Goes("append")
    /\ UNCHANGED <<sizes, archive, current, archives, now, excused>>

AppendLine ==
    /\ chain # <<>> /\ at = "append"
    /\ current' = With(current, Head(chain))
    /\ JobEnds
    /\ UNCHANGED <<sizes, archive, archives, now, errors, excused>>

\* Mutant: without the catch in enqueueWrite the chain stays rejected.
WriteFailsForGood ==
    /\ chain # <<>> /\ at \in {"mkdir", "append"}
    /\ Fails
    /\ excused' = excused \union {Head(chain)}
    /\ at' = "mkdir" /\ chain' = <<>>
    /\ UNCHANGED <<sizes, archive, current, archives, now>>

\* The job is rejected; enqueueWrite catches that, and the chain goes on.
WriteFails ==
    /\ chain # <<>> /\ at \in {"mkdir", "append"}
    /\ Fails
    /\ excused' = excused \union {Head(chain)}
    /\ JobEnds
    /\ UNCHANGED <<sizes, archive, current, archives, now>>

\* The process stops and starts again: nobody has flushed.
Restart ==
    /\ Fails
    /\ excused' = excused \union ToSet(chain)
    /\ chain' = <<>> /\ at' = "mkdir"
    /\ UNCHANGED <<sizes, archive, current, archives, now>>

\* Time passes; the clock is not set back.
Tick ==
    /\ now < MaxNow
    /\ now' = now + 1
    /\ UNCHANGED <<sizes, chain, at, archive, current, archives, errors, excused>>

LogJob == Mkdir \/ Stat \/ Rename \/ AppendLine \/ PrepareFails \/ WriteFails

LogNext == EnqueueWrite \/ LogJob \/ Restart \/ Tick

LogSpec == LogInit /\ [][LogNext]_logVars
-----------------------------------------------------------------------------
Files == [lines : Seq(Lines), bytes : Nat]

LogTypeOK ==
    /\ sizes \in Seq(1 .. MaxSize) /\ Len(sizes) <= MaxLines
    /\ chain \in Seq(Lines)
    /\ at \in {"mkdir", "stat", "rename", "append"}
    /\ archive \in Moments /\ now \in Moments
    /\ current \in Files /\ archives \in [Moments -> Files]
    /\ errors \in 0 .. MaxErrors /\ excused \subseteq Lines

\* The archives in the order of their names, then the current file.
Places == 0 .. MaxNow + 1
FileAt(place) == IF place \in Moments THEN archives[place] ELSE current

\* The archives and the current file, read in that order, hold the lines in
\* the order they were logged in, each once.
LinesInOrder ==
    \A p, q \in Places :
        LET earlier == FileAt(p).lines
            later == FileAt(q).lines
        IN \A i \in 1 .. Len(earlier), j \in 1 .. Len(later) :
              p < q \/ (p = q /\ i < j) => earlier[i] < later[j]

\* A line that is done and in no file failed itself: an error costs no other
\* line.
LinesKept ==
    \A k \in 1 .. Len(sizes) :
        \/ k \in excused \union ToSet(chain)
        \/ \E p \in Places : k \in ToSet(FileAt(p).lines)

\* As long as nothing fails, no file is larger than its limit but for one
\* that a single line fills.
FilesFitLimit ==
    errors = 0 =>
        \A p \in Places : FileAt(p).bytes > MaxFileSize => Len(FileAt(p).lines) = 1

\* Rotation neither loses nor reorders lines, and does what it is for.
LogIsWhole == LinesInOrder /\ LinesKept /\ FilesFitLimit
=============================================================================

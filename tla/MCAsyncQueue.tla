---------------------------- MODULE MCAsyncQueue ----------------------------
(***************************************************************************)
(* The two queues of the process: AsyncQueueRun with a handful of distinct *)
(* events, and the chain of writes of FileLogger.  They share no state:    *)
(* one run checks both, each behaviour is one of the queue or of the log.  *)
(***************************************************************************)
EXTENDS AsyncQueueRun, FileLogger

VARIABLE part   \* the part that moves

EitherNext ==
    \/ part = "events" /\ Next /\ UNCHANGED <<part, logVars>>
    \/ part = "log" /\ LogNext /\ UNCHANGED <<part, vars>>

EitherInit == Init /\ LogInit /\ part \in {"events", "log"}

EitherSpec ==
    /\ EitherInit
    /\ [][EitherNext]_<<part, vars, logVars>>
    /\ WF_vars(part = "events" /\ Reader)
=============================================================================

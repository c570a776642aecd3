--------------------------- MODULE AsyncQueueRun ---------------------------
(***************************************************************************)
(* One AsyncQueue in use, as streamExecute uses it: the background task    *)
(* pushes the events of its run and ends or fails the queue once, the      *)
(* gateway's for-await loop takes them.  A push may also come after the    *)
(* end: another run of the session that took this run's hooks from         *)
(* sessionStreamHooks pushes here, too.                                    *)
(***************************************************************************)
EXTENDS AsyncQueue

CONSTANT Events       \* the events that may be pushed, each at most once

VARIABLES
    queue,            \* the AsyncQueue
    sent,             \* history: events in the order they were pushed
    got               \* history: events in the order the loop body got them

vars == <<queue, sent, got>>

Pushed(e) == \E i \in 1 .. Len(sent) : sent[i] = e

Init ==
    /\ queue = NewQueue
    /\ sent = <<>>
    /\ got = <<>>

\* queue.push(event): a hook, or the background loop.
PushEvent(e) ==
    /\ ~Pushed(e)
    /\ queue' = Push(queue, e)
    /\ sent' = Append(sent, e)
    /\ UNCHANGED got

\* graph.stream is exhausted, or threw.
EndRun ==
    /\ ~queue.done
    /\ queue' = End(queue)
    /\ UNCHANGED <<sent, got>>

FailRun ==
    /\ ~queue.done
    /\ queue' = Fail(queue)
    /\ UNCHANGED <<sent, got>>

\* The generator runs until it is suspended again.
TakeEvent ==
    /\ Yields(queue)
    /\ queue' = Yield(queue)
    /\ got' = Append(got, Head(queue.items))
    /\ UNCHANGED sent

Wait ==
    /\ Parks(queue)
    /\ queue' = Park(queue)
    /\ UNCHANGED <<sent, got>>

Stop ==
    /\ Finishes(queue)
    /\ queue' = Finish(queue)
    /\ UNCHANGED <<sent, got>>

\* The loop body finishes with an event, or throws.
BodyDone ==
    /\ queue.reader = "holding"
    /\ queue' = AskAgain(queue)
    /\ UNCHANGED <<sent, got>>

BodyThrows ==
    /\ queue.reader = "holding"
    /\ queue' = Abandon(queue)
    /\ UNCHANGED <<sent, got>>

Reader == TakeEvent \/ Wait \/ Stop \/ BodyDone

Next ==
    \/ \E e \in Events : PushEvent(e)
    \/ EndRun
    \/ FailRun
    \/ Reader
    \/ BodyThrows

\* A resolved promise is continued and a loop body comes to its end, one way
\* or the other; the run need not end.
Spec == Init /\ [][Next]_vars /\ WF_vars(Reader)
-----------------------------------------------------------------------------
TypeOK ==
    /\ queue \in Queue(Events)
    /\ sent \in Seq(Events)
    /\ got \in Seq(Events)

\* What the loop body got is the beginning of what was pushed and the rest is
\* still stored: nothing lost, doubled or out of order.
FirstInFirstOut == sent = got \o queue.items

\* The generator never sleeps on an event or on the end of the queue, and
\* there is a resolve function for it to be woken by as long as it sleeps.
NoLostWakeup ==
    /\ queue.reader = "parked" <=> queue.waiters > 0
    /\ queue.reader = "parked" => queue.items = <<>> /\ ~queue.done

\* The stream that streamExecute promises.
Stream == INSTANCE EventStream WITH
    Item <- Events,
    pending <- queue.items,
    closing <- IF ~queue.done THEN "open" ELSE IF queue.err THEN "failed" ELSE "ended",
    reading <- IF queue.reader \in {"returned", "threw", "gone"}
               THEN queue.reader ELSE "yes"

\* The class implements the stream, its liveness included.
ImplementsStream == Stream!Spec

ImplementsStreamSafely == Stream!SafeSpec
=============================================================================

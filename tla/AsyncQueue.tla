----------------------------- MODULE AsyncQueue -----------------------------
(***************************************************************************)
(* The AsyncQueue class of orchestration.service.ts: the buffer between a  *)
(* workflow run, which pushes events, and the gateway's for-await loop,    *)
(* which takes them.  A queue is a record; the operators are its methods   *)
(* and the segments of its async generator between two suspensions.        *)
(*                                                                         *)
(* reader is the state of the one generator that iterates over the queue:  *)
(*   "asking"   running, or resumed and about to test its loop conditions  *)
(*   "parked"   suspended on a promise whose resolve is in waiters         *)
(*   "holding"  suspended in yield, the loop body has the item             *)
(*   "returned", "threw"   finished                                        *)
(*   "gone"     finished early: the loop body threw                        *)
(***************************************************************************)
EXTENDS Integers, Sequences

NewQueue ==
    [items |-> <<>>, waiters |-> 0, done |-> FALSE, err |-> FALSE,
     reader |-> "asking"]

Queue(Item) ==
    [items : Seq(Item), waiters : Nat, done : BOOLEAN, err : BOOLEAN,
     reader : {"asking", "parked", "holding", "returned", "threw", "gone"}]

\* Calling n of the resolve functions in waiters.  A resolve whose generator
\* is not suspended on it any more has no effect.
Wake(q, n) ==
    [q EXCEPT !.waiters = IF n < @ THEN @ - n ELSE 0,
              !.reader = IF q.waiters > 0 /\ n > 0 /\ @ = "parked" THEN "asking" ELSE @]

\* Mutant: push without waiters.shift()?.().
PushSilently(q, item) == [q EXCEPT !.items = Append(@, item)]

\* push: store the item, resolve the oldest waiter if there is one.
Push(q, item) == Wake([q EXCEPT !.items = Append(@, item)], 1)

\* end: resolve all waiters.
End(q) == Wake([q EXCEPT !.done = TRUE], q.waiters)

\* fail: as end, and remember the error.
Fail(q) == Wake([q EXCEPT !.err = TRUE, !.done = TRUE], q.waiters)

\* The generator's loop, from a resumption to the next suspension: items are
\* drained before done is looked at, and only an open, empty queue is waited
\* for.
Yields(q) == q.reader = "asking" /\ q.items # <<>>

Yield(q) == [q EXCEPT !.items = Tail(@), !.reader = "holding"]

\* Mutant: done is looked at before the items are drained.
FinishesEarly(q) == q.reader = "asking" /\ q.done

Finishes(q) == q.reader = "asking" /\ q.items = <<>> /\ q.done

Finish(q) == [q EXCEPT !.reader = IF q.err THEN "threw" ELSE "returned"]

Parks(q) == q.reader = "asking" /\ q.items = <<>> /\ ~q.done

Park(q) == [q EXCEPT !.waiters = @ + 1, !.reader = "parked"]

\* The loop body is done with the item and calls next().
AskAgain(q) == [q EXCEPT !.reader = "asking"]

\* The loop body threw: for await calls return() on the generator.
Abandon(q) == [q EXCEPT !.reader = "gone"]
=============================================================================

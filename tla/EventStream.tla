---------------------------- MODULE EventStream ----------------------------
(***************************************************************************)
(* What streamExecute promises its caller: a first-in first-out stream of  *)
(* events that can be closed once, normally or with an error.  Whoever     *)
(* keeps reading gets every event sent before the close, then learns of    *)
(* the close; an error is reported only after the last event.              *)
(***************************************************************************)
EXTENDS Sequences

CONSTANT Item

VARIABLES
    pending,  \* events sent and not yet delivered
    closing,  \* "open", "ended" or "failed"
    reading   \* "yes", "returned", "threw" or "gone"

vars == <<pending, closing, reading>>

Init ==
    /\ pending = <<>>
    /\ closing = "open"
    /\ reading = "yes"

Send ==
    /\ \E e \in Item : pending' = Append(pending, e)
    /\ UNCHANGED <<closing, reading>>

Close ==
    /\ closing = "open"
    /\ closing' \in {"ended", "failed"}
    /\ UNCHANGED <<pending, reading>>

Deliver ==
    /\ reading = "yes" /\ pending # <<>>
    /\ pending' = Tail(pending)
    /\ UNCHANGED <<closing, reading>>

Report ==
    /\ reading = "yes" /\ pending = <<>>
    /\ closing # "open"
    /\ reading' = IF closing = "failed" THEN "threw" ELSE "returned"
    /\ UNCHANGED <<pending, closing>>

\* The reader may stop before the stream is closed.
Leave ==
    /\ reading = "yes"
    /\ reading' = "gone"
    /\ UNCHANGED <<pending, closing>>

Next == Send \/ Close \/ Deliver \/ Report \/ Leave

SafeSpec == Init /\ [][Next]_vars

Spec == SafeSpec /\ WF_vars(Deliver \/ Report)
=============================================================================

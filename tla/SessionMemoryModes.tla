------------------------- MODULE SessionMemoryModes -------------------------
(***************************************************************************)
(* Two ways to use one session.  The serial one: messages that are sent    *)
(* one after the other, without faults, and a key that expires only while  *)
(* nothing is under way; it is what the module's own constants say.  The   *)
(* busy one, with limits of its own: messages that are handled at once,    *)
(* with eager expiry, failures and crashes.  A behaviour is of one mode.   *)
(***************************************************************************)
EXTENDS SessionMemory

CONSTANTS BusyRounds, BusyMessages, BusyHistory, BusyBlank

VARIABLE serial   \* the mode

Busy == INSTANCE SessionMemory WITH
    Rounds <- BusyRounds, MaxMessages <- BusyMessages, MaxHistory <- BusyHistory,
    Blank <- BusyBlank, Serial <- FALSE, EagerExpiry <- TRUE, Faults <- TRUE

ModesNext ==
    \/ serial /\ Next /\ UNCHANGED serial
    \/ ~serial /\ Busy!Next /\ UNCHANGED serial

ModesInit == Init /\ serial \in BOOLEAN

ModesSpec ==
    /\ ModesInit
    /\ [][ModesNext]_<<vars, serial>>
    /\ \A h \in Handlers : WF_vars(serial /\ Step(h)) /\ WF_vars(serial /\ Mirror(h))

\* One message at a time: as long as the cached list holds the conversation,
\* the agents are given its end, expiry included (ContextIsHistory).
SerialContext == serial => ContextIsHistory

\* One message at a time: every turn that was appended reaches PostgreSQL.
SerialMirrored == serial => EveryTurnMirrored
=============================================================================

------------------------ MODULE MCSessionMemoryModes ------------------------
(***************************************************************************)
(* An instance of SessionMemoryModes for TLC: two messages of one session. *)
(***************************************************************************)
EXTENDS SessionMemoryModes

CONSTANTS h1, h2

TwoHandlers == {h1, h2}

\* The first agent of h1 answers with an empty text.
BlankTurns == {<<h1, 1>>}
=============================================================================

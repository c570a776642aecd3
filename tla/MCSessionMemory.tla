-------------------------- MODULE MCSessionMemory --------------------------
(***************************************************************************)
(* Instances of SessionMemory for TLC: two messages of one session.        *)
(***************************************************************************)
EXTENDS SessionMemory

CONSTANTS h1, h2

TwoHandlers == {h1, h2}

NoBlank == {}
=============================================================================

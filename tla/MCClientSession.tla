--------------------------- MODULE MCClientSession ---------------------------
(***************************************************************************)
(* Two sessions, and lists with none or one of them.                       *)
(***************************************************************************)
EXTENDS ClientSession

CONSTANTS s1, s2

TwoSessions == {s1, s2}
SomeLists == {<<>>, <<s1>>}
=============================================================================

-------------------------- MODULE MCOrchestration --------------------------
(***************************************************************************)
(* Two agents, known by their names.                                       *)
(***************************************************************************)
EXTENDS OrchestrationRuns, TLC

CONSTANTS c, x, h1, h2, s1, s2

\* A turn ends the run, hands off, or ends it after a review.
Plain == {[review |-> FALSE, handoff |-> None],
          [review |-> FALSE, handoff |-> "Codex"],
          [review |-> TRUE, handoff |-> None]}
TwoHandlers == {h1, h2}
\* h1 answers with a blank text first.
BlankTurn == {<<h1, 1>>}
NoTurn == {}
TwoAgents == {c, x}
TwoNames == {"Claude", "Codex"}
Lookup == [n \in TwoNames |-> IF n = "Claude" THEN c ELSE x]
ProperName == [a \in TwoAgents |-> IF a = c THEN "Claude" ELSE "Codex"]
OneSession == {s1}
TwoSessions == {s1, s2}
Alike == Permutations(TwoSessions)
=============================================================================

--------------------------- MODULE MCWorkflowRun ---------------------------
(***************************************************************************)
(* Two agents; "claude" is a second spelling of Claude's name, "bard" is   *)
(* nobody's.                                                               *)
(***************************************************************************)
EXTENDS WorkflowRun

CONSTANTS c, x    \* the adapters

TwoAgents == {c, x}
FourNames == {"Claude", "claude", "Codex", "bard"}
Lookup == [n \in FourNames |-> CASE n \in {"Claude", "claude"} -> c
                                 [] n = "Codex" -> x
                                 [] OTHER -> None]
ProperName == [a \in TwoAgents |-> IF a = c THEN "Claude" ELSE "Codex"]
=============================================================================

---------------------------- MODULE MCAgentTurn ----------------------------
\* Instances of AgentTurn: one turn or two, in up to two sessions.
EXTENDS AgentTurn

CONSTANTS t1, t2, s1, s2

OneTurn == {t1}
TwoTurns == {t1, t2}
TwoSessions == {s1, s2}
=============================================================================

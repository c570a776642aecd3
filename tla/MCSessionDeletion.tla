------------------------- MODULE MCSessionDeletion -------------------------
EXTENDS SessionDeletion

CONSTANTS r1, r2, m1, m2

TwoRequests == {r1, r2}
OneRequest == {r1}
OneMessage == {m1}
TwoMessages == {m1, m2}
NoMessage == {}
=============================================================================

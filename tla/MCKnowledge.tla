---------------------------- MODULE MCKnowledge ----------------------------
EXTENDS Knowledge

CONSTANTS c1, c2, e1, e2

MCColony == {c1, c2}
MCEntry  == {e1, e2}
MCOld    == {e1}
MCSecret == {e2}

\* c1 retrieved e1 in two rounds and e2 in between, c2 retrieved e1 only.
MCAccesses(c) == IF c = c1 THEN <<e1, e2, e1>> ELSE <<e1>>
=============================================================================

----------------------------- MODULE MCQueenTurn -----------------------------
EXTENDS QueenTurn

CONSTANTS a1

MCCaller == Turn \cup {a1}

Kind(d, w, l) == [deliberate |-> d, work |-> w, question |-> FALSE, long |-> l]

\* Long colony work, and deliberation.
MCMessage == {Kind(FALSE, TRUE, TRUE), Kind(TRUE, FALSE, FALSE)}
=============================================================================

---------------------------- MODULE MCExtraction ----------------------------
EXTENDS Extraction

CONSTANTS c1, c2

TwoColonies == {c1, c2}
=============================================================================

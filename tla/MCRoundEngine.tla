---------------------------- MODULE MCRoundEngine ----------------------------
EXTENDS RoundEngine

CONSTANTS a1, a2, a3

MCAgent == {a1, a2, a3}

\* One needs two, one of whom needs the other; a cycle that a third one needs.
MCTopology == {{<<a1, a2>>, <<a2, a3>>, <<a1, a3>>},
               {<<a1, a2>>, <<a2, a1>>, <<a2, a3>>}}
=============================================================================

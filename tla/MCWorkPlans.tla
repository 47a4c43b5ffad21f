---------------------------- MODULE MCWorkPlans ----------------------------
EXTENDS WorkPlans

CONSTANTS c1, c2, t1, t2, t3

MCColony == {c1, c2}
MCTask   == {t1, t2, t3}

\* t1 and t2 are the first group, t2 wants the output of t1, t3 comes later.
MCGroupOf   == (t1 :> 0) @@ (t2 :> 0) @@ (t3 :> 1)
MCInputFrom == (t1 :> {}) @@ (t2 :> {t1}) @@ (t3 :> {t1})
MCEdits     == {"", "pending"}

\* No formula of the module tells one colony from another.
ColonySymmetry == Permutations(MCColony)
=============================================================================

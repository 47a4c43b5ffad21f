-------------------------- MODULE MCColonyLifecycle --------------------------
(* Model checking of ColonyLifecycle: colonies are interchangeable, and so  *)
(* are clients.                                                             *)
EXTENDS ColonyLifecycle, TLC

Symmetry == Permutations(Colony) \cup Permutations(Client)
=============================================================================

----------------------------- MODULE MCAutonomy -----------------------------
EXTENDS Autonomy

(* Every insight suggests a colony on paid models; approved actions run     *)
(* uncharged whatever they cost.                                            *)
MCCosts == {1}
=============================================================================

-------------------------- MODULE MCGOptimizerPars --------------------------
(* Model values of GOptimizerPars for TLC.                                 *)
EXTENDS GOptimizerPars, TLC, FiniteSets

Symmetry ==
    Permutations(Containers) \cup Permutations(Heap) \cup Permutations(ClientPars)
=============================================================================

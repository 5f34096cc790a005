------------------------------ MODULE MCGVOHub ------------------------------
(* A hub with a few programs, for TLC.                                     *)
EXTENDS GVOHub, TLC

AllEvents == {Events}
NoEvents  == {}
InTwoParts == {Events, {"register"}, {"unregister", "metadata"}}

AgentSymmetry == Permutations(Agents)
=============================================================================

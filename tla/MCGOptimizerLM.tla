--------------------------- MODULE MCGOptimizerLM ---------------------------
(* A small fit for TLC: two parameters, and functions with the features    *)
(* that make the optimizer branch.                                         *)
EXTENDS GOptimizerLM

(* From p: a slope towards the minimum of parameter 1, a valley inside the *)
(* range, and a plateau with a ridge that a tolerated step can cross.      *)
Slope   == [x \in Positions |-> 2 * x[1] + x[NPars]]
Ridge   == [x \in Positions |->
              IF x[1] = 1 THEN 5 ELSE IF x[1] = 0 THEN 1 ELSE 3]
Plateau == [x \in Positions |-> IF x[NPars] = 0 THEN 0 ELSE 2]

MCLandscapes == {Slope, Ridge, Plateau}
MCStarts     == {[p \in Pars |-> MaxPos], [p \in Pars |-> 1]}
OneStart     == {[p \in Pars |-> MaxPos]}
OneLandscape == {Slope}
=============================================================================

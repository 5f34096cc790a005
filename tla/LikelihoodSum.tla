---------------------------- MODULE LikelihoodSum ----------------------------
(***************************************************************************)
(* What the evaluation of the likelihood promises to a fit: it ends, and   *)
(* then every result is the sum over all observations, each counted once,  *)
(* and so are the gradients of the parameters.  How the sums are computed, *)
(* and by how many threads, is not part of it.                             *)
(***************************************************************************)
CONSTANTS
    Quantities,    \* the results: value, gradient, ...
    Nothing,       \* the sum over no observation
    Everything     \* the sum over all observations

VARIABLES
    phase,         \* "ready", "busy" or "dead"
    total,         \* the results; they may not be used while busy
    gradients      \* what the free parameters have as their gradients

vars == <<phase, total, gradients>>

Init ==
    /\ phase = "ready"
    /\ total = [q \in Quantities |-> Nothing]
    /\ gradients = Nothing

Begin ==
    /\ phase = "ready"
    /\ phase' = "busy"
    /\ total' = [q \in Quantities |-> Nothing]
    /\ UNCHANGED gradients

End ==
    /\ phase = "busy"
    /\ phase' = "ready"
    /\ total' = [q \in Quantities |-> Everything]
    /\ gradients' = Everything

(* An exception of an observation ends the program.                        *)
Die ==
    /\ phase = "busy"
    /\ phase' = "dead"
    /\ UNCHANGED <<total, gradients>>

Next == Begin \/ End \/ Die

Safe == Init /\ [][Next]_vars

Spec == Safe /\ WF_vars(End \/ Die)
=============================================================================

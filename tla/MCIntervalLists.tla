--------------------------- MODULE MCIntervalLists ---------------------------
(* Intervals with even bounds, between which there are other instants.     *)
EXTENDS IntervalLists

AllInstants == 0..6
EvenBounds == {0, 2, 4, 6}

Of(a, b) == [start |-> a, stop |-> b]

TwoLists == {<<Of(0, 2), Of(4, 6)>>, <<Of(4, 4), Of(0, 4)>>}
=============================================================================

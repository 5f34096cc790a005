--------------------------- MODULE MCGMatrixSparse ---------------------------
(* A matrix of three rows and two columns, for TLC.                        *)
EXTENDS GMatrixSparse

TwoVectors == {[r \in Rows |-> IF r = 0 THEN 0 ELSE -1], [r \in Rows |-> 0]}

SomeArrays == {[r \in S |-> 1] : S \in {{0}, Rows}}

OneOperand == {[c \in Cols |-> [r \in Rows |-> IF r = c THEN 1 ELSE 0]]}
=============================================================================

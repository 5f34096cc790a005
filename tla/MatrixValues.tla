---------------------------- MODULE MatrixValues ----------------------------
(***************************************************************************)
(* What a matrix of GammaLib promises to those who use it: a value for     *)
(* every row and column, and calls that take effect at once.  How the      *)
(* values are kept, and when, is not part of it.                           *)
(***************************************************************************)
EXTENDS Integers

CONSTANTS
    Rows, Cols,    \* the indices
    Vectors,       \* the vectors that are set or added, one integer per row
    Scalars,       \* the values that single elements are set to
    Operands       \* the matrices that are added

VARIABLE value     \* value[c][r]: the element in row r and column c

Init == value = [c \in Cols |-> [r \in Rows |-> 0]]

(* matrix(row, column) = v                                                 *)
Assign(r, c, v) == value' = [value EXCEPT ![c][r] = v]

(* matrix = v                                                              *)
AssignAll(v) == value' = [c \in Cols |-> [r \in Rows |-> v]]

(* matrix.column(column, vector)                                           *)
SetColumn(c, v) == value' = [value EXCEPT ![c] = v]

(* matrix.add_to_column(column, vector)                                    *)
AddToColumn(c, v) ==
    value' = [value EXCEPT ![c] = [r \in Rows |-> value[c][r] + v[r]]]

(* matrix += operand                                                       *)
AddMatrix(b) ==
    value' = [c \in Cols |-> [r \in Rows |-> value[c][r] + b[c][r]]]

Next ==
    \/ \E r \in Rows, c \in Cols, v \in Scalars : Assign(r, c, v)
    \/ \E v \in Scalars : AssignAll(v)
    \/ \E c \in Cols, v \in Vectors : SetColumn(c, v) \/ AddToColumn(c, v)
    \/ \E b \in Operands : AddMatrix(b)

Spec == Init /\ [][Next]_value
=============================================================================

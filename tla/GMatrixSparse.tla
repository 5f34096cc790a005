---------------------------- MODULE GMatrixSparse ----------------------------
(***************************************************************************)
(* The sparse matrix (src/src/linalg/GMatrixSparse.cpp): columns in        *)
(* compressed form, one pending element, and the stack of columns that are *)
(* to be added.  An element that is set where there is none is kept apart  *)
(* until the next call; a column that is added is pushed on the stack and  *)
(* mixed into the matrix when the stack is full.                           *)
(*                                                                         *)
(* A compressed column is a function from the rows that have an element to *)
(* the values of these elements; in the code it is a stretch of m_data and *)
(* m_rowinx between two entries of m_colstart, sorted by row.              *)
(***************************************************************************)
EXTENDS Integers, Sequences, FiniteSets

CONSTANTS
    NRows, NCols,  \* dimensions of the matrix
    MaxEntries,    \* columns that the stack holds at most
    StackSize,     \* elements that the stack holds at most
    Scalars,       \* values of single elements
    Vectors,       \* vectors, one integer per row
    Arrays,        \* compressed arrays, at least one element each
    Operands,      \* matrices that are added as a whole
    Careful,       \* the client avoids what the matrix miscounts or mislays
    MaxCalls       \* bound: number of calls

Rows == 0..(NRows - 1)
Cols == 0..(NCols - 1)

(* A compressed column: elements in some of the rows.                      *)
IsColumn(a) == DOMAIN a \subseteq Rows /\ a \in [DOMAIN a -> Int]

ASSUME DimensionAssumption ==
    /\ {NRows, NCols, MaxEntries, StackSize} \subseteq Nat \ {0}
    /\ MaxCalls \in Nat /\ Careful \in BOOLEAN
ASSUME DataAssumption ==
    /\ Scalars \subseteq Int
    /\ Vectors \subseteq [Rows -> Int]
    /\ \A a \in Arrays : IsColumn(a) /\ DOMAIN a # {}
    /\ Operands \subseteq [Cols -> [Rows -> Int]]

VARIABLES
    column,        \* the compressed columns
    m_elements,    \* what the matrix takes for the number of its elements
    fill,          \* the pending element; none when its value is 0
    has_stack,     \* stack_init() was called
    stack,         \* the entries; an obsolete one has column -1
    used,          \* m_stack_start[m_stack_entries]: elements on the stack
    calls          \* number of calls

vars == <<column, m_elements, fill, has_stack, stack, used, calls>>

NoFill == [val |-> 0, row |-> 0, col |-> 0]
Pending(val, row, col) == IF val = 0 THEN NoFill
                          ELSE [val |-> val, row |-> row, col |-> col]

NoElements == [r \in {} |-> 0]

(* What is in a compressed column at a row.                                *)
At(a, r) == IF r \in DOMAIN a THEN a[r] ELSE 0

NonZero(v) == {r \in Rows : v[r] # 0}
Compress(v) == [r \in NonZero(v) |-> v[r]]

(* In m_data, elements are ordered by column, and by row in a column:      *)
(* m_colstart[n] is the number of elements in the first n columns.         *)
Elements(cols, n) == UNION {{c} \X DOMAIN cols[c] : c \in 0..(n - 1)}

m_colstart(cols, n) == Cardinality(Elements(cols, n))

Stored == m_colstart(column, NCols)

Init ==
    /\ column = [c \in Cols |-> NoElements]
    /\ m_elements = 0
    /\ fill = NoFill
    /\ has_stack = FALSE
    /\ stack = <<>>
    /\ used = 0
    /\ calls = 0

-----------------------------------------------------------------------------
(* Mixing of columns                                                       *)

(* mix_column(): the elements of either, added up where both have one.     *)
Mixed(a, b) ==
    [r \in DOMAIN a \cup DOMAIN b |-> At(a, r) + At(b, r)]

(* mix_column_prepare() counts the elements that mix_column() will yield.  *)
(* It compares the elements it has read, and stops when it has read the    *)
(* last one of either column: the last element of each is left out.        *)
ButLast(S) == {r \in S : \E q \in S : r < q}

Requested(a, b) == Cardinality(ButLast(DOMAIN a) \cup ButLast(DOMAIN b))
OnlySecond(a, b) == ButLast(DOMAIN b) \ ButLast(DOMAIN a)

(* Where the last element of one column is an element of the other, one    *)
(* element is missing from the total, and what is only in the second is    *)
(* counted right.  Where it is not, another one is missing from both.      *)
Counted(S, T) ==
    \/ S = {} \/ T = {}
    \/ \E r \in S \cap T : r \notin ButLast(S) \/ r \notin ButLast(T)

-----------------------------------------------------------------------------
(* Pending element and columns                                             *)

(* fill_pending(): the element is inserted before the first greater row.   *)
MutantNotFilled(cols) == cols

Filled(cols) ==
    IF fill.val = 0 THEN cols
    ELSE [cols EXCEPT ![fill.col] =
             [r \in DOMAIN @ \cup {fill.row} |-> IF r = fill.row THEN fill.val ELSE @[r]]]

OneIfPending == IF fill.val = 0 THEN 0 ELSE 1

(* column(): overwrites the column and drops a pending element of it.      *)
Overwrite(c, a) ==
    /\ column' = [column EXCEPT ![c] = a]
    /\ m_elements' = m_elements + Cardinality(DOMAIN a)
                                - Cardinality(DOMAIN column[c])
    /\ fill' = IF fill.col = c THEN NoFill ELSE fill

-----------------------------------------------------------------------------
(* Stack                                                                   *)

EntriesOf(c) == {e \in DOMAIN stack : stack[e].col = c}

(* What the stack holds for a column; nothing when there is no entry.      *)
OnStack(c) ==
    IF EntriesOf(c) = {} THEN NoElements
    ELSE stack[CHOOSE e \in EntriesOf(c) : TRUE].data

(* stack_flush(): all columns are copied to new memory, with what the      *)
(* stack has for them mixed in.  Of a column that has elements already, it *)
(* takes for new what mix_column_prepare() counts.                         *)
MutantCountsMix(c) == OnlySecond(Filled(column)[c], OnStack(c))

NewElements(c) ==
    LET a == Filled(column)[c]
    IN  IF DOMAIN a = {} THEN DOMAIN OnStack(c) ELSE OnlySecond(a, OnStack(c))

Flush ==
    /\ column' = [c \in Cols |-> Mixed(Filled(column)[c], OnStack(c))]
    /\ m_elements' = m_elements + OneIfPending
          + Cardinality(UNION {{c} \X NewElements(c) : c \in Cols})
    /\ fill' = NoFill

(* stack_push_column(): the stack is flushed when it has too many entries  *)
(* or too little room, for the array or for its mix with the column that   *)
(* is on the stack already.                                                *)
MutantFillsUp(c, a) ==
    LET free == StackSize - used
    IN  \/ Len(stack) >= MaxEntries
        \/ Cardinality(DOMAIN a) >= free
        \/ \E e \in EntriesOf(c) : Requested(stack[e].data, a) > free

Full(c, a) ==
    LET free == StackSize - used
    IN  \/ Len(stack) >= MaxEntries
        \/ Cardinality(DOMAIN a) >= free
        \/ \E e \in EntriesOf(c) : Requested(stack[e].data, a) >= free

(* A column that is on the stack is mixed into a new entry, and the old    *)
(* entry becomes obsolete.                                                 *)
MutantBothValid(c) == stack

Outdated(c) ==
    [e \in DOMAIN stack |->
        IF stack[e].col = c THEN [stack[e] EXCEPT !.col = -1] ELSE stack[e]]

Entry(c, a) == [col |-> c, data |-> a]

Push(c, a) ==
    IF Full(c, a)
    THEN /\ Flush
         /\ stack' = <<Entry(c, a)>>
         /\ used' = Cardinality(DOMAIN a)
    ELSE /\ stack' = Append(Outdated(c), Entry(c, Mixed(OnStack(c), a)))
         /\ used' = used + Cardinality(DOMAIN Mixed(OnStack(c), a))
         /\ UNCHANGED <<column, m_elements, fill>>

TakenByStack(S) == has_stack /\ Cardinality(S) <= StackSize

-----------------------------------------------------------------------------
(* Calls                                                                   *)

(* After elements were written beyond the stack, nothing is known.         *)
Call == used <= StackSize /\ calls < MaxCalls /\ calls' = calls + 1

(* A client flushes the stack before it uses the matrix in another way, as *)
(* the class asks for.                                                     *)
Flushed == stack = <<>>

(* Where more elements are stored than the matrix believes to have, it     *)
(* loses elements in an insertion and mistakes one of them in a reading.   *)
(* Such a matrix is modelled as far as it is filled through its stack and  *)
(* read; what an insertion leaves of it is not.                            *)
Trusted == Stored <= m_elements

(* A careful client pushes rows on the stack only where at most one element*)
(* is missing from any count that this leads to: the count of the room for *)
(* a mix on the stack, and the count of the new elements in a flush, which *)
(* may come before the push or after it.                                   *)
Countable(c, S) ==
    LET inMatrix == DOMAIN Filled(column)[c]
        onStack  == DOMAIN OnStack(c)
    IN  /\ Counted(onStack, S)
        /\ Counted(inMatrix, onStack \cup S)
        /\ Counted(inMatrix \cup onStack, S)

(* m(row,column) = v                                                       *)
Assign(r, c, v) ==
    LET cols == Filled(column)
    IN  /\ Call /\ Flushed /\ Trusted
        /\ IF r \in DOMAIN cols[c]
           THEN /\ column' = [cols EXCEPT ![c][r] = v]
                /\ fill' = NoFill
           ELSE /\ column' = cols
                /\ fill' = Pending(v, r, c)
        /\ m_elements' = m_elements + OneIfPending
        /\ UNCHANGED <<has_stack, stack, used>>

(* m = v: the value 0 resets m_colstart, and not m_elements.               *)
AssignAll(v) ==
    /\ Call /\ Flushed /\ Trusted
    /\ column' = [c \in Cols |-> IF v = 0 THEN NoElements ELSE [r \in Rows |-> v]]
    /\ m_elements' = IF v = 0 THEN m_elements + OneIfPending
                     ELSE m_elements - Stored + NRows * NCols
    /\ fill' = NoFill
    /\ UNCHANGED <<has_stack, stack, used>>

(* column() for a vector leaves out the zeros, for an array it keeps them. *)
SetColumn(c, v) ==
    /\ Call /\ Flushed /\ Trusted
    /\ Overwrite(c, Compress(v))
    /\ UNCHANGED <<has_stack, stack, used>>

SetColumnArray(c, a) ==
    /\ Call /\ Flushed /\ Trusted
    /\ Overwrite(c, a)
    /\ UNCHANGED <<has_stack, stack, used>>

(* The column with the pending element, as a vector.                       *)
WithPending(c) ==
    [r \in Rows |-> At(column[c], r)
                    + IF fill.col = c /\ fill.row = r THEN fill.val ELSE 0]

(* The arrays that a vector is compressed into for the stack have m_cols   *)
(* elements: what is written beyond them is not modelled.                  *)
AddVector(c, v) ==
    /\ Call
    /\ has_stack => Cardinality(NonZero(v)) <= NCols
    /\ IF NonZero(v) = {}
       THEN UNCHANGED <<column, m_elements, fill, stack, used>>
       ELSE IF TakenByStack(NonZero(v))
       THEN /\ Careful => Countable(c, NonZero(v))
            /\ Push(c, Compress(v))
       ELSE /\ Trusted
            /\ Careful => EntriesOf(c) = {}
            /\ Overwrite(c, Compress([r \in Rows |-> v[r] + WithPending(c)[r]]))
            /\ UNCHANGED <<stack, used>>
    /\ UNCHANGED has_stack

(* Without a stack, a column that has elements is mixed with the array; the*)
(* pending element is filled in first, but the bounds of the column are    *)
(* those from before.  A column without elements is overwritten.           *)
MutantReplaces(c, a) == Overwrite(c, a)

AddDirectly(c, a) ==
    LET cols == Filled(column)
        read == IF fill.val # 0 /\ fill.col = c
                THEN [r \in ButLast(DOMAIN cols[c]) |-> cols[c][r]]
                ELSE column[c]
    IN  IF DOMAIN column[c] = {}
        THEN Overwrite(c, a)
        ELSE /\ column' = [cols EXCEPT ![c] = Mixed(read, a)]
             /\ m_elements' = m_elements + OneIfPending
                   + Cardinality(DOMAIN Mixed(read, a)) - Cardinality(DOMAIN cols[c])
             /\ fill' = NoFill

(* With an element pending in an earlier column the bounds are off by one, *)
(* which is not modelled.                                                  *)
AddArray(c, a) ==
    /\ Call
    /\ IF TakenByStack(DOMAIN a)
       THEN /\ Careful => Countable(c, DOMAIN a)
            /\ Push(c, a)
       ELSE /\ Trusted
            /\ Careful => EntriesOf(c) = {}
            /\ fill.val # 0 => ~Careful /\ c <= fill.col
            /\ AddDirectly(c, a)
            /\ UNCHANGED <<stack, used>>
    /\ UNCHANGED has_stack

(* m += operand, one column after the other.                               *)
AddMatrix(b) ==
    LET sum(c) == Compress([r \in Rows |-> WithPending(c)[r] + b[c][r]])
    IN  /\ Call /\ Flushed /\ Trusted
        /\ column' = [c \in Cols |-> sum(c)]
        /\ m_elements' = m_elements - Stored + m_colstart(column', NCols)
        /\ fill' = NoFill
        /\ UNCHANGED <<has_stack, stack, used>>

(* stack_init() forgets what is on an old stack.                           *)
StackInit ==
    /\ Call /\ Flushed
    /\ has_stack' = TRUE
    /\ stack' = <<>>
    /\ used' = 0
    /\ UNCHANGED <<column, m_elements, fill>>

StackFlush ==
    /\ Call
    /\ has_stack
    /\ Flush
    /\ stack' = <<>>
    /\ used' = 0
    /\ UNCHANGED has_stack

StackDestroy ==
    /\ Call
    /\ has_stack
    /\ Flush
    /\ has_stack' = FALSE
    /\ stack' = <<>>
    /\ used' = 0

Next ==
    \/ \E r \in Rows, c \in Cols, v \in Scalars : Assign(r, c, v)
    \/ \E v \in Scalars : AssignAll(v)
    \/ \E c \in Cols, v \in Vectors : SetColumn(c, v) \/ AddVector(c, v)
    \/ \E c \in Cols, a \in Arrays : SetColumnArray(c, a) \/ AddArray(c, a)
    \/ \E b \in Operands : AddMatrix(b)
    \/ StackInit \/ StackFlush \/ StackDestroy

Spec == Init /\ [][Next]_vars

-----------------------------------------------------------------------------
(* Properties                                                              *)

(* "Each column occurs only once in the stack": the assumption under which *)
(* stack_flush() mixes one entry into each column, which every sequence of *)
(* pushes, mixes and flushes has to establish.                             *)
ColumnsOnce ==
    \A i, j \in DOMAIN stack :
        stack[i].col = stack[j].col /\ stack[i].col # -1 => i = j

(* The pending element is at a place that has no element, so that filling  *)
(* it in replaces nothing.                                                 *)
PendingIsNew == fill.val # 0 => fill.row \notin DOMAIN column[fill.col]

NothingTwice == ColumnsOnce /\ PendingIsNew

(* No element is written beyond the stack.  The room for a mix is counted  *)
(* one short, and a mix that fills the stack to the last element is not    *)
(* tried: the one makes up for the other, for careful clients.             *)
StackFits == used <= StackSize

(* get_index(): where an element is in m_data; -1 when there is none, and  *)
(* m_elements for the pending one.                                         *)
Index(r, c) ==
    IF fill.val # 0 /\ fill.row = r /\ fill.col = c THEN m_elements
    ELSE IF m_elements > 0 /\ r \in DOMAIN column[c]
    THEN m_colstart(column, c) + Cardinality({q \in DOMAIN column[c] : q < r})
    ELSE -1

(* What the const operator()(row,column) returns: an element at the index  *)
(* m_elements is taken for the pending one.                                *)
Read(r, c) ==
    LET inx == Index(r, c)
    IN  IF inx < 0 THEN 0
        ELSE IF inx = m_elements THEN fill.val
        ELSE column[c][r]

(* The values the matrix stands for: what is read, and what is still on    *)
(* the stack to be added to it.                                            *)
Value == [c \in Cols |-> [r \in Rows |-> Read(r, c) + At(OnStack(c), r)]]

Matrix == INSTANCE MatrixValues
    WITH value <- Value,
         Vectors <- Vectors \cup {[r \in Rows |-> At(a, r)] : a \in Arrays}

(* A matrix that keeps elements pending and columns on its stack, and      *)
(* tells pending elements from others by a number of elements it does not  *)
(* always count right, cannot be told from one where every call takes      *)
(* effect at once, by careful clients.                                     *)
Implements == Matrix!Spec

(* Each call has the effect it promises, and managing the stack has none.  *)
CallsTakeEffect ==
    [][/\ \A r \in Rows, c \in Cols, v \in Scalars :
             Assign(r, c, v) => Matrix!Assign(r, c, v)
       /\ \A v \in Scalars : AssignAll(v) => Matrix!AssignAll(v)
       /\ \A c \in Cols, v \in Vectors :
             /\ SetColumn(c, v) => Matrix!SetColumn(c, v)
             /\ AddVector(c, v) => Matrix!AddToColumn(c, v)
       /\ \A c \in Cols, a \in Arrays :
             LET v == [r \in Rows |-> At(a, r)]
             IN  /\ SetColumnArray(c, a) => Matrix!SetColumn(c, v)
                 /\ AddArray(c, a) => Matrix!AddToColumn(c, v)
       /\ \A b \in Operands : AddMatrix(b) => Matrix!AddMatrix(b)
       /\ StackInit \/ StackFlush \/ StackDestroy => UNCHANGED Value]_vars
=============================================================================

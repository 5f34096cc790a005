------------------------- MODULE GMatrixSparse_proof -------------------------
(***************************************************************************)
(* What holds of the sparse matrix for any dimensions, any values and any  *)
(* sequence of calls.                                                      *)
(***************************************************************************)
EXTENDS GMatrixSparse, FiniteSetTheorems, SequenceTheorems, TLAPS

USE DimensionAssumption

Columns == UNION {[S -> Int] : S \in SUBSET Rows}
Entries == [col : Cols \cup {-1}, data : Columns]

(* What a careful client relies on: the matrix has no more elements than   *)
(* it believes, none is written beyond the stack, and whenever the stack   *)
(* is flushed the new elements are counted right.                          *)
Accounted ==
    /\ Trusted
    /\ StackFits
    /\ \A c \in Cols : Counted(DOMAIN Filled(column)[c], DOMAIN OnStack(c))

IInv ==
    /\ column \in [Cols -> Columns]
    /\ m_elements \in Int
    /\ fill \in [val : Int, row : Rows, col : Cols]
    /\ has_stack \in BOOLEAN
    /\ stack \in Seq(Entries)
    /\ used \in Nat
    /\ ColumnsOnce
    /\ PendingIsNew
    /\ Careful => Accounted

(* What is stored, pending and on the stack: what should be read.          *)
Kept == [c \in Cols |-> [r \in Rows |-> WithPending(c)[r] + At(OnStack(c), r)]]

KeptMatrix == INSTANCE MatrixValues
    WITH value <- Kept,
         Vectors <- Vectors \cup {[r \in Rows |-> At(a, r)] : a \in Arrays}

-----------------------------------------------------------------------------
(* Compressed columns                                                      *)

LEMMA ColumnType ==
    ASSUME NEW a
    PROVE  IsColumn(a) <=> a \in Columns
BY DEF IsColumn, Columns

LEMMA ElementType ==
    ASSUME NEW a \in Columns, NEW r
    PROVE  At(a, r) \in Int
BY DEF At, Columns

LEMMA MixedColumns ==
    ASSUME NEW a \in Columns, NEW b \in Columns
    PROVE  /\ Mixed(a, b) \in Columns
           /\ DOMAIN Mixed(a, b) = DOMAIN a \cup DOMAIN b
           /\ \A r : At(Mixed(a, b), r) = At(a, r) + At(b, r)
<1>1. DOMAIN a \subseteq Rows /\ DOMAIN b \subseteq Rows
  BY DEF Columns
<1>2. \A r : At(a, r) \in Int /\ At(b, r) \in Int
  BY ElementType
<1>3. DOMAIN Mixed(a, b) = DOMAIN a \cup DOMAIN b
  BY DEF Mixed
<1>4. Mixed(a, b) \in [DOMAIN a \cup DOMAIN b -> Int]
  BY <1>2 DEF Mixed
<1>5. Mixed(a, b) \in Columns
  BY <1>1, <1>4 DEF Columns
<1>6. ASSUME NEW r PROVE At(Mixed(a, b), r) = At(a, r) + At(b, r)
  BY DEF Mixed, At
<1> QED
  BY <1>3, <1>5, <1>6

LEMMA CompressedVector ==
    ASSUME NEW v \in [Rows -> Int]
    PROVE  /\ Compress(v) \in Columns
           /\ DOMAIN Compress(v) = NonZero(v)
           /\ \A r \in Rows : At(Compress(v), r) = v[r]
<1>1. NonZero(v) \subseteq Rows
  BY DEF NonZero
<1>2. Compress(v) \in [NonZero(v) -> Int]
  BY <1>1 DEF Compress
<1>3. Compress(v) \in Columns
  BY <1>1, <1>2 DEF Columns
<1>4. ASSUME NEW r \in Rows PROVE At(Compress(v), r) = v[r]
  BY DEF At, Compress, NonZero
<1> QED
  BY <1>2, <1>3, <1>4

LEMMA EmptyColumn ==
    /\ NoElements \in Columns
    /\ DOMAIN NoElements = {}
    /\ \A r : At(NoElements, r) = 0
<1>1. NoElements \in [{} -> Int] /\ DOMAIN NoElements = {}
  BY DEF NoElements
<1>2. NoElements \in Columns
  BY <1>1 DEF Columns
<1> QED
  BY <1>1, <1>2 DEF At

-----------------------------------------------------------------------------
(* Numbers of elements                                                     *)

LEMMA Dimensions ==
    /\ IsFiniteSet(Rows) /\ Cardinality(Rows) = NRows
    /\ IsFiniteSet(Cols) /\ Cardinality(Cols) = NCols
    /\ IsFiniteSet(Cols \X Rows) /\ Cardinality(Cols \X Rows) = NRows * NCols
<1>1. ASSUME NEW n \in Nat \ {0}
      PROVE  IsFiniteSet(0..(n - 1)) /\ Cardinality(0..(n - 1)) = n
  <2>1. 0 \in Int /\ n - 1 \in Int
    OBVIOUS
  <2>2. IsFiniteSet(0..(n - 1))
        /\ Cardinality(0..(n - 1)) = IF 0 > n - 1 THEN 0 ELSE (n - 1) - 0 + 1
    BY <2>1, FS_Interval
  <2> QED
    BY <2>2
<1>2. /\ IsFiniteSet(Rows) /\ Cardinality(Rows) = NRows
      /\ IsFiniteSet(Cols) /\ Cardinality(Cols) = NCols
  BY <1>1 DEF Rows, Cols
<1>3. IsFiniteSet(Cols \X Rows) /\ Cardinality(Cols \X Rows) = NCols * NRows
  BY <1>2, FS_Product
<1>4. NCols * NRows = NRows * NCols
  OBVIOUS
<1> QED
  BY <1>2, <1>3, <1>4

LEMMA SizeOfColumn ==
    ASSUME NEW S \in SUBSET Rows
    PROVE  IsFiniteSet(S) /\ Cardinality(S) \in Nat
BY Dimensions, FS_Subset, FS_CardinalityType

LEMMA ElementsAre ==
    ASSUME NEW cols \in [Cols -> Columns], NEW n \in 0..NCols
    PROVE  /\ \A c, r : <<c, r>> \in Elements(cols, n) <=>
                           c \in 0..(n - 1) /\ r \in DOMAIN cols[c]
           /\ Elements(cols, n) \subseteq Cols \X Rows
           /\ IsFiniteSet(Elements(cols, n)) /\ m_colstart(cols, n) \in Nat
<1>1. \A c, r : <<c, r>> \in Elements(cols, n) <=>
                    c \in 0..(n - 1) /\ r \in DOMAIN cols[c]
  BY DEF Elements
<1>2. \A c \in 0..(n - 1) : c \in Cols /\ DOMAIN cols[c] \subseteq Rows
  BY DEF Cols, Columns
<1>3. Elements(cols, n) \subseteq Cols \X Rows
  BY <1>2 DEF Elements
<1>4. IsFiniteSet(Elements(cols, n)) /\ m_colstart(cols, n) \in Nat
  BY <1>3, Dimensions, FS_Subset, FS_CardinalityType DEF m_colstart
<1> QED
  BY <1>1, <1>3, <1>4

(* All elements are those of the first NCols columns.                      *)
LEMMA AllElements ==
    ASSUME NEW cols \in [Cols -> Columns]
    PROVE  /\ \A c, r : <<c, r>> \in Elements(cols, NCols) <=>
                           c \in Cols /\ r \in DOMAIN cols[c]
           /\ Elements(cols, NCols) \subseteq Cols \X Rows
           /\ IsFiniteSet(Elements(cols, NCols)) /\ m_colstart(cols, NCols) \in Nat
<1>1. NCols \in 0..NCols
  OBVIOUS
<1> QED
  BY <1>1, ElementsAre DEF Cols

LEMMA SameNumber ==
    ASSUME NEW cols \in [Cols -> Columns], NEW new \in [Cols -> Columns],
           \A c \in Cols : DOMAIN new[c] = DOMAIN cols[c]
    PROVE  m_colstart(new, NCols) = m_colstart(cols, NCols)
<1>1. Elements(new, NCols) = Elements(cols, NCols)
  <2>1. \A c \in 0..(NCols - 1) : {c} \X DOMAIN new[c] = {c} \X DOMAIN cols[c]
    BY DEF Cols
  <2> QED
    BY <2>1 DEF Elements
<1> QED
  BY <1>1 DEF m_colstart

LEMMA InOneColumn ==
    ASSUME NEW c \in Cols, NEW S \in SUBSET Rows
    PROVE  IsFiniteSet({c} \X S) /\ Cardinality({c} \X S) = Cardinality(S)
<1>1. IsFiniteSet(S) /\ Cardinality(S) \in Nat
  BY SizeOfColumn
<1>2. IsFiniteSet({c}) /\ Cardinality({c}) = 1
  BY FS_Singleton
<1>3. IsFiniteSet({c} \X S) /\ Cardinality({c} \X S) = 1 * Cardinality(S)
  BY <1>1, <1>2, FS_Product
<1> QED
  BY <1>1, <1>3

(* A column is replaced: the number changes by the difference of the two.  *)
LEMMA Replacing ==
    ASSUME NEW cols \in [Cols -> Columns], NEW c \in Cols, NEW a \in Columns,
           NEW new, new = [cols EXCEPT ![c] = a]
    PROVE  m_colstart(new, NCols) = m_colstart(cols, NCols)
                + Cardinality(DOMAIN a) - Cardinality(DOMAIN cols[c])
<1> DEFINE Others == {e \in Elements(cols, NCols) : e[1] # c}
<1>1. new \in [Cols -> Columns]
  OBVIOUS
<1>2. DOMAIN a \in SUBSET Rows /\ DOMAIN cols[c] \in SUBSET Rows
  BY DEF Columns
<1>3. ASSUME NEW S \in SUBSET Rows, NEW any \in [Cols -> Columns],
             DOMAIN any[c] = S, \A d \in Cols \ {c} : any[d] = cols[d]
      PROVE  m_colstart(any, NCols) = Cardinality(Others) + Cardinality(S)
  <2>1. Elements(any, NCols) = Others \cup ({c} \X S)
    <3>1. ASSUME NEW e \in Cols \X Rows
          PROVE  e \in Elements(any, NCols) <=> e \in Others \cup ({c} \X S)
      <4>1. PICK d \in Cols, r \in Rows : e = <<d, r>>
        OBVIOUS
      <4>2. e \in Elements(any, NCols) <=> r \in DOMAIN any[d]
        BY <4>1, AllElements
      <4>3. e \in Elements(cols, NCols) <=> r \in DOMAIN cols[d]
        BY <4>1, AllElements
      <4>4. CASE d = c
        BY <1>3, <4>1, <4>2, <4>4
      <4>5. CASE d # c
        BY <1>3, <4>1, <4>2, <4>3, <4>5
      <4> QED
        BY <4>4, <4>5
    <3>2. Elements(any, NCols) \subseteq Cols \X Rows
      BY AllElements
    <3>3. Others \cup ({c} \X S) \subseteq Cols \X Rows
      BY AllElements
    <3> HIDE DEF Others
    <3> QED
      BY <3>1, <3>2, <3>3
  <2>2. IsFiniteSet(Others) /\ Cardinality(Others) \in Nat
    <3>1. Others \in SUBSET Elements(cols, NCols) /\ IsFiniteSet(Elements(cols, NCols))
      BY AllElements
    <3> HIDE DEF Others
    <3> QED
      BY <3>1, FS_Subset, FS_CardinalityType
  <2>3. IsFiniteSet({c} \X S) /\ Cardinality({c} \X S) = Cardinality(S)
    BY InOneColumn
  <2>4. Others \cap ({c} \X S) = {}
    OBVIOUS
  <2>5. Cardinality(S) \in Nat
    BY SizeOfColumn
  <2> HIDE DEF Others
  <2>6. Cardinality(Others \cup ({c} \X S))
           = Cardinality(Others) + Cardinality({c} \X S) - Cardinality(Others \cap ({c} \X S))
    BY <2>2, <2>3, FS_Union
  <2>7. Cardinality(Others \cap ({c} \X S)) = 0
    BY <2>4, FS_EmptySet
  <2>8. m_colstart(any, NCols) = Cardinality(Others \cup ({c} \X S))
    BY <2>1 DEF m_colstart
  <2> QED
    BY <2>2, <2>3, <2>5, <2>6, <2>7, <2>8
<1>4. m_colstart(new, NCols) = Cardinality(Others) + Cardinality(DOMAIN a)
  <2> HIDE DEF Others
  <2>1. DOMAIN new[c] = DOMAIN a /\ \A d \in Cols \ {c} : new[d] = cols[d]
    OBVIOUS
  <2> QED
    BY <1>1, <1>2, <1>3, <2>1
<1>5. m_colstart(cols, NCols) = Cardinality(Others) + Cardinality(DOMAIN cols[c])
  <2> HIDE DEF Others
  <2> QED
    BY <1>2, <1>3
<1>6. /\ Cardinality(DOMAIN a) \in Nat /\ Cardinality(DOMAIN cols[c]) \in Nat
      /\ m_colstart(cols, NCols) \in Nat /\ m_colstart(new, NCols) \in Nat
  BY <1>1, <1>2, SizeOfColumn, AllElements
<1>7. Cardinality(Others) \in Nat
  <2>1. Others \in SUBSET Elements(cols, NCols) /\ IsFiniteSet(Elements(cols, NCols))
    BY AllElements
  <2> HIDE DEF Others
  <2> QED
    BY <2>1, FS_Subset, FS_CardinalityType
<1> HIDE DEF Others
<1> QED
  BY <1>4, <1>5, <1>6, <1>7

(* The places in the rows that M has for each column.                      *)
Places(M) == UNION {{c} \X M[c] : c \in Cols}

LEMMA PlacesAre ==
    ASSUME NEW M \in [Cols -> SUBSET Rows]
    PROVE  /\ \A c, r : <<c, r>> \in Places(M) <=> c \in Cols /\ r \in M[c]
           /\ \A e \in Places(M) : \E c \in Cols : \E r \in M[c] : e = <<c, r>>
           /\ Places(M) \subseteq Cols \X Rows
           /\ IsFiniteSet(Places(M)) /\ Cardinality(Places(M)) \in Nat
<1>1. \A c, r : <<c, r>> \in Places(M) <=> c \in Cols /\ r \in M[c]
  BY DEF Places
<1>2. ASSUME NEW e \in Places(M)
      PROVE  \E c \in Cols : \E r \in M[c] : e = <<c, r>>
  <2>1. PICK c \in Cols : e \in {c} \X M[c]
    BY DEF Places
  <2>2. e[1] = c /\ e[2] \in M[c] /\ e = <<e[1], e[2]>>
    BY <2>1
  <2> QED
    BY <2>2
<1>3. Places(M) \subseteq Cols \X Rows
  BY DEF Places
<1>4. IsFiniteSet(Places(M)) /\ Cardinality(Places(M)) \in Nat
  BY <1>3, Dimensions, FS_Subset, FS_CardinalityType
<1> QED
  BY <1>1, <1>2, <1>3, <1>4

(* The rows that a mix adds to a column are as many as mix_column_prepare()*)
(* counts, or less, when the two columns are Counted: where the last row   *)
(* of the second is left out, the last row of the first is taken for it.   *)
LEMMA NewRowsCounted ==
    ASSUME NEW A \in [Cols -> SUBSET Rows], NEW B \in [Cols -> SUBSET Rows],
           \A c \in Cols : Counted(A[c], B[c]),
           NEW D, D = [c \in Cols |-> B[c] \ A[c]],
           NEW N, N = [c \in Cols |-> IF A[c] = {} THEN B[c]
                                      ELSE ButLast(B[c]) \ ButLast(A[c])]
    PROVE  Cardinality(Places(D)) <= Cardinality(Places(N))
<1> DEFINE added   == Places(D)
           counted == Places(N)
           last(c) == CHOOSE r \in A[c] \cap B[c] : r \notin ButLast(A[c])
           f == [e \in added |-> IF e \in counted THEN e ELSE <<e[1], last(e[1])>>]
<1>1. N \in [Cols -> SUBSET Rows] /\ D \in [Cols -> SUBSET Rows]
  BY DEF ButLast
<1>2. /\ \A c, r : <<c, r>> \in counted <=> c \in Cols /\ r \in N[c]
      /\ \A e \in added : \E c \in Cols : \E r \in B[c] \ A[c] : e = <<c, r>>
      /\ IsFiniteSet(added) /\ IsFiniteSet(counted)
  BY <1>1, PlacesAre
<1>3. \A c \in Cols : A[c] \subseteq Rows /\ B[c] \subseteq Rows
  OBVIOUS
<1> HIDE DEF added, counted
<1>4. Rows \subseteq Int
  BY DEF Rows
<1>5. ASSUME NEW c \in Cols, NEW r \in B[c] \ A[c], <<c, r>> \notin counted
      PROVE  /\ last(c) \in A[c] \cap B[c] /\ last(c) \in N[c]
             /\ \A q \in B[c] : q <= r
  <2>1. A[c] # {} /\ N[c] = ButLast(B[c]) \ ButLast(A[c])
    BY <1>2, <1>5
  <2>2. r \notin ButLast(B[c])
    BY <1>2, <1>5, <2>1 DEF ButLast
  <2>3. \A q \in B[c] : q <= r
    <3>1. \A q \in B[c] : q \in Int /\ ~(r < q)
      BY <1>3, <1>4, <2>2 DEF ButLast
    <3>2. r \in Int
      BY <3>1
    <3> QED
      BY <3>1, <3>2
  <2>4. PICK s \in A[c] \cap B[c] : s \notin ButLast(A[c]) \/ s \notin ButLast(B[c])
    BY <2>1 DEF Counted
  <2>5. s < r
    BY <1>3, <1>4, <2>3, <2>4
  <2>6. s \in ButLast(B[c])
    BY <2>4, <2>5 DEF ButLast
  <2>7. last(c) \in A[c] \cap B[c] /\ last(c) \notin ButLast(A[c])
    BY <2>4, <2>6
  <2> HIDE DEF last
  <2>8. last(c) < r
    <3>1. last(c) \in Int /\ r \in Int /\ last(c) <= r
      BY <1>3, <1>4, <2>3, <2>7
    <3>2. last(c) # r
      BY <2>7
    <3> QED
      BY <3>1, <3>2
  <2>9. last(c) \in ButLast(B[c])
    BY <2>7, <2>8 DEF ButLast
  <2> QED
    BY <2>1, <2>3, <2>7, <2>9
<1>6. f \in Injection(added, counted)
  <2>1. ASSUME NEW e \in added PROVE f[e] \in counted
    <3>0. PICK c \in Cols : \E r \in B[c] \ A[c] : e = <<c, r>>
      BY <1>2
    <3>1. PICK r \in B[c] \ A[c] : e = <<c, r>>
      BY <3>0
    <3> HIDE DEF last
    <3> QED
      BY <1>2, <1>5, <3>1
  <2>2. ASSUME NEW e1 \in added, NEW e2 \in added, f[e1] = f[e2] PROVE e1 = e2
    <3> PICK c \in Cols : \E r \in B[c] \ A[c] : e1 = <<c, r>>
      BY <1>2
    <3>1. PICK r \in B[c] \ A[c] : e1 = <<c, r>>
      OBVIOUS
    <3> PICK d \in Cols : \E q \in B[d] \ A[d] : e2 = <<d, q>>
      BY <1>2
    <3>2. PICK q \in B[d] \ A[d] : e2 = <<d, q>>
      OBVIOUS
    <3> HIDE DEF last
    <3>3. f[e1] = IF e1 \in counted THEN <<c, r>> ELSE <<c, last(c)>>
      BY <3>1
    <3>4. f[e2] = IF e2 \in counted THEN <<d, q>> ELSE <<d, last(d)>>
      BY <3>2
    <3> HIDE DEF f
    <3>5. c = d
      <4>1. f[e1][1] = c
        BY <3>3
      <4>2. f[e2][1] = d
        BY <3>4
      <4> QED
        BY <2>2, <4>1, <4>2
    <3>6. CASE e1 \in counted /\ e2 \in counted
      BY <2>2, <3>1, <3>2, <3>3, <3>4, <3>6
    <3>7. CASE e1 \in counted /\ e2 \notin counted
      BY <1>5, <2>2, <3>1, <3>2, <3>3, <3>4, <3>5, <3>7
    <3>8. CASE e1 \notin counted /\ e2 \in counted
      BY <1>5, <2>2, <3>1, <3>2, <3>3, <3>4, <3>5, <3>8
    <3>9. CASE e1 \notin counted /\ e2 \notin counted
      <4>1. q <= r /\ r <= q
        BY <1>5, <3>1, <3>2, <3>5, <3>9
      <4>2. q \in Int /\ r \in Int
        BY <1>3, <1>4
      <4>3. q = r
        BY <4>1, <4>2
      <4> QED
        BY <3>1, <3>2, <3>5, <4>3
    <3> QED
      BY <3>6, <3>7, <3>8, <3>9
  <2>3. f \in [added -> counted]
    BY <2>1
  <2> HIDE DEF f
  <2> QED
    BY <2>2, <2>3 DEF Injection, IsInjective
<1>7. Cardinality(added) <= Cardinality(counted)
  <2> HIDE DEF f
  <2> QED
    BY <1>2, <1>6, FS_Injection
<1> QED
  BY <1>7 DEF added, counted

(* The room of a mix is counted one short at most.                         *)
LEMMA RoomCounted ==
    ASSUME NEW a \in Columns, NEW b \in Columns, Counted(DOMAIN a, DOMAIN b)
    PROVE  /\ Requested(a, b) \in Nat
           /\ Cardinality(DOMAIN a \cup DOMAIN b) \in Nat
           /\ Cardinality(DOMAIN a \cup DOMAIN b) <= Requested(a, b) + 1
<1> DEFINE S == DOMAIN a
           T == DOMAIN b
           R == ButLast(S) \cup ButLast(T)
<1>1. S \subseteq Rows /\ T \subseteq Rows /\ Rows \subseteq Int
  BY DEF Columns, Rows
<1>2. R \subseteq S \cup T
  BY DEF ButLast
<1>3. \A U \in SUBSET Rows : \A x, y \in U : x \notin ButLast(U) /\ y \notin ButLast(U) => x = y
  BY <1>1 DEF ButLast
<1>4. ASSUME NEW x \in (S \cup T) \ R, NEW y \in (S \cup T) \ R PROVE x = y
  <2>1. CASE x \in S /\ y \in S
    BY <1>1, <1>3, <2>1
  <2>2. CASE x \in T /\ y \in T
    BY <1>1, <1>3, <2>2
  <2>3. CASE S # {} /\ T # {} /\ ((x \in S /\ y \in T) \/ (x \in T /\ y \in S))
    <3>1. PICK r \in S \cap T : r \notin ButLast(S) \/ r \notin ButLast(T)
      BY <2>3 DEF Counted
    <3> HIDE DEF S, T
    <3>2. CASE r \notin ButLast(S)
      BY <1>1, <1>3, <2>3, <3>1, <3>2
    <3>3. CASE r \notin ButLast(T)
      BY <1>1, <1>3, <2>3, <3>1, <3>3
    <3> QED
      BY <3>1, <3>2, <3>3
  <2> QED
    BY <2>1, <2>2, <2>3
<1>5. /\ S \cup T \in SUBSET Rows /\ R \in SUBSET Rows
  BY <1>1, <1>2
<1>6. Requested(a, b) = Cardinality(R)
  BY DEF Requested
<1> HIDE DEF S, T, R
<1>7. /\ IsFiniteSet(S \cup T) /\ Cardinality(S \cup T) \in Nat
      /\ IsFiniteSet(R) /\ Cardinality(R) \in Nat
  BY <1>5, SizeOfColumn
<1>8. CASE S \cup T = R
  <2>1. Cardinality(S \cup T) = Requested(a, b)
    BY <1>6, <1>8
  <2> QED
    BY <1>7, <2>1 DEF S, T
<1>9. CASE S \cup T # R
  <2>1. PICK x \in S \cup T : x \notin R
    BY <1>2, <1>9
  <2>2. S \cup T = R \cup {x}
    BY <1>2, <1>4, <2>1
  <2>3. Cardinality(R \cup {x}) = Cardinality(R) + 1
    BY <1>7, <2>1, FS_AddElement
  <2> QED
    BY <1>6, <1>7, <2>2, <2>3 DEF S, T
<1> QED
  BY <1>8, <1>9

-----------------------------------------------------------------------------
(* Pending element and stack                                               *)

LEMMA PendingIncluded ==
    ASSUME IInv, NEW c \in Cols
    PROVE  /\ WithPending(c) \in [Rows -> Int]
           /\ \A r \in Rows : WithPending(c)[r] = At(column[c], r)
                + IF fill.col = c /\ fill.row = r THEN fill.val ELSE 0
           /\ fill.val = 0 => \A r \in Rows : WithPending(c)[r] = At(column[c], r)
<1>1. column[c] \in Columns
  BY DEF IInv
<1>2. \A r : At(column[c], r) \in Int
  BY <1>1, ElementType
<1> QED
  BY <1>2 DEF IInv, WithPending

(* Filling in the pending element changes no value.                        *)
LEMMA FillingIn ==
    ASSUME IInv
    PROVE  /\ Filled(column) \in [Cols -> Columns]
           /\ \A c \in Cols, r \in Rows : At(Filled(column)[c], r) = WithPending(c)[r]
<1>1. CASE fill.val = 0
  BY <1>1, PendingIncluded DEF Filled, IInv
<1>2. CASE fill.val # 0
  <2> DEFINE old == column[fill.col]
             new == [r \in DOMAIN old \cup {fill.row} |->
                        IF r = fill.row THEN fill.val ELSE old[r]]
  <2>1. old \in Columns /\ fill.row \in Rows /\ fill.val \in Int /\ fill.col \in Cols
    BY DEF IInv
  <2>2. DOMAIN old \subseteq Rows /\ old \in [DOMAIN old -> Int]
    BY <2>1 DEF Columns
  <2>3. new \in [DOMAIN old \cup {fill.row} -> Int]
    BY <2>1, <2>2
  <2>4. new \in Columns
    <3>1. DOMAIN old \cup {fill.row} \subseteq Rows
      BY <2>1, <2>2
    <3> HIDE DEF new, old
    <3> QED
      BY <2>3, <3>1 DEF Columns
  <2>5. Filled(column) = [column EXCEPT ![fill.col] = new]
    BY <1>2 DEF Filled
  <2>6. \A r : At(new, r) = IF r = fill.row THEN fill.val ELSE At(old, r)
    BY DEF At
  <2>7. At(old, fill.row) = 0
    BY <1>2 DEF At, IInv, PendingIsNew
  <2> HIDE DEF new
  <2>8. Filled(column) \in [Cols -> Columns]
    BY <2>4, <2>5 DEF IInv
  <2>9. ASSUME NEW c \in Cols, NEW r \in Rows
        PROVE  At(Filled(column)[c], r) = WithPending(c)[r]
    <3>1. CASE c = fill.col
      <4>1. Filled(column)[c] = new
        BY <2>5, <3>1 DEF IInv
      <4>2. At(column[c], r) \in Int
        BY <2>1, <3>1, ElementType
      <4> QED
        BY <2>1, <2>6, <2>7, <3>1, <4>1, <4>2, PendingIncluded
    <3>2. CASE c # fill.col
      <4>1. Filled(column)[c] = column[c] /\ column[c] \in Columns
        BY <2>5, <3>2 DEF IInv
      <4>2. At(column[c], r) \in Int
        BY <4>1, ElementType
      <4> QED
        BY <3>2, <4>1, <4>2, PendingIncluded
    <3> QED
      BY <3>1, <3>2
  <2> QED
    BY <2>8, <2>9
<1> QED
  BY <1>1, <1>2

LEMMA NoFillType ==
    NoFill \in [val : Int, row : Rows, col : Cols] /\ NoFill.val = 0
BY DEF NoFill, Rows, Cols

LEMMA FilledRows ==
    column \in [Cols -> Columns] =>
        \A c \in Cols : DOMAIN Filled(column)[c] =
            DOMAIN column[c] \cup (IF fill.val # 0 /\ fill.col = c THEN {fill.row} ELSE {})
<1> SUFFICES ASSUME column \in [Cols -> Columns], NEW c \in Cols
             PROVE  DOMAIN Filled(column)[c] = DOMAIN column[c] \cup
                        (IF fill.val # 0 /\ fill.col = c THEN {fill.row} ELSE {})
  OBVIOUS
<1> QED
  BY DEF Filled

LEMMA FilledRowsAfter ==
    ASSUME column' \in [Cols -> Columns], NEW c \in Cols
    PROVE  /\ DOMAIN Filled(column)'[c] = DOMAIN column'[c] \cup
                 (IF fill'.val # 0 /\ fill'.col = c THEN {fill'.row} ELSE {})
           /\ fill' = NoFill => Filled(column)' = column'
BY NoFillType DEF Filled

(* Filling in adds one element, as fill_pending() counts it.               *)
LEMMA FilledNumber ==
    ASSUME IInv
    PROVE  /\ m_colstart(Filled(column), NCols) = Stored + OneIfPending
           /\ Stored \in Nat /\ OneIfPending \in {0, 1}
<1>1. column \in [Cols -> Columns] /\ Stored \in Nat /\ OneIfPending \in {0, 1}
  BY AllElements DEF IInv, Stored, OneIfPending
<1>2. CASE fill.val = 0
  BY <1>1, <1>2 DEF Filled, Stored, OneIfPending
<1>3. CASE fill.val # 0
  <2> DEFINE new == Filled(column)[fill.col]
  <2>1. fill.col \in Cols /\ fill.row \in Rows /\ fill.row \notin DOMAIN column[fill.col]
    BY <1>3 DEF IInv, PendingIsNew
  <2>2. Filled(column) = [column EXCEPT ![fill.col] = new] /\ new \in Columns
    <3>1. Filled(column) \in [Cols -> Columns]
      BY FillingIn
    <3>2. \A d \in Cols \ {fill.col} : Filled(column)[d] = column[d]
      BY <1>1, <1>3 DEF Filled
    <3> QED
      BY <1>1, <2>1, <3>1, <3>2
  <2>3. DOMAIN new = DOMAIN column[fill.col] \cup {fill.row}
    BY <1>1, <1>3, <2>1, FilledRows
  <2> HIDE DEF new
  <2>4. DOMAIN column[fill.col] \in SUBSET Rows
    BY <1>1, <2>1 DEF Columns
  <2>5. /\ Cardinality(DOMAIN new) = Cardinality(DOMAIN column[fill.col]) + 1
        /\ Cardinality(DOMAIN column[fill.col]) \in Nat
    BY <2>1, <2>3, <2>4, SizeOfColumn, FS_AddElement
  <2>6. m_colstart(Filled(column), NCols) = Stored
            + Cardinality(DOMAIN new) - Cardinality(DOMAIN column[fill.col])
    <3>1. ASSUME NEW F, F = [column EXCEPT ![fill.col] = new]
          PROVE  m_colstart(F, NCols) = m_colstart(column, NCols)
                     + Cardinality(DOMAIN new) - Cardinality(DOMAIN column[fill.col])
      BY <1>1, <2>1, <2>2, <3>1, Replacing
    <3> QED
      BY <2>2, <3>1 DEF Stored
  <2> QED
    BY <1>1, <1>3, <2>5, <2>6 DEF OneIfPending
<1> QED
  BY <1>1, <1>2, <1>3

(* There is one entry for a column at most, so that it does not matter     *)
(* which one is taken.                                                     *)
LEMMA StackOfColumn ==
    ASSUME IInv, NEW c \in Cols
    PROVE  /\ OnStack(c) \in Columns
           /\ \A e \in DOMAIN stack : stack[e].col = c => OnStack(c) = stack[e].data
           /\ (\A e \in DOMAIN stack : stack[e].col # c) => OnStack(c) = NoElements
<1>1. c # -1
  BY DEF Cols
<1>2. \A e \in DOMAIN stack : stack[e] \in Entries
  BY ElementOfSeq, LenProperties DEF IInv
<1>3. \A e \in EntriesOf(c) : OnStack(c) = stack[e].data
  BY <1>1 DEF OnStack, EntriesOf, IInv, ColumnsOnce
<1>4. EntriesOf(c) = {} => OnStack(c) = NoElements
  BY DEF OnStack
<1>5. OnStack(c) \in Columns
  BY <1>2, <1>3, <1>4, EmptyColumn DEF EntriesOf, Entries
<1> QED
  BY <1>3, <1>4, <1>5 DEF EntriesOf

-----------------------------------------------------------------------------
(* What the steps do to the values of the matrix                           *)

LEMMA KeptType ==
    ASSUME IInv
    PROVE  /\ Kept \in [Cols -> [Rows -> Int]]
           /\ \A c \in Cols, r \in Rows :
                Kept[c][r] = WithPending(c)[r] + At(OnStack(c), r)
<1>1. ASSUME NEW c \in Cols, NEW r \in Rows
      PROVE  WithPending(c)[r] \in Int /\ At(OnStack(c), r) \in Int
  BY PendingIncluded, StackOfColumn, ElementType
<1> QED
  BY <1>1 DEF Kept

LEMMA KeptOfFlushed ==
    ASSUME IInv, Flushed, NEW c \in Cols
    PROVE  /\ OnStack(c) = NoElements
           /\ \A r \in Rows : Kept[c][r] = WithPending(c)[r]
<1>1. OnStack(c) = NoElements
  BY StackOfColumn DEF Flushed
<1> QED
  BY <1>1, KeptType, EmptyColumn, PendingIncluded

LEMMA SameStack ==
    ASSUME UNCHANGED stack, NEW c
    PROVE  OnStack(c)' = OnStack(c)
BY DEF OnStack, EntriesOf

LEMMA EmptyStack ==
    ASSUME stack' = <<>>, NEW c
    PROVE  OnStack(c)' = NoElements
BY DEF OnStack, EntriesOf

(* The invariant after a step that leaves the stack alone.                 *)
LEMMA StackUntouched ==
    ASSUME IInv, UNCHANGED <<has_stack, stack, used>>,
           column' \in [Cols -> Columns], m_elements' \in Int,
           fill' \in [val : Int, row : Rows, col : Cols], PendingIsNew',
           Careful => Trusted',
           Careful => \A c \in Cols : \/ OnStack(c) = NoElements
                                      \/ DOMAIN Filled(column)'[c] = DOMAIN Filled(column)[c]
    PROVE  IInv'
<1>1. ASSUME Careful PROVE Accounted'
  <2>1. ASSUME NEW c \in Cols
        PROVE  Counted(DOMAIN Filled(column)'[c], DOMAIN OnStack(c)')
    <3>1. OnStack(c)' = OnStack(c)
      BY SameStack
    <3>2. CASE OnStack(c) = NoElements
      BY <3>1, <3>2, EmptyColumn DEF Counted
    <3>3. CASE DOMAIN Filled(column)'[c] = DOMAIN Filled(column)[c]
      BY <1>1, <3>1, <3>3 DEF IInv, Accounted
    <3> QED
      BY <1>1, <3>2, <3>3
  <2>2. StackFits'
    BY <1>1 DEF IInv, Accounted, StackFits
  <2> QED
    BY <1>1, <2>1, <2>2 DEF Accounted
<1> QED
  BY <1>1 DEF IInv, ColumnsOnce

LEMMA NothingChanged ==
    ASSUME IInv, UNCHANGED <<column, m_elements, fill, has_stack, stack, used>>
    PROVE  IInv'
<1>1. Filled(column)' = Filled(column)
  BY DEF Filled
<1>2. Careful => Trusted'
  BY DEF IInv, Accounted, Trusted, Stored
<1> QED
  BY <1>1, <1>2, StackUntouched DEF IInv, PendingIsNew

LEMMA KeptAfter ==
    ASSUME column' \in [Cols -> Columns], NEW c \in Cols, NEW r \in Rows
    PROVE  /\ Kept'[c][r] = At(column'[c], r)
                + (IF fill'.col = c /\ fill'.row = r THEN fill'.val ELSE 0)
                + At(OnStack(c)', r)
           /\ fill' = NoFill => Kept'[c][r] = At(column'[c], r) + At(OnStack(c)', r)
<1>1. At(column'[c], r) \in Int
  BY ElementType
<1>2. Kept'[c][r] = At(column'[c], r)
                + (IF fill'.col = c /\ fill'.row = r THEN fill'.val ELSE 0)
                + At(OnStack(c)', r)
  BY DEF Kept, WithPending, At
<1> QED
  BY <1>1, <1>2, NoFillType

LEMMA OverwriteStep ==
    ASSUME IInv, NEW c \in Cols, NEW a \in Columns, Overwrite(c, a),
           UNCHANGED <<has_stack, stack, used>>, Careful => OnStack(c) = NoElements
    PROVE  /\ IInv'
           /\ \A d \in Cols, r \in Rows : Kept'[d][r] =
                (IF d = c THEN At(a, r) ELSE WithPending(d)[r]) + At(OnStack(d), r)
<1>1. column' = [column EXCEPT ![c] = a] /\ column' \in [Cols -> Columns]
  BY DEF Overwrite, IInv
<1>2. fill' = IF fill.col = c THEN NoFill ELSE fill
  BY DEF Overwrite
<1>3. fill' \in [val : Int, row : Rows, col : Cols]
  BY <1>2, NoFillType DEF IInv
<1>4. PendingIsNew'
  BY <1>1, <1>2, NoFillType DEF IInv, PendingIsNew
<1>5. ASSUME NEW d \in Cols, NEW r \in Rows
      PROVE  Kept'[d][r] =
                (IF d = c THEN At(a, r) ELSE WithPending(d)[r]) + At(OnStack(d), r)
  <2>1. OnStack(d)' = OnStack(d) /\ At(OnStack(d), r) \in Int
    BY SameStack, StackOfColumn, ElementType
  <2>2. At(a, r) \in Int /\ At(column[d], r) \in Int
    BY ElementType DEF IInv
  <2>3. CASE d = c
    <3>1. column'[d] = a /\ (fill'.col = d => fill'.val = 0)
      BY <1>1, <1>2, <2>3, NoFillType DEF IInv
    <3> QED
      BY <1>1, <1>3, <2>1, <2>2, <2>3, <3>1, KeptAfter
  <2>4. CASE d # c
    <3>1. column'[d] = column[d]
      BY <1>1, <2>4 DEF IInv
    <3>2. (IF fill'.col = d /\ fill'.row = r THEN fill'.val ELSE 0)
             = IF fill.col = d /\ fill.row = r THEN fill.val ELSE 0
      BY <1>2, <2>4, NoFillType
    <3> QED
      BY <1>1, <2>1, <2>2, <2>4, <3>1, <3>2, KeptAfter, PendingIncluded
  <2> QED
    BY <2>3, <2>4
<1>6. m_elements' \in Int /\ (Careful => Trusted')
  <2>1. column[c] \in Columns /\ m_elements \in Int
    BY DEF IInv
  <2>2. DOMAIN a \in SUBSET Rows /\ DOMAIN column[c] \in SUBSET Rows
    BY <2>1 DEF Columns
  <2>3. Cardinality(DOMAIN a) \in Nat /\ Cardinality(DOMAIN column[c]) \in Nat
    BY <2>2, SizeOfColumn
  <2>4. m_elements' = m_elements + Cardinality(DOMAIN a) - Cardinality(DOMAIN column[c])
    BY DEF Overwrite
  <2>5. Stored' = Stored + Cardinality(DOMAIN a) - Cardinality(DOMAIN column[c])
        /\ Stored \in Nat
    <3>1. column \in [Cols -> Columns]
      BY DEF IInv
    <3> QED
      BY <1>1, <3>1, Replacing, AllElements DEF Stored
  <2>6. Careful => Stored <= m_elements
    BY DEF IInv, Accounted, Trusted
  <2> QED
    BY <2>1, <2>3, <2>4, <2>5, <2>6 DEF Trusted
<1>7. ASSUME NEW d \in Cols, d # c
      PROVE  DOMAIN Filled(column)'[d] = DOMAIN Filled(column)[d]
  <2>1. column'[d] = column[d] /\ column \in [Cols -> Columns]
    BY <1>1, <1>7 DEF IInv
  <2>2. (IF fill'.val # 0 /\ fill'.col = d THEN {fill'.row} ELSE {})
           = IF fill.val # 0 /\ fill.col = d THEN {fill.row} ELSE {}
    BY <1>2, <1>7, NoFillType
  <2> QED
    BY <1>1, <2>1, <2>2, FilledRows, FilledRowsAfter
<1> QED
  BY <1>1, <1>3, <1>4, <1>5, <1>6, <1>7, StackUntouched

(* Flushing moves every value into the columns.                            *)
LEMMA FlushStep ==
    ASSUME IInv, Flush
    PROVE  /\ column' \in [Cols -> Columns]
           /\ fill' = NoFill
           /\ \A c \in Cols, r \in Rows : At(column'[c], r) = Kept[c][r]
           /\ \A c \in Cols : DOMAIN column'[c]
                    = DOMAIN Filled(column)[c] \cup DOMAIN OnStack(c)
           /\ m_elements' \in Int
           /\ Careful => Trusted'
<1>1. column' = [c \in Cols |-> Mixed(Filled(column)[c], OnStack(c))]
  BY DEF Flush
<1>2. ASSUME NEW c \in Cols
      PROVE  /\ Mixed(Filled(column)[c], OnStack(c)) \in Columns
             /\ \A r \in Rows : At(Mixed(Filled(column)[c], OnStack(c)), r)
                    = WithPending(c)[r] + At(OnStack(c), r)
             /\ DOMAIN Mixed(Filled(column)[c], OnStack(c))
                    = DOMAIN Filled(column)[c] \cup DOMAIN OnStack(c)
  <2>1. Filled(column)[c] \in Columns /\ OnStack(c) \in Columns
    BY FillingIn, StackOfColumn
  <2>2. /\ Mixed(Filled(column)[c], OnStack(c)) \in Columns
        /\ \A r : At(Mixed(Filled(column)[c], OnStack(c)), r)
               = At(Filled(column)[c], r) + At(OnStack(c), r)
        /\ DOMAIN Mixed(Filled(column)[c], OnStack(c))
               = DOMAIN Filled(column)[c] \cup DOMAIN OnStack(c)
    BY <2>1, MixedColumns
  <2>3. \A r \in Rows : At(Filled(column)[c], r) = WithPending(c)[r]
    BY FillingIn
  <2> QED
    BY <2>2, <2>3
<1> DEFINE A == [c \in Cols |-> DOMAIN Filled(column)[c]]
           B == [c \in Cols |-> DOMAIN OnStack(c)]
           N == [c \in Cols |-> IF A[c] = {} THEN B[c] ELSE ButLast(B[c]) \ ButLast(A[c])]
           D == [c \in Cols |-> B[c] \ A[c]]
<1>3. A \in [Cols -> SUBSET Rows] /\ B \in [Cols -> SUBSET Rows]
  BY FillingIn, StackOfColumn DEF Columns
<1>4. m_elements' = m_elements + OneIfPending + Cardinality(Places(N))
  <2>1. Places(N) = UNION {{c} \X NewElements(c) : c \in Cols}
    BY DEF Places, NewElements, OnlySecond
  <2> QED
    BY <2>1 DEF Flush
<1>5. column' \in [Cols -> Columns]
  BY <1>1, <1>2
<1>6. \A c \in Cols : DOMAIN column'[c] = A[c] \cup B[c]
  BY <1>1, <1>2
<1>7. /\ Cardinality(Places(N)) \in Nat /\ Cardinality(Places(D)) \in Nat
      /\ IsFiniteSet(Places(D))
  <2>1. N \in [Cols -> SUBSET Rows] /\ D \in [Cols -> SUBSET Rows]
    BY <1>3 DEF ButLast
  <2> HIDE DEF N, D
  <2> QED
    BY <2>1, PlacesAre
<1>8. m_elements' \in Int
  BY <1>4, <1>7, FilledNumber DEF IInv
<1>9. ASSUME Careful PROVE Trusted'
  <2>1. Stored <= m_elements /\ \A c \in Cols : Counted(A[c], B[c])
    BY <1>9 DEF IInv, Accounted, Trusted
  <2>2. Cardinality(Places(D)) <= Cardinality(Places(N))
    <3>1. /\ D = [c \in Cols |-> B[c] \ A[c]]
          /\ N = [c \in Cols |-> IF A[c] = {} THEN B[c] ELSE ButLast(B[c]) \ ButLast(A[c])]
      OBVIOUS
    <3> HIDE DEF A, B, N, D
    <3> QED
      BY <1>3, <2>1, <3>1, NewRowsCounted
  <2>3. Elements(column', NCols) = Elements(Filled(column), NCols) \cup Places(D)
    <3>1. ASSUME NEW e \in Cols \X Rows
          PROVE  e \in Elements(column', NCols)
                    <=> e \in Elements(Filled(column), NCols) \cup Places(D)
      <4>1. PICK c \in Cols, r \in Rows : e = <<c, r>>
        OBVIOUS
      <4>2. e \in Elements(column', NCols) <=> r \in A[c] \cup B[c]
        BY <1>5, <1>6, <4>1, AllElements
      <4>3. e \in Elements(Filled(column), NCols) <=> r \in A[c]
        BY <4>1, FillingIn, AllElements
      <4>4. e \in Places(D) <=> r \in B[c] \ A[c]
        <5>1. D[c] = B[c] \ A[c] /\ D \in [Cols -> SUBSET Rows]
          BY <1>3
        <5> HIDE DEF D
        <5> QED
          BY <4>1, <5>1, PlacesAre
      <4> QED
        BY <4>2, <4>3, <4>4
    <3>2. Elements(column', NCols) \subseteq Cols \X Rows
      BY <1>5, AllElements
    <3>3. Elements(Filled(column), NCols) \subseteq Cols \X Rows
      BY FillingIn, AllElements
    <3>4. Places(D) \subseteq Cols \X Rows
      <4>1. D \in [Cols -> SUBSET Rows]
        BY <1>3
      <4> HIDE DEF D
      <4> QED
        BY <4>1, PlacesAre
    <3> HIDE DEF D
    <3> QED
      BY <3>1, <3>2, <3>3, <3>4
  <2> HIDE DEF D, N
  <2>4. /\ IsFiniteSet(Elements(Filled(column), NCols))
        /\ m_colstart(Filled(column), NCols) \in Nat
    BY FillingIn, AllElements
  <2>5. Cardinality(Elements(Filled(column), NCols) \cup Places(D))
           <= m_colstart(Filled(column), NCols) + Cardinality(Places(D))
    <3> DEFINE E == Elements(Filled(column), NCols)
    <3>1. Cardinality(E \cup Places(D))
             = Cardinality(E) + Cardinality(Places(D)) - Cardinality(E \cap Places(D))
      BY <1>7, <2>4, FS_Union
    <3>2. IsFiniteSet(E \cap Places(D))
      BY <1>7, FS_Subset
    <3>3. /\ Cardinality(E \cap Places(D)) \in Nat /\ Cardinality(Places(D)) \in Nat
          /\ Cardinality(E) \in Nat
      BY <1>7, <2>4, <3>2, FS_CardinalityType
    <3> HIDE DEF E
    <3>4. Cardinality(E \cup Places(D)) <= Cardinality(E) + Cardinality(Places(D))
      BY <3>1, <3>3
    <3> QED
      BY <3>4 DEF E, m_colstart
  <2>6. Cardinality(Places(D)) \in Nat /\ m_colstart(column', NCols) \in Nat
    BY <1>5, <1>7, AllElements
  <2>7. m_colstart(column', NCols) <= Stored + OneIfPending + Cardinality(Places(D))
    BY <2>3, <2>5, FilledNumber DEF m_colstart
  <2>8. Stored' = m_colstart(column', NCols)
    BY DEF Stored
  <2>9. m_elements \in Int
    BY DEF IInv
  <2> QED
    BY <1>4, <1>7, <2>1, <2>2, <2>6, <2>7, <2>8, <2>9, FilledNumber DEF Trusted
<1> HIDE DEF A, B, N, D
<1>10. \A c \in Cols, r \in Rows : At(column'[c], r) = Kept[c][r]
  BY <1>1, <1>2, KeptType
<1>11. \A c \in Cols : DOMAIN column'[c] = DOMAIN Filled(column)[c] \cup DOMAIN OnStack(c)
  BY <1>1, <1>2
<1> QED
  BY <1>5, <1>8, <1>9, <1>10, <1>11 DEF Flush

(* A flush that leaves an empty stack changes no value.                    *)
LEMMA EmptyingStep ==
    ASSUME IInv, Flush, stack' = <<>>, used' = 0, has_stack' \in BOOLEAN
    PROVE  IInv' /\ Kept' = Kept
<1>1. /\ column' \in [Cols -> Columns]
      /\ fill' = NoFill
      /\ \A c \in Cols, r \in Rows : At(column'[c], r) = Kept[c][r]
      /\ m_elements' \in Int
      /\ Careful => Trusted'
  BY FlushStep
<1>2. stack' \in Seq(Entries) /\ Len(stack') = 0
  BY EmptySeq
<1>3. IInv'
  <2>1. \A c \in Cols : Counted(DOMAIN Filled(column)'[c], DOMAIN OnStack(c)')
    BY EmptyStack, EmptyColumn DEF Counted
  <2>2. StackFits'
    BY DEF StackFits
  <2>3. Careful => Accounted'
    BY <1>1, <2>1, <2>2 DEF Accounted
  <2> QED
    BY <1>1, <1>2, <2>3, NoFillType DEF IInv, ColumnsOnce, PendingIsNew
<1>4. ASSUME NEW c \in Cols, NEW r \in Rows PROVE Kept'[c][r] = Kept[c][r]
  <2>1. At(OnStack(c)', r) = 0
    BY EmptyStack, EmptyColumn
  <2> QED
    BY <1>1, <2>1, KeptAfter, KeptType
<1>5. Kept' \in [Cols -> [Rows -> Int]] /\ Kept \in [Cols -> [Rows -> Int]]
  <2>1. Kept' = [c \in Cols |-> [r \in Rows |-> Kept'[c][r]]]
    BY DEF Kept
  <2> QED
    BY <1>4, <2>1, KeptType
<1> QED
  BY <1>3, <1>4, <1>5

(* A push on a stack that is full: the stack is flushed first.             *)
LEMMA PushOnFull ==
    ASSUME IInv, NEW c \in Cols, NEW a \in Columns, Flush,
           stack' = <<Entry(c, a)>>, used' = Cardinality(DOMAIN a),
           has_stack' \in BOOLEAN, Cardinality(DOMAIN a) <= StackSize,
           Careful => Countable(c, DOMAIN a)
    PROVE  /\ IInv'
           /\ \A d \in Cols, r \in Rows :
                Kept'[d][r] = Kept[d][r] + IF d = c THEN At(a, r) ELSE 0
<1>1. /\ column' \in [Cols -> Columns]
      /\ fill' = NoFill
      /\ \A d \in Cols, r \in Rows : At(column'[d], r) = Kept[d][r]
      /\ DOMAIN column'[c] = DOMAIN Filled(column)[c] \cup DOMAIN OnStack(c)
      /\ m_elements' \in Int
      /\ Careful => Trusted'
  BY FlushStep
<1>2. Entry(c, a) \in Entries /\ Entry(c, a).col = c /\ Entry(c, a).data = a
  BY DEF Entry, Entries
<1>3. /\ stack' \in Seq(Entries) /\ Len(stack') = 1
      /\ DOMAIN stack' = {1} /\ stack'[1] = Entry(c, a)
  BY <1>2
<1>4. used' \in Nat /\ StackFits'
  <2>1. DOMAIN a \in SUBSET Rows
    BY DEF Columns
  <2> QED
    BY <2>1, SizeOfColumn DEF StackFits
<1>5. ColumnsOnce'
  BY <1>3 DEF ColumnsOnce
<1>6. ASSUME NEW d \in Cols
      PROVE  OnStack(d)' = IF d = c THEN a ELSE NoElements
  <2>1. EntriesOf(d)' = IF d = c THEN {1} ELSE {}
    BY <1>2, <1>3 DEF EntriesOf
  <2> QED
    BY <1>2, <1>3, <2>1 DEF OnStack
<1>7. ASSUME Careful, NEW d \in Cols
      PROVE  Counted(DOMAIN Filled(column)'[d], DOMAIN OnStack(d)')
  <2>1. CASE d = c
    <3>1. Counted(DOMAIN Filled(column)[c] \cup DOMAIN OnStack(c), DOMAIN a)
      BY <1>7 DEF Countable
    <3>2. DOMAIN Filled(column)'[d] = DOMAIN Filled(column)[c] \cup DOMAIN OnStack(c)
      BY <1>1, <2>1, FilledRowsAfter
    <3> QED
      BY <1>6, <2>1, <3>1, <3>2
  <2>2. CASE d # c
    BY <1>6, <2>2, EmptyColumn DEF Counted
  <2> QED
    BY <2>1, <2>2
<1>8. IInv'
  <2>1. Careful => Accounted'
    BY <1>1, <1>4, <1>7 DEF Accounted
  <2> QED
    BY <1>1, <1>3, <1>4, <1>5, <2>1, NoFillType DEF IInv, PendingIsNew
<1>9. ASSUME NEW d \in Cols, NEW r \in Rows
      PROVE  Kept'[d][r] = Kept[d][r] + IF d = c THEN At(a, r) ELSE 0
  <2>1. Kept[d][r] \in Int /\ At(a, r) \in Int
    BY KeptType, ElementType
  <2> QED
    BY <1>1, <1>6, <2>1, KeptAfter, EmptyColumn
<1> QED
  BY <1>8, <1>9

(* A push on a stack with room: what the stack has of the column is mixed  *)
(* into the new entry, and the entry it was in becomes obsolete.           *)
LEMMA PushOnTop ==
    ASSUME IInv, NEW c \in Cols, NEW a \in Columns, ~Full(c, a),
           Careful => Countable(c, DOMAIN a),
           stack' = Append(Outdated(c), Entry(c, Mixed(OnStack(c), a))),
           used' = used + Cardinality(DOMAIN Mixed(OnStack(c), a)),
           UNCHANGED <<column, m_elements, fill, has_stack>>
    PROVE  /\ IInv'
           /\ \A d \in Cols, r \in Rows :
                Kept'[d][r] = Kept[d][r] + IF d = c THEN At(a, r) ELSE 0
<1> DEFINE mix == Mixed(OnStack(c), a)
           n   == Len(stack)
<1>1. /\ mix \in Columns /\ \A r : At(mix, r) = At(OnStack(c), r) + At(a, r)
      /\ DOMAIN mix = DOMAIN OnStack(c) \cup DOMAIN a
  BY StackOfColumn, MixedColumns
<1>2. Entry(c, mix) \in Entries /\ Entry(c, mix).col = c /\ Entry(c, mix).data = mix
  BY <1>1 DEF Entry, Entries
<1>3. /\ n \in Nat /\ DOMAIN stack = 1..n
      /\ \A e \in 1..n : stack[e] \in Entries
  BY ElementOfSeq, LenProperties DEF IInv
<1>4. /\ Outdated(c) \in Seq(Entries) /\ Len(Outdated(c)) = n
      /\ \A e \in 1..n : /\ Outdated(c)[e].col = IF stack[e].col = c THEN -1 ELSE stack[e].col
                         /\ Outdated(c)[e].data = stack[e].data
  <2>1. Outdated(c) \in [1..n -> Entries]
    BY <1>3 DEF Outdated, Entries
  <2>2. \A e \in 1..n : /\ Outdated(c)[e].col = IF stack[e].col = c THEN -1 ELSE stack[e].col
                        /\ Outdated(c)[e].data = stack[e].data
    BY <1>3 DEF Outdated, Entries
  <2>3. Outdated(c) \in Seq(Entries) /\ Len(Outdated(c)) = n
    <3> HIDE DEF n
    <3> QED BY <1>3, <2>1
  <2> QED
    BY <2>2, <2>3
<1> HIDE DEF mix
<1>5. /\ stack' \in Seq(Entries) /\ Len(stack') = n + 1
      /\ DOMAIN stack' = 1..(n + 1)
      /\ \A e \in 1..n : stack'[e] = Outdated(c)[e]
      /\ stack'[n + 1] = Entry(c, mix)
  <2>1. stack' = Append(Outdated(c), Entry(c, mix))
    BY DEF mix
  <2>2. Outdated(c) \in Seq(Entries) /\ Len(Outdated(c)) = n /\ Entry(c, mix) \in Entries
    BY <1>2, <1>4
  <2> HIDE DEF n
  <2> QED
    BY <1>3, <2>1, <2>2, AppendProperties
<1> HIDE DEF n
<1>6. used' \in Nat
  <2>1. DOMAIN mix \in SUBSET Rows
    BY <1>1 DEF Columns
  <2> QED
    BY <2>1, SizeOfColumn DEF IInv, mix
<1>7. ASSUME Careful PROVE StackFits'
  <2>1. Counted(DOMAIN OnStack(c), DOMAIN a)
    BY <1>7 DEF Countable
  <2>2. used \in Nat
    BY DEF IInv
  <2>3. used' = used + Cardinality(DOMAIN OnStack(c) \cup DOMAIN a)
    BY <1>1 DEF mix
  <2>4. CASE EntriesOf(c) = {}
    <3>1. DOMAIN OnStack(c) \cup DOMAIN a = DOMAIN a
      BY <2>4, EmptyColumn DEF OnStack
    <3>2. Cardinality(DOMAIN a) \in Nat /\ Cardinality(DOMAIN a) < StackSize - used
      <4>1. DOMAIN a \in SUBSET Rows
        BY DEF Columns
      <4>2. Cardinality(DOMAIN a) \in Nat
        BY <4>1, SizeOfColumn
      <4> QED
        BY <2>2, <4>2 DEF Full
    <3> QED
      BY <2>2, <2>3, <3>1, <3>2 DEF StackFits
  <2>5. CASE EntriesOf(c) # {}
    <3>1. PICK e \in EntriesOf(c) : OnStack(c) = stack[e].data
      BY <2>5 DEF OnStack
    <3>2. /\ Requested(OnStack(c), a) \in Nat
          /\ Cardinality(DOMAIN OnStack(c) \cup DOMAIN a) \in Nat
          /\ Cardinality(DOMAIN OnStack(c) \cup DOMAIN a) <= Requested(OnStack(c), a) + 1
      BY <2>1, StackOfColumn, RoomCounted
    <3>3. Requested(OnStack(c), a) < StackSize - used
      BY <2>2, <3>1, <3>2 DEF Full
    <3> QED
      BY <2>2, <2>3, <3>2, <3>3 DEF StackFits
  <2> QED
    BY <2>4, <2>5
<1>8. ColumnsOnce'
  <2> SUFFICES ASSUME NEW i \in 1..(n + 1), NEW j \in 1..(n + 1),
                      stack'[i].col = stack'[j].col, stack'[i].col # -1
               PROVE  i = j
    BY <1>5 DEF ColumnsOnce
  <2>1. c # -1
    BY DEF Cols
  <2>2. ASSUME NEW e \in 1..n PROVE stack'[e].col # c
    <3>1. stack'[e].col = IF stack[e].col = c THEN -1 ELSE stack[e].col
      BY <1>4, <1>5
    <3> QED
      BY <2>1, <3>1
  <2>3. CASE i = n + 1 \/ j = n + 1
    BY <1>2, <1>3, <1>5, <2>2, <2>3
  <2>4. CASE i \in 1..n /\ j \in 1..n
    <3>1. stack[i].col = stack[j].col /\ stack[i].col # -1
      BY <1>4, <1>5, <2>4, <2>2
    <3> QED
      BY <1>3, <2>4, <3>1 DEF IInv, ColumnsOnce
  <2> QED
    BY <1>3, <2>3, <2>4
<1>9. ASSUME NEW d \in Cols
      PROVE  OnStack(d)' = IF d = c THEN mix ELSE OnStack(d)
  <2>1. d # -1 /\ c # -1
    BY DEF Cols
  <2>2. CASE d = c
    <3>1. EntriesOf(d)' = {n + 1}
      BY <1>2, <1>3, <1>4, <1>5, <2>1, <2>2 DEF EntriesOf
    <3> QED
      BY <1>2, <1>5, <2>2, <3>1 DEF OnStack
  <2>3. CASE d # c
    <3>1. EntriesOf(d)' = EntriesOf(d)
      BY <1>2, <1>3, <1>4, <1>5, <2>1, <2>3 DEF EntriesOf
    <3>2. \A e \in EntriesOf(d) : stack'[e].data = stack[e].data
      BY <1>3, <1>4, <1>5 DEF EntriesOf
    <3> QED
      BY <2>3, <3>1, <3>2 DEF OnStack
  <2> QED
    BY <2>2, <2>3
<1>10. IInv'
  <2>1. ASSUME Careful, NEW d \in Cols
        PROVE  Counted(DOMAIN Filled(column)'[d], DOMAIN OnStack(d)')
    <3>1. Filled(column)' = Filled(column)
      BY DEF Filled
    <3>2. /\ Counted(DOMAIN Filled(column)[d], DOMAIN OnStack(d))
          /\ Counted(DOMAIN Filled(column)[c], DOMAIN OnStack(c) \cup DOMAIN a)
      BY <2>1 DEF IInv, Accounted, Countable
    <3> QED
      BY <1>1, <1>9, <3>1, <3>2
  <2>2. Careful => Trusted'
    BY DEF IInv, Accounted, Trusted, Stored
  <2>3. Careful => Accounted'
    BY <1>7, <2>1, <2>2 DEF Accounted
  <2> QED
    BY <1>5, <1>6, <1>8, <2>3 DEF IInv, PendingIsNew
<1>11. ASSUME NEW d \in Cols, NEW r \in Rows
       PROVE  Kept'[d][r] = Kept[d][r] + IF d = c THEN At(a, r) ELSE 0
  <2>1. column' \in [Cols -> Columns]
    BY DEF IInv
  <2>2. WithPending(d)' = WithPending(d)
    BY DEF WithPending
  <2>3. Kept'[d][r] = WithPending(d)[r] + At(OnStack(d)', r)
    BY <2>2 DEF Kept
  <2>4. At(OnStack(d), r) \in Int /\ At(a, r) \in Int /\ WithPending(d)[r] \in Int
    BY StackOfColumn, ElementType, PendingIncluded
  <2> QED
    BY <1>1, <1>9, <2>3, <2>4, KeptType
<1> QED
  BY <1>10, <1>11

LEMMA PushStep ==
    ASSUME IInv, NEW c \in Cols, NEW a \in Columns, Push(c, a),
           UNCHANGED has_stack, Cardinality(DOMAIN a) <= StackSize,
           Careful => Countable(c, DOMAIN a)
    PROVE  /\ IInv'
           /\ \A d \in Cols, r \in Rows :
                Kept'[d][r] = Kept[d][r] + IF d = c THEN At(a, r) ELSE 0
<1>1. CASE Full(c, a)
  <2>1. Flush /\ stack' = <<Entry(c, a)>> /\ used' = Cardinality(DOMAIN a)
    BY <1>1 DEF Push
  <2>2. has_stack' \in BOOLEAN
    BY DEF IInv
  <2> QED
    BY <2>1, <2>2, PushOnFull
<1>2. CASE ~Full(c, a)
  <2>1. /\ stack' = Append(Outdated(c), Entry(c, Mixed(OnStack(c), a)))
        /\ used' = used + Cardinality(DOMAIN Mixed(OnStack(c), a))
        /\ UNCHANGED <<column, m_elements, fill, has_stack>>
    BY <1>2 DEF Push
  <2> QED
    BY <1>2, <2>1, PushOnTop
<1> QED
  BY <1>1, <1>2

-----------------------------------------------------------------------------
(* The calls                                                               *)

LEMMA FromElements ==
    ASSUME NEW F \in [Cols -> [Rows -> Int]],
           \A d \in Cols, r \in Rows : Kept'[d][r] = F[d][r]
    PROVE  Kept' = F
<1>1. Kept' = [c \in Cols |-> [r \in Rows |-> Kept'[c][r]]]
  BY DEF Kept
<1> QED
  BY <1>1

LEMMA OneElement ==
    ASSUME IInv, NEW r \in Rows, NEW c \in Cols, NEW v \in Int,
           \A d \in Cols, q \in Rows :
               Kept'[d][q] = IF d = c /\ q = r THEN v ELSE Kept[d][q]
    PROVE  KeptMatrix!Assign(r, c, v)
<1> DEFINE F == [Kept EXCEPT ![c][r] = v]
<1>1. F \in [Cols -> [Rows -> Int]]
  BY KeptType
<1>2. \A d \in Cols, q \in Rows : F[d][q] = IF d = c /\ q = r THEN v ELSE Kept[d][q]
  BY KeptType
<1> HIDE DEF F
<1>3. Kept' = F
  BY <1>1, <1>2, FromElements
<1> QED
  BY <1>3 DEF F, KeptMatrix!Assign

LEMMA OneColumn ==
    ASSUME IInv, NEW c \in Cols, NEW v \in [Rows -> Int],
           \A d \in Cols, r \in Rows :
               Kept'[d][r] = IF d = c THEN v[r] ELSE Kept[d][r]
    PROVE  Kept' = [Kept EXCEPT ![c] = v]
<1> DEFINE F == [Kept EXCEPT ![c] = v]
<1>1. F \in [Cols -> [Rows -> Int]]
  BY KeptType
<1>2. \A d \in Cols, r \in Rows : F[d][r] = IF d = c THEN v[r] ELSE Kept[d][r]
  BY KeptType
<1> HIDE DEF F
<1>3. Kept' = F
  BY <1>1, <1>2, FromElements
<1> QED
  BY <1>3 DEF F

LEMMA AssignCall ==
    ASSUME IInv, NEW r \in Rows, NEW c \in Cols, NEW v \in Scalars, Assign(r, c, v)
    PROVE  IInv' /\ KeptMatrix!Assign(r, c, v)
<1> DEFINE cols == Filled(column)
<1>1. v \in Int /\ Flushed /\ UNCHANGED <<has_stack, stack, used>>
  BY DataAssumption DEF Assign
<1>2. /\ cols \in [Cols -> Columns]
      /\ \A d \in Cols, q \in Rows : At(cols[d], q) = WithPending(d)[q]
  BY FillingIn
<1>3. ASSUME NEW d \in Cols, NEW q \in Rows
      PROVE  /\ At(OnStack(d)', q) = 0
             /\ Kept[d][q] = WithPending(d)[q] /\ Kept[d][q] \in Int
  BY <1>1, SameStack, KeptOfFlushed, KeptType, EmptyColumn
<1>4. /\ m_elements' \in Int
      /\ m_colstart(cols, NCols) <= m_elements'
      /\ \A d \in Cols : OnStack(d) = NoElements
  <2>1. m_elements' = m_elements + OneIfPending /\ Trusted
    BY DEF Assign
  <2> HIDE DEF cols
  <2>2. m_colstart(cols, NCols) = Stored + OneIfPending
    BY FilledNumber DEF cols
  <2>3. m_elements \in Int /\ Stored <= m_elements
    BY <2>1 DEF IInv, Trusted
  <2> QED
    BY <1>1, <2>1, <2>2, <2>3, FilledNumber, KeptOfFlushed
<1>5. CASE r \in DOMAIN cols[c]
  <2>1. column' = [cols EXCEPT ![c][r] = v] /\ fill' = NoFill
    BY <1>5 DEF Assign
  <2>2. [cols[c] EXCEPT ![r] = v] \in Columns
    BY <1>1, <1>2, <1>5 DEF Columns
  <2> HIDE DEF cols
  <2>3. column' \in [Cols -> Columns]
    BY <1>2, <2>1, <2>2
  <2>4. IInv'
    <3>1. m_colstart(column', NCols) = m_colstart(cols, NCols)
      BY <1>2, <2>1, <2>3, SameNumber
    <3>2. m_elements' \in Int /\ (Careful => Trusted')
      BY <1>4, <3>1 DEF Trusted, Stored
    <3> QED
      BY <1>1, <1>4, <2>1, <2>3, <3>2, NoFillType, StackUntouched DEF PendingIsNew
  <2>5. ASSUME NEW d \in Cols, NEW q \in Rows
        PROVE  Kept'[d][q] = IF d = c /\ q = r THEN v ELSE Kept[d][q]
    <3>1. At(column'[d], q) = IF d = c /\ q = r THEN v ELSE At(cols[d], q)
      BY <1>2, <1>5, <2>1 DEF At
    <3>2. Kept'[d][q] = At(column'[d], q) + At(OnStack(d)', q)
      BY <2>1, <2>3, KeptAfter
    <3> QED
      BY <1>1, <1>2, <1>3, <3>1, <3>2
  <2> QED
    BY <1>1, <2>4, <2>5, OneElement
<1>6. CASE r \notin DOMAIN cols[c]
  <2>1. column' = cols /\ fill' = Pending(v, r, c)
    BY <1>6 DEF Assign
  <2>2. /\ fill' \in [val : Int, row : Rows, col : Cols]
        /\ v # 0 => fill'.val = v /\ fill'.row = r /\ fill'.col = c
        /\ v = 0 => fill'.val = 0
    BY <1>1, <2>1, NoFillType DEF Pending
  <2>3. PendingIsNew'
    BY <1>6, <2>1, <2>2 DEF PendingIsNew
  <2>4. IInv'
    <3>1. m_elements' \in Int /\ (Careful => Trusted')
      BY <1>4, <2>1 DEF Trusted, Stored
    <3> QED
      BY <1>1, <1>2, <1>4, <2>1, <2>2, <2>3, <3>1, StackUntouched
  <2>5. At(cols[c], r) = 0
    BY <1>6 DEF At
  <2> HIDE DEF cols
  <2>6. ASSUME NEW d \in Cols, NEW q \in Rows
        PROVE  Kept'[d][q] = IF d = c /\ q = r THEN v ELSE Kept[d][q]
    <3>1. column' \in [Cols -> Columns]
      BY <1>2, <2>1
    <3>2. Kept'[d][q] = At(cols[d], q)
             + (IF fill'.col = d /\ fill'.row = q THEN fill'.val ELSE 0) + At(OnStack(d)', q)
      BY <2>1, <3>1, KeptAfter
    <3> QED
      BY <1>1, <1>2, <1>3, <2>2, <2>5, <3>2
  <2> QED
    BY <1>1, <2>4, <2>6, OneElement
<1> QED
  BY <1>5, <1>6

LEMMA AssignAllCall ==
    ASSUME IInv, NEW v \in Scalars, AssignAll(v)
    PROVE  IInv' /\ KeptMatrix!AssignAll(v)
<1>1. v \in Int /\ Flushed /\ UNCHANGED <<has_stack, stack, used>> /\ fill' = NoFill
  BY DataAssumption DEF AssignAll
<1>2. column' = [c \in Cols |-> IF v = 0 THEN NoElements ELSE [r \in Rows |-> v]]
  BY DEF AssignAll
<1>3. [r \in Rows |-> v] \in Columns
  BY <1>1 DEF Columns
<1>4. column' \in [Cols -> Columns]
  BY <1>2, <1>3, EmptyColumn
<1>5. IInv'
  <2>1. /\ Stored <= m_elements /\ m_elements \in Int
        /\ Stored \in Nat /\ OneIfPending \in {0, 1}
    BY FilledNumber DEF AssignAll, Trusted, IInv
  <2>2. ASSUME v = 0 PROVE m_elements' \in Int /\ Trusted'
    <3>1. Elements(column', NCols) = {}
      BY <1>2, <2>2, EmptyColumn DEF Elements, Cols
    <3>2. Stored' = 0
      BY <3>1, FS_EmptySet DEF Stored, m_colstart
    <3>3. m_elements' = m_elements + OneIfPending
      BY <2>2 DEF AssignAll
    <3> QED
      BY <2>1, <3>2, <3>3 DEF Trusted
  <2>3. ASSUME v # 0 PROVE m_elements' \in Int /\ Trusted'
    <3>1. m_elements' = m_elements - Stored + NRows * NCols
      BY <2>3 DEF AssignAll
    <3>2. Elements(column', NCols) \subseteq Cols \X Rows
      BY <1>4, AllElements
    <3>3. m_colstart(column', NCols) <= NRows * NCols /\ NRows * NCols \in Nat
      BY <3>2, Dimensions, FS_Subset, FS_CardinalityType DEF m_colstart
    <3>4. Stored' \in Nat /\ Stored' <= NRows * NCols
      BY <1>4, <3>3, AllElements DEF Stored
    <3> QED
      BY <2>1, <3>1, <3>3, <3>4 DEF Trusted
  <2>4. m_elements' \in Int /\ Trusted'
    BY <2>2, <2>3
  <2> QED
    BY <1>1, <1>4, <2>4, NoFillType, KeptOfFlushed, StackUntouched DEF PendingIsNew
<1>6. ASSUME NEW c \in Cols, NEW r \in Rows PROVE Kept'[c][r] = v
  <2>1. At(OnStack(c)', r) = 0
    BY <1>1, SameStack, KeptOfFlushed, EmptyColumn
  <2>2. At(column'[c], r) = v
    BY <1>2, EmptyColumn DEF At
  <2> QED
    BY <1>1, <1>4, <2>1, <2>2, KeptAfter
<1> DEFINE F == [c \in Cols |-> [r \in Rows |-> v]]
<1>7. F \in [Cols -> [Rows -> Int]] /\ \A c \in Cols, r \in Rows : F[c][r] = v
  BY <1>1
<1> HIDE DEF F
<1>8. Kept' = F
  BY <1>6, <1>7, FromElements
<1> QED
  BY <1>5, <1>8 DEF F, KeptMatrix!AssignAll

(* Both forms of column(): the column is overwritten.                      *)
LEMMA SetColumnCall ==
    ASSUME IInv, NEW c \in Cols, NEW a \in Columns, Overwrite(c, a), Flushed,
           UNCHANGED <<has_stack, stack, used>>,
           NEW v \in [Rows -> Int], \A r \in Rows : v[r] = At(a, r)
    PROVE  IInv' /\ KeptMatrix!SetColumn(c, v)
<1>1. /\ IInv'
      /\ \A d \in Cols, r \in Rows : Kept'[d][r] =
            (IF d = c THEN At(a, r) ELSE WithPending(d)[r]) + At(OnStack(d), r)
  BY KeptOfFlushed, OverwriteStep
<1>2. ASSUME NEW d \in Cols, NEW r \in Rows
      PROVE  Kept'[d][r] = IF d = c THEN v[r] ELSE Kept[d][r]
  <2>1. At(OnStack(d), r) = 0 /\ Kept[d][r] = WithPending(d)[r] /\ Kept[d][r] \in Int
    BY KeptOfFlushed, EmptyColumn, KeptType
  <2> QED
    BY <1>1, <2>1
<1>3. Kept' = [Kept EXCEPT ![c] = v]
  BY <1>2, OneColumn
<1> QED
  BY <1>1, <1>3 DEF KeptMatrix!SetColumn

(* The forms of add_to_column(): what is added shows up in one column.     *)
LEMMA AddToColumnCall ==
    ASSUME IInv, NEW c \in Cols, NEW v \in [Rows -> Int],
           \A d \in Cols, r \in Rows :
               Kept'[d][r] = Kept[d][r] + IF d = c THEN v[r] ELSE 0
    PROVE  KeptMatrix!AddToColumn(c, v)
<1> DEFINE sum == [r \in Rows |-> Kept[c][r] + v[r]]
<1>1. sum \in [Rows -> Int] /\ \A r \in Rows : sum[r] = Kept[c][r] + v[r]
  BY KeptType
<1>2. \A d \in Cols, r \in Rows : Kept[d][r] \in Int
  BY KeptType
<1> HIDE DEF sum
<1>3. \A d \in Cols, r \in Rows : Kept'[d][r] = IF d = c THEN sum[r] ELSE Kept[d][r]
  BY <1>1, <1>2
<1>4. Kept' = [Kept EXCEPT ![c] = sum]
  BY <1>1, <1>3, OneColumn
<1> QED
  BY <1>4 DEF sum, KeptMatrix!AddToColumn

LEMMA AddVectorCall ==
    ASSUME IInv, NEW c \in Cols, NEW v \in Vectors, AddVector(c, v)
    PROVE  IInv' /\ KeptMatrix!AddToColumn(c, v)
<1>1. v \in [Rows -> Int] /\ UNCHANGED has_stack
  BY DataAssumption DEF AddVector
<1>2. CASE NonZero(v) = {}
  <2>1. UNCHANGED <<column, m_elements, fill, has_stack, stack, used>>
    BY <1>2 DEF AddVector
  <2>2. IInv'
    BY <2>1, NothingChanged
  <2>3. Kept' = Kept
    BY <2>1 DEF Kept, WithPending, OnStack, EntriesOf
  <2>4. \A r \in Rows : v[r] = 0
    BY <1>2 DEF NonZero
  <2> QED
    BY <1>1, <2>2, <2>3, <2>4, KeptType, AddToColumnCall
<1>3. CASE NonZero(v) # {} /\ TakenByStack(NonZero(v))
  <2>1. /\ Push(c, Compress(v)) /\ UNCHANGED has_stack
        /\ Cardinality(DOMAIN Compress(v)) <= StackSize
        /\ Careful => Countable(c, DOMAIN Compress(v))
    <3>1. DOMAIN Compress(v) = NonZero(v)
      BY <1>1, CompressedVector
    <3> QED
      BY <1>1, <1>3, <3>1 DEF AddVector, TakenByStack
  <2>2. /\ IInv'
        /\ \A d \in Cols, r \in Rows :
             Kept'[d][r] = Kept[d][r] + IF d = c THEN v[r] ELSE 0
    BY <1>1, <2>1, CompressedVector, PushStep
  <2> QED
    BY <1>1, <2>2, AddToColumnCall
<1>4. CASE NonZero(v) # {} /\ ~TakenByStack(NonZero(v))
  <2> DEFINE sum == [r \in Rows |-> v[r] + WithPending(c)[r]]
  <2>1. /\ Overwrite(c, Compress(sum)) /\ UNCHANGED <<has_stack, stack, used>>
        /\ Careful => OnStack(c) = NoElements
    BY <1>4 DEF AddVector, OnStack
  <2>2. sum \in [Rows -> Int]
    BY <1>1, PendingIncluded
  <2>3. Compress(sum) \in Columns /\ \A r \in Rows : At(Compress(sum), r) = sum[r]
    BY <2>2, CompressedVector
  <2>4. /\ IInv'
        /\ \A d \in Cols, r \in Rows : Kept'[d][r] =
            (IF d = c THEN At(Compress(sum), r) ELSE WithPending(d)[r]) + At(OnStack(d), r)
    BY <2>1, <2>3, OverwriteStep
  <2>5. ASSUME NEW d \in Cols, NEW r \in Rows
        PROVE  Kept'[d][r] = Kept[d][r] + IF d = c THEN v[r] ELSE 0
    <3>1. At(OnStack(d), r) \in Int /\ WithPending(d)[r] \in Int /\ v[r] \in Int
      BY <1>1, StackOfColumn, ElementType, PendingIncluded
    <3>2. d = c => At(Compress(sum), r) = v[r] + WithPending(d)[r]
      BY <2>3
    <3>3. Kept[d][r] = WithPending(d)[r] + At(OnStack(d), r)
      BY KeptType
    <3> HIDE DEF sum
    <3> QED
      BY <2>4, <3>1, <3>2, <3>3
  <2> QED
    BY <1>1, <2>4, <2>5, AddToColumnCall
<1> QED
  BY <1>2, <1>3, <1>4

LEMMA AddArrayCall ==
    ASSUME IInv, NEW c \in Cols, NEW a \in Arrays, AddArray(c, a)
    PROVE  /\ IInv'
           /\ Careful => KeptMatrix!AddToColumn(c, [r \in Rows |-> At(a, r)])
<1> DEFINE v == [r \in Rows |-> At(a, r)]
<1>1. a \in Columns /\ UNCHANGED has_stack
  BY DataAssumption, ColumnType DEF AddArray
<1>2. v \in [Rows -> Int] /\ \A r \in Rows : v[r] = At(a, r)
  BY <1>1, ElementType
<1> HIDE DEF v
<1>3. CASE TakenByStack(DOMAIN a)
  <2>1. /\ Push(c, a) /\ UNCHANGED has_stack
        /\ Cardinality(DOMAIN a) <= StackSize
        /\ Careful => Countable(c, DOMAIN a)
    BY <1>3 DEF AddArray, TakenByStack
  <2>2. /\ IInv'
        /\ \A d \in Cols, r \in Rows :
             Kept'[d][r] = Kept[d][r] + IF d = c THEN v[r] ELSE 0
    BY <1>1, <1>2, <2>1, PushStep
  <2>3. KeptMatrix!AddToColumn(c, v)
    BY <1>2, <2>2, AddToColumnCall
  <2> QED
    BY <2>2, <2>3 DEF v
<1>4. CASE ~TakenByStack(DOMAIN a) /\ DOMAIN column[c] = {}
  <2>1. /\ Overwrite(c, a) /\ UNCHANGED <<has_stack, stack, used>>
        /\ Careful => OnStack(c) = NoElements
    BY <1>1, <1>4 DEF AddArray, AddDirectly, OnStack
  <2>2. Careful => fill.val = 0
    BY <1>4 DEF AddArray
  <2>3. /\ IInv'
        /\ \A d \in Cols, r \in Rows : Kept'[d][r] =
            (IF d = c THEN At(a, r) ELSE WithPending(d)[r]) + At(OnStack(d), r)
    BY <1>1, <2>1, OverwriteStep
  <2>4. ASSUME Careful, NEW d \in Cols, NEW r \in Rows
        PROVE  Kept'[d][r] = Kept[d][r] + IF d = c THEN v[r] ELSE 0
    <3>1. /\ At(OnStack(d), r) \in Int /\ WithPending(d)[r] \in Int
          /\ v[r] \in Int /\ v[r] = At(a, r)
      BY <1>2, StackOfColumn, ElementType, PendingIncluded
    <3>2. d = c => WithPending(d)[r] = 0
      BY <1>4, <2>2, <2>4, PendingIncluded DEF At
    <3>3. Kept[d][r] = WithPending(d)[r] + At(OnStack(d), r)
      BY KeptType
    <3> QED
      BY <2>3, <3>1, <3>2, <3>3
  <2>5. Careful => KeptMatrix!AddToColumn(c, v)
    BY <1>2, <2>4, AddToColumnCall
  <2> QED
    BY <2>3, <2>5 DEF v
<1>5. CASE ~TakenByStack(DOMAIN a) /\ DOMAIN column[c] # {}
  <2> DEFINE cols == Filled(column)
             read == IF fill.val # 0 /\ fill.col = c
                     THEN [r \in ButLast(DOMAIN cols[c]) |-> cols[c][r]]
                     ELSE column[c]
  <2>1. /\ column' = [cols EXCEPT ![c] = Mixed(read, a)]
        /\ m_elements' = m_elements + OneIfPending
              + Cardinality(DOMAIN Mixed(read, a)) - Cardinality(DOMAIN cols[c])
        /\ fill' = NoFill
        /\ UNCHANGED <<has_stack, stack, used>>
        /\ Careful => OnStack(c) = NoElements
    BY <1>1, <1>5 DEF AddArray, AddDirectly, OnStack
  <2>2. Careful => fill.val = 0
    BY <1>5 DEF AddArray
  <2>3. /\ cols \in [Cols -> Columns]
        /\ \A d \in Cols, r \in Rows : At(cols[d], r) = WithPending(d)[r]
    BY FillingIn
  <2>4. read \in Columns /\ (fill.val = 0 => read = column[c])
    <3>1. ButLast(DOMAIN cols[c]) \subseteq DOMAIN cols[c] /\ cols[c] \in Columns
      BY <2>3 DEF ButLast
    <3> HIDE DEF cols
    <3>2. [r \in ButLast(DOMAIN cols[c]) |-> cols[c][r]] \in Columns
      <4>1. DOMAIN cols[c] \subseteq Rows /\ cols[c] \in [DOMAIN cols[c] -> Int]
        BY <3>1 DEF Columns
      <4>2. [r \in ButLast(DOMAIN cols[c]) |-> cols[c][r]] \in [ButLast(DOMAIN cols[c]) -> Int]
        BY <3>1, <4>1
      <4> QED
        BY <3>1, <4>1, <4>2 DEF Columns
    <3> QED
      BY <3>2 DEF IInv
  <2> HIDE DEF cols, read
  <2>5. Mixed(read, a) \in Columns /\ \A r : At(Mixed(read, a), r) = At(read, r) + At(a, r)
    BY <1>1, <2>4, MixedColumns
  <2>6. column' \in [Cols -> Columns]
    BY <2>1, <2>3, <2>5
  <2>7. IInv'
    <3>1. DOMAIN Mixed(read, a) \in SUBSET Rows /\ DOMAIN cols[c] \in SUBSET Rows
      BY <2>3, <2>5 DEF Columns
    <3>2. Cardinality(DOMAIN Mixed(read, a)) \in Nat /\ Cardinality(DOMAIN cols[c]) \in Nat
      BY <3>1, SizeOfColumn
    <3>3. Stored' = Stored + OneIfPending
              + Cardinality(DOMAIN Mixed(read, a)) - Cardinality(DOMAIN cols[c])
      <4>1. m_colstart(column', NCols) = m_colstart(cols, NCols)
                + Cardinality(DOMAIN Mixed(read, a)) - Cardinality(DOMAIN cols[c])
        BY <2>1, <2>3, <2>5, Replacing
      <4>2. m_colstart(cols, NCols) = Stored + OneIfPending
        BY FilledNumber DEF cols
      <4> QED
        BY <4>1, <4>2 DEF Stored
    <3>4. /\ m_elements \in Int /\ Stored \in Nat /\ OneIfPending \in {0, 1}
          /\ Careful => Stored <= m_elements
      BY FilledNumber DEF IInv, Accounted, Trusted
    <3>5. m_elements' \in Int /\ (Careful => Trusted')
      BY <2>1, <3>2, <3>3, <3>4 DEF Trusted
    <3>6. \A d \in Cols \ {c} : DOMAIN Filled(column)'[d] = DOMAIN Filled(column)[d]
      BY <2>1, <2>3, <2>6, FilledRowsAfter DEF cols
    <3> QED
      BY <2>1, <2>6, <3>5, <3>6, NoFillType, StackUntouched DEF PendingIsNew
  <2>8. ASSUME Careful, NEW d \in Cols, NEW r \in Rows
        PROVE  Kept'[d][r] = Kept[d][r] + IF d = c THEN v[r] ELSE 0
    <3>1. /\ At(OnStack(d), r) \in Int /\ WithPending(d)[r] \in Int
          /\ v[r] \in Int /\ v[r] = At(a, r)
      BY <1>2, StackOfColumn, ElementType, PendingIncluded
    <3>2. At(column'[d], r) = WithPending(d)[r] + IF d = c THEN v[r] ELSE 0
      <4>1. d = c => At(read, r) = WithPending(d)[r]
        BY <2>2, <2>4, <2>8, PendingIncluded
      <4> QED
        BY <2>1, <2>3, <2>5, <3>1, <4>1
    <3>3. Kept[d][r] = WithPending(d)[r] + At(OnStack(d), r)
      BY KeptType
    <3>4. Kept'[d][r] = At(column'[d], r) + At(OnStack(d), r)
      BY <2>1, <2>6, SameStack, KeptAfter
    <3> QED
      BY <3>1, <3>2, <3>3, <3>4
  <2>9. Careful => KeptMatrix!AddToColumn(c, v)
    BY <1>2, <2>8, AddToColumnCall
  <2> QED
    BY <2>7, <2>9 DEF v
<1> QED
  BY <1>3, <1>4, <1>5

LEMMA AddMatrixCall ==
    ASSUME IInv, NEW b \in Operands, AddMatrix(b)
    PROVE  IInv' /\ KeptMatrix!AddMatrix(b)
<1> DEFINE sum(c) == [r \in Rows |-> WithPending(c)[r] + b[c][r]]
<1>1. b \in [Cols -> [Rows -> Int]] /\ Flushed
  BY DataAssumption DEF AddMatrix
<1>2. ASSUME NEW c \in Cols PROVE sum(c) \in [Rows -> Int]
  BY <1>1, PendingIncluded
<1>3. ASSUME NEW c \in Cols
      PROVE  Compress(sum(c)) \in Columns /\ \A r \in Rows : At(Compress(sum(c)), r) = sum(c)[r]
  <2> HIDE DEF sum
  <2> QED BY <1>2, CompressedVector
<1>4. column' = [c \in Cols |-> Compress(sum(c))] /\ fill' = NoFill
  BY DEF AddMatrix
<1>5. UNCHANGED <<has_stack, stack, used>>
  BY DEF AddMatrix
<1>6. column' \in [Cols -> Columns]
  BY <1>3, <1>4
<1>7. IInv'
  <2> DEFINE new == m_colstart(column', NCols)
  <2>1. /\ m_elements' = m_elements - Stored + new
        /\ Stored <= m_elements /\ m_elements \in Int
    BY DEF AddMatrix, Trusted, IInv
  <2>2. Stored \in Nat /\ new \in Nat /\ Stored' = new
    BY <1>6, AllElements DEF IInv, Stored
  <2> HIDE DEF new
  <2>3. m_elements' \in Int /\ new <= m_elements'
    BY <2>1, <2>2
  <2>4. Trusted'
    BY <2>2, <2>3 DEF Trusted
  <2> QED
    BY <1>1, <1>4, <1>5, <1>6, <2>3, <2>4, NoFillType, KeptOfFlushed, StackUntouched
    DEF PendingIsNew
<1> DEFINE F == [c \in Cols |-> [r \in Rows |-> Kept[c][r] + b[c][r]]]
<1>8. F \in [Cols -> [Rows -> Int]]
  BY <1>1, KeptType
<1>9. ASSUME NEW c \in Cols, NEW r \in Rows PROVE Kept'[c][r] = F[c][r]
  <2>1. At(OnStack(c)', r) = 0
    BY <1>1, <1>5, SameStack, KeptOfFlushed, EmptyColumn
  <2>2. Kept'[c][r] = At(column'[c], r) + At(OnStack(c)', r)
    BY <1>4, <1>6, KeptAfter
  <2>3. At(column'[c], r) = WithPending(c)[r] + b[c][r]
    BY <1>3, <1>4
  <2>4. Kept[c][r] = WithPending(c)[r] /\ WithPending(c)[r] \in Int /\ b[c][r] \in Int
    BY <1>1, KeptOfFlushed, PendingIncluded
  <2> HIDE DEF sum
  <2> QED
    BY <2>1, <2>2, <2>3, <2>4
<1> HIDE DEF F, sum
<1>10. Kept' = F
  BY <1>8, <1>9, FromElements
<1> QED
  BY <1>7, <1>10 DEF F, KeptMatrix!AddMatrix

LEMMA StackCalls ==
    ASSUME IInv, StackInit \/ StackFlush \/ StackDestroy
    PROVE  IInv' /\ UNCHANGED Kept
<1>1. CASE StackInit
  <2>1. /\ has_stack' = TRUE /\ stack' = <<>> /\ used' = 0 /\ stack = <<>>
        /\ UNCHANGED <<column, m_elements, fill>>
    BY <1>1 DEF StackInit, Flushed
  <2>2. IInv'
    <3>1. \A c \in Cols : Counted(DOMAIN Filled(column)'[c], DOMAIN OnStack(c)')
      BY <2>1, EmptyStack, EmptyColumn DEF Counted
    <3>2. StackFits' /\ (Careful => Trusted')
      BY <2>1 DEF IInv, Accounted, StackFits, Trusted, Stored
    <3>3. Careful => Accounted'
      BY <3>1, <3>2 DEF Accounted
    <3> QED
      BY <2>1, <3>3 DEF IInv, ColumnsOnce, PendingIsNew
  <2>3. \A c \in Cols : OnStack(c)' = OnStack(c)
    BY <2>1, SameStack
  <2>4. Kept' = Kept
    BY <2>1, <2>3 DEF Kept, WithPending
  <2> QED
    BY <2>2, <2>4
<1>2. CASE StackFlush
  <2>1. Flush /\ stack' = <<>> /\ used' = 0 /\ UNCHANGED has_stack
    BY <1>2 DEF StackFlush
  <2> QED
    BY <2>1, EmptyingStep DEF IInv
<1>3. CASE StackDestroy
  <2>1. Flush /\ stack' = <<>> /\ used' = 0 /\ has_stack' = FALSE
    BY <1>3 DEF StackDestroy
  <2> QED
    BY <2>1, EmptyingStep
<1> QED
  BY <1>1, <1>2, <1>3

-----------------------------------------------------------------------------
(* The invariant                                                           *)

LEMMA InitialState == Init => IInv /\ KeptMatrix!Init
<1> SUFFICES ASSUME Init PROVE IInv /\ KeptMatrix!Init
  OBVIOUS
<1>1. column \in [Cols -> Columns] /\ fill = NoFill /\ has_stack = FALSE /\ used = 0
  BY EmptyColumn DEF Init
<1>2. stack = <<>> /\ stack \in Seq(Entries) /\ Len(stack) = 0
  BY EmptySeq DEF Init
<1>3. IInv
  <2>1. ColumnsOnce /\ PendingIsNew
    BY <1>1, <1>2, NoFillType DEF ColumnsOnce, PendingIsNew
  <2>2. Trusted
    <3>1. Elements(column, NCols) = {}
      BY EmptyColumn DEF Init, Elements, Cols
    <3>2. Stored = 0
      BY <3>1, FS_EmptySet DEF Stored, m_colstart
    <3> QED
      BY <3>2 DEF Init, Trusted
  <2>3. \A c \in Cols : Counted(DOMAIN Filled(column)[c], DOMAIN OnStack(c))
    BY <1>2, EmptyColumn DEF OnStack, EntriesOf, Counted
  <2>4. Accounted
    BY <1>1, <2>2, <2>3 DEF Accounted, StackFits
  <2>5. m_elements \in Int /\ fill \in [val : Int, row : Rows, col : Cols]
    BY <1>1, NoFillType DEF Init
  <2> QED
    BY <1>1, <1>2, <2>1, <2>4, <2>5 DEF IInv
<1>4. ASSUME NEW c \in Cols, NEW r \in Rows PROVE Kept[c][r] = 0
  <2>1. Kept[c][r] = At(column[c], r)
    BY <1>1, <1>2, <1>3, KeptOfFlushed, PendingIncluded, NoFillType DEF Flushed
  <2> QED
    BY <2>1, EmptyColumn DEF Init
<1>5. Kept = [c \in Cols |-> [r \in Rows |-> 0]]
  BY <1>4 DEF Kept
<1> QED
  BY <1>3, <1>5 DEF KeptMatrix!Init

LEMMA Invariance == Spec => []IInv
<1>1. Init => IInv
  BY InitialState
<1>2. IInv /\ [Next]_vars => IInv'
  <2> SUFFICES ASSUME IInv, [Next]_vars PROVE IInv'
    OBVIOUS
  <2>1. CASE UNCHANGED vars
    BY <2>1, NothingChanged DEF vars
  <2>2. ASSUME NEW r \in Rows, NEW c \in Cols, NEW v \in Scalars, Assign(r, c, v)
        PROVE  IInv'
    BY <2>2, AssignCall
  <2>3. ASSUME NEW v \in Scalars, AssignAll(v) PROVE IInv'
    BY <2>3, AssignAllCall
  <2>4. ASSUME NEW c \in Cols, NEW v \in Vectors, SetColumn(c, v) PROVE IInv'
    <3>1. v \in [Rows -> Int]
      BY DataAssumption
    <3>2. Compress(v) \in Columns
      BY <3>1, CompressedVector
    <3> QED
      BY <2>4, <3>2, KeptOfFlushed, OverwriteStep DEF SetColumn
  <2>5. ASSUME NEW c \in Cols, NEW v \in Vectors, AddVector(c, v) PROVE IInv'
    BY <2>5, AddVectorCall
  <2>6. ASSUME NEW c \in Cols, NEW a \in Arrays, SetColumnArray(c, a) PROVE IInv'
    <3>1. a \in Columns
      BY DataAssumption, ColumnType
    <3> QED
      BY <2>6, <3>1, KeptOfFlushed, OverwriteStep DEF SetColumnArray
  <2>7. ASSUME NEW c \in Cols, NEW a \in Arrays, AddArray(c, a) PROVE IInv'
    BY <2>7, AddArrayCall
  <2>8. ASSUME NEW b \in Operands, AddMatrix(b) PROVE IInv'
    BY <2>8, AddMatrixCall
  <2>9. CASE StackInit \/ StackFlush \/ StackDestroy
    BY <2>9, StackCalls
  <2> QED
    BY <2>1, <2>2, <2>3, <2>4, <2>5, <2>6, <2>7, <2>8, <2>9 DEF Next
<1> QED
  BY <1>1, <1>2, PTL DEF Spec

(* NothingTwice: whatever is pushed, mixed and flushed, a column has one    *)
(* valid entry on the stack at most, and a pending element never doubles   *)
(* one that is stored.                                                     *)
THEOREM StoredOnce == Spec => []NothingTwice
<1>1. IInv => NothingTwice
  BY DEF IInv, NothingTwice
<1> QED
  BY <1>1, Invariance, PTL

(* StackFits: where the elements that are pushed can be counted, the stack *)
(* never takes more elements than were allocated for it, whatever its size *)
(* and that of the matrix.                                                 *)
THEOREM CarefulStackFits ==
    ASSUME Careful
    PROVE  Spec => []StackFits
<1>1. IInv => StackFits
  BY DEF IInv, Accounted
<1> QED
  BY <1>1, Invariance, PTL

-----------------------------------------------------------------------------
(* Reading                                                                 *)

(* In m_data, an element is before as many places as are stored.           *)
LEMMA IndexOfStored ==
    ASSUME IInv, NEW c \in Cols, NEW r \in DOMAIN column[c]
    PROVE  LET before == {q \in DOMAIN column[c] : q < r}
           IN  /\ m_colstart(column, c) + Cardinality(before) \in Nat
               /\ m_colstart(column, c) + Cardinality(before) < Stored
               /\ Stored \in Nat
<1> DEFINE before == {q \in DOMAIN column[c] : q < r}
           E == Elements(column, c)
           F == {c} \X before
           G == Elements(column, NCols)
<1>1. column \in [Cols -> Columns] /\ DOMAIN column[c] \in SUBSET Rows /\ Rows \subseteq Int
  BY DEF IInv, Columns, Rows
<1>2. c \in 0..NCols
  BY DEF Cols
<1>3. /\ \A d, q : <<d, q>> \in E <=> d \in 0..(c - 1) /\ q \in DOMAIN column[d]
      /\ E \subseteq Cols \X Rows /\ IsFiniteSet(E) /\ m_colstart(column, c) \in Nat
  BY <1>1, <1>2, ElementsAre
<1>4. /\ \A d, q : <<d, q>> \in G <=> d \in Cols /\ q \in DOMAIN column[d]
      /\ G \subseteq Cols \X Rows /\ IsFiniteSet(G) /\ Stored \in Nat
  BY <1>1, AllElements DEF Stored
<1>5. before \in SUBSET Rows /\ r \notin before
  <2>1. r \in Int
    BY <1>1
  <2>2. ~(r < r)
    BY <2>1
  <2> QED
    BY <1>1, <2>2
<1>6. IsFiniteSet(F) /\ Cardinality(F) = Cardinality(before)
  BY <1>5, InOneColumn
<1>7. Cardinality(before) \in Nat
  BY <1>5, SizeOfColumn
<1>8. F \subseteq G \ {<<c, r>>}
  BY <1>4, <1>5
<1>9. c \in Int /\ c \notin 0..(c - 1)
  BY DEF Cols
<1> HIDE DEF E, G
<1>10. E \subseteq G \ {<<c, r>>}
  <2> SUFFICES ASSUME NEW e \in E PROVE e \in G \ {<<c, r>>}
    OBVIOUS
  <2>1. PICK d \in Cols, q \in Rows : e = <<d, q>>
    BY <1>3
  <2>2. d \in 0..(c - 1) /\ q \in DOMAIN column[d]
    BY <1>3, <2>1
  <2>3. d # c
    BY <1>9, <2>2
  <2> QED
    BY <1>4, <2>1, <2>2, <2>3
<1>11. E \cap F = {}
  <2>1. \A q : <<c, q>> \notin E
    BY <1>3, <1>9
  <2> QED
    BY <2>1
<1>12. <<c, r>> \in G
  BY <1>4
<1> HIDE DEF F, before
<1>13. IsFiniteSet(E \cup F) /\ Cardinality(E \cup F) = Cardinality(E) + Cardinality(F)
  <2>1. Cardinality(E) \in Nat /\ Cardinality(F) \in Nat
    BY <1>3, <1>6, FS_CardinalityType
  <2>2. /\ IsFiniteSet(E \cup F)
        /\ Cardinality(E \cup F) = Cardinality(E) + Cardinality(F) - Cardinality(E \cap F)
    BY <1>3, <1>6, FS_Union
  <2>3. Cardinality(E \cap F) = 0
    BY <1>11, FS_EmptySet
  <2> QED
    BY <2>1, <2>2, <2>3
<1>14. Cardinality(G \ {<<c, r>>}) = Cardinality(G) - 1
  BY <1>4, <1>12, FS_RemoveElement
<1>15. Cardinality(E \cup F) <= Cardinality(G \ {<<c, r>>})
  <2>1. E \cup F \subseteq G \ {<<c, r>>} /\ IsFiniteSet(G \ {<<c, r>>})
    BY <1>4, <1>8, <1>10, FS_Subset
  <2> QED
    BY <2>1, FS_Subset
<1>16. Cardinality(E) = m_colstart(column, c) /\ Cardinality(G) = Stored
  BY DEF E, G, Stored, m_colstart
<1> QED
  BY <1>3, <1>4, <1>6, <1>7, <1>13, <1>14, <1>15, <1>16 DEF before

(* What is read is what is kept, as long as the matrix takes no element    *)
(* that it has stored for the pending one.                                 *)
LEMMA ReadsRight == IInv /\ Careful => Value = Kept
<1> SUFFICES ASSUME IInv, Careful PROVE Value = Kept
  OBVIOUS
<1>1. Stored \in Nat /\ m_elements \in Int /\ Stored <= m_elements
  BY FilledNumber DEF IInv, Accounted, Trusted
<1>2. ASSUME NEW c \in Cols, NEW r \in Rows
      PROVE  Read(r, c) = WithPending(c)[r]
  <2>1. /\ WithPending(c)[r] = At(column[c], r)
             + IF fill.col = c /\ fill.row = r THEN fill.val ELSE 0
        /\ At(column[c], r) \in Int /\ fill.val \in Int
    BY PendingIncluded, ElementType DEF IInv
  <2>2. CASE fill.val # 0 /\ fill.row = r /\ fill.col = c
    <3>1. Index(r, c) = m_elements
      BY <2>2 DEF Index
    <3>2. r \notin DOMAIN column[c]
      BY <2>2 DEF IInv, PendingIsNew
    <3>3. Read(r, c) = fill.val
      BY <1>1, <3>1 DEF Read
    <3> QED
      BY <2>1, <2>2, <3>2, <3>3 DEF At
  <2>3. CASE ~(fill.val # 0 /\ fill.row = r /\ fill.col = c) /\ r \in DOMAIN column[c]
    <3> DEFINE inx == m_colstart(column, c)
                         + Cardinality({q \in DOMAIN column[c] : q < r})
    <3>1. inx \in Nat /\ inx < Stored
      BY <2>3, IndexOfStored
    <3> HIDE DEF inx
    <3>2. m_elements > 0 /\ inx # m_elements
      BY <1>1, <3>1
    <3>3. Index(r, c) = inx
      BY <2>3, <3>2 DEF Index, inx
    <3>4. Read(r, c) = column[c][r]
      BY <3>1, <3>2, <3>3 DEF Read
    <3> QED
      BY <2>1, <2>3, <3>4 DEF At
  <2>4. CASE ~(fill.val # 0 /\ fill.row = r /\ fill.col = c) /\ r \notin DOMAIN column[c]
    <3>1. Index(r, c) = -1
      BY <2>4 DEF Index
    <3>2. Read(r, c) = 0
      BY <3>1 DEF Read
    <3> QED
      BY <2>1, <2>4, <3>2 DEF At
  <2> QED
    BY <2>2, <2>3, <2>4
<1> QED
  BY <1>2 DEF Value, Kept

LEMMA ReadsRightAfter == (IInv /\ Careful => Value = Kept)'
BY ReadsRight, PTL

(* For careful clients, what is true of the values kept is true of those   *)
(* that are read.                                                          *)
LEMMA SameSteps ==
    ASSUME Careful, IInv, IInv'
    PROVE  /\ \A v : \A r \in Rows, c \in Cols :
                 KeptMatrix!Assign(r, c, v) => Matrix!Assign(r, c, v)
           /\ \A v : KeptMatrix!AssignAll(v) => Matrix!AssignAll(v)
           /\ \A v : \A c \in Cols :
                 /\ KeptMatrix!SetColumn(c, v) => Matrix!SetColumn(c, v)
                 /\ KeptMatrix!AddToColumn(c, v) => Matrix!AddToColumn(c, v)
           /\ \A b : KeptMatrix!AddMatrix(b) => Matrix!AddMatrix(b)
           /\ UNCHANGED Kept => UNCHANGED Value
<1>1. Value = Kept /\ Value' = Kept'
  BY ReadsRight, ReadsRightAfter
<1> QED
  BY <1>1 DEF KeptMatrix!Assign, Matrix!Assign, KeptMatrix!AssignAll, Matrix!AssignAll,
              KeptMatrix!SetColumn, Matrix!SetColumn, KeptMatrix!AddToColumn,
              Matrix!AddToColumn, KeptMatrix!AddMatrix, Matrix!AddMatrix

-----------------------------------------------------------------------------
(* The refinement                                                          *)

LEMMA EffectOfSetColumn ==
    ASSUME IInv, NEW c \in Cols
    PROVE  /\ \A v \in Vectors : SetColumn(c, v) => KeptMatrix!SetColumn(c, v)
           /\ \A a \in Arrays :
                SetColumnArray(c, a) => KeptMatrix!SetColumn(c, [r \in Rows |-> At(a, r)])
<1>1. ASSUME NEW v \in Vectors, SetColumn(c, v) PROVE KeptMatrix!SetColumn(c, v)
  <2>1. v \in [Rows -> Int]
    BY DataAssumption
  <2>2. Compress(v) \in Columns /\ \A r \in Rows : At(Compress(v), r) = v[r]
    BY <2>1, CompressedVector
  <2>3. Overwrite(c, Compress(v)) /\ Flushed /\ UNCHANGED <<has_stack, stack, used>>
    BY <1>1 DEF SetColumn
  <2> QED
    BY <2>1, <2>2, <2>3, SetColumnCall
<1>2. ASSUME NEW a \in Arrays, SetColumnArray(c, a)
      PROVE  KeptMatrix!SetColumn(c, [r \in Rows |-> At(a, r)])
  <2> DEFINE v == [r \in Rows |-> At(a, r)]
  <2>1. a \in Columns
    BY DataAssumption, ColumnType
  <2>2. v \in [Rows -> Int] /\ \A r \in Rows : v[r] = At(a, r)
    BY <2>1, ElementType
  <2>3. Overwrite(c, a) /\ Flushed /\ UNCHANGED <<has_stack, stack, used>>
    BY <1>2 DEF SetColumnArray
  <2> HIDE DEF v
  <2>4. KeptMatrix!SetColumn(c, v)
    BY <2>1, <2>2, <2>3, SetColumnCall
  <2> QED
    BY <2>4 DEF v
<1> QED
  BY <1>1, <1>2

(* The steps as they appear to a reader of the matrix.                     *)
LEMMA Effects ==
    ASSUME Careful, IInv, IInv'
    PROVE  /\ \A r \in Rows, c \in Cols, v \in Scalars :
                 Assign(r, c, v) => Matrix!Assign(r, c, v)
           /\ \A v \in Scalars : AssignAll(v) => Matrix!AssignAll(v)
           /\ \A c \in Cols, v \in Vectors :
                 /\ SetColumn(c, v) => Matrix!SetColumn(c, v)
                 /\ AddVector(c, v) => Matrix!AddToColumn(c, v)
           /\ \A c \in Cols, a \in Arrays :
                 LET v == [r \in Rows |-> At(a, r)]
                 IN  /\ SetColumnArray(c, a) => Matrix!SetColumn(c, v)
                     /\ AddArray(c, a) => Matrix!AddToColumn(c, v)
           /\ \A b \in Operands : AddMatrix(b) => Matrix!AddMatrix(b)
           /\ StackInit \/ StackFlush \/ StackDestroy => UNCHANGED Value
<1>1. \A r \in Rows, c \in Cols, v \in Scalars :
          Assign(r, c, v) => Matrix!Assign(r, c, v)
  BY AssignCall, SameSteps
<1>2. \A v \in Scalars : AssignAll(v) => Matrix!AssignAll(v)
  BY AssignAllCall, SameSteps
<1>3. \A c \in Cols, v \in Vectors :
           /\ SetColumn(c, v) => Matrix!SetColumn(c, v)
           /\ AddVector(c, v) => Matrix!AddToColumn(c, v)
  BY EffectOfSetColumn, AddVectorCall, SameSteps
<1>4. ASSUME NEW c \in Cols, NEW a \in Arrays, NEW v, v = [r \in Rows |-> At(a, r)]
      PROVE  /\ SetColumnArray(c, a) => Matrix!SetColumn(c, v)
             /\ AddArray(c, a) => Matrix!AddToColumn(c, v)
  <2>1. /\ SetColumnArray(c, a) => KeptMatrix!SetColumn(c, v)
        /\ AddArray(c, a) => KeptMatrix!AddToColumn(c, v)
    BY <1>4, EffectOfSetColumn, AddArrayCall
  <2> QED
    BY <2>1, SameSteps
<1>5. \A b \in Operands : AddMatrix(b) => Matrix!AddMatrix(b)
  BY AddMatrixCall, SameSteps
<1>6. StackInit \/ StackFlush \/ StackDestroy => UNCHANGED Value
  BY StackCalls, SameSteps
<1> QED
  BY <1>1, <1>2, <1>3, <1>4, <1>5, <1>6

(* CallsTakeEffect: for careful clients, what the const operator() reads   *)
(* after a call is what the call promises, and the calls that manage the   *)
(* stack change nothing, when what is still on the stack is added.         *)
THEOREM CallsCorrect ==
    ASSUME Careful
    PROVE  Spec => CallsTakeEffect
<1> DEFINE AllEffects ==
       /\ \A r \in Rows, c \in Cols, v \in Scalars :
             Assign(r, c, v) => Matrix!Assign(r, c, v)
       /\ \A v \in Scalars : AssignAll(v) => Matrix!AssignAll(v)
       /\ \A c \in Cols, v \in Vectors :
             /\ SetColumn(c, v) => Matrix!SetColumn(c, v)
             /\ AddVector(c, v) => Matrix!AddToColumn(c, v)
       /\ \A c \in Cols, a \in Arrays :
             LET v == [r \in Rows |-> At(a, r)]
             IN  /\ SetColumnArray(c, a) => Matrix!SetColumn(c, v)
                 /\ AddArray(c, a) => Matrix!AddToColumn(c, v)
       /\ \A b \in Operands : AddMatrix(b) => Matrix!AddMatrix(b)
       /\ StackInit \/ StackFlush \/ StackDestroy => UNCHANGED Value
<1>1. IInv /\ IInv' => AllEffects
  BY Effects
<1>2. []IInv => [][AllEffects]_vars
  BY <1>1, PTL
<1>3. [][AllEffects]_vars => CallsTakeEffect
  BY DEF CallsTakeEffect
<1> QED
  BY <1>2, <1>3, Invariance, PTL

(* Implements: for careful clients, a matrix with a pending element and a  *)
(* stack is read like one where every call takes effect at once.           *)
THEOREM MatrixImplements ==
    ASSUME Careful
    PROVE  Spec => Implements
<1>1. Init => Matrix!Init
  <2>1. Init => IInv /\ KeptMatrix!Init
    BY InitialState
  <2> QED
    BY <2>1, ReadsRight DEF KeptMatrix!Init, Matrix!Init
<1>2. IInv /\ IInv' /\ [Next]_vars => [Matrix!Next]_Value
  <2> SUFFICES ASSUME IInv, IInv', [Next]_vars PROVE Matrix!Next \/ Value' = Value
    OBVIOUS
  <2>1. CASE UNCHANGED vars
    BY <2>1 DEF vars, Value, Read, Index, m_colstart, Elements, OnStack, EntriesOf
  <2>2. ASSUME NEW r \in Rows, NEW c \in Cols, NEW v \in Scalars, Assign(r, c, v)
        PROVE  Matrix!Next
    BY <2>2, Effects DEF Matrix!Next
  <2>3. ASSUME NEW v \in Scalars, AssignAll(v) PROVE Matrix!Next
    BY <2>3, Effects DEF Matrix!Next
  <2>4. ASSUME NEW c \in Cols, NEW v \in Vectors, SetColumn(c, v) \/ AddVector(c, v)
        PROVE  Matrix!Next
    <3>1. Matrix!SetColumn(c, v) \/ Matrix!AddToColumn(c, v)
      BY <2>4, Effects
    <3> QED
      BY <3>1 DEF Matrix!Next
  <2>5. ASSUME NEW c \in Cols, NEW a \in Arrays, SetColumnArray(c, a) \/ AddArray(c, a)
        PROVE  Matrix!Next
    <3> DEFINE v == [r \in Rows |-> At(a, r)]
    <3>1. Matrix!SetColumn(c, v) \/ Matrix!AddToColumn(c, v)
      BY <2>5, Effects
    <3>2. v \in Vectors \cup {[r \in Rows |-> At(x, r)] : x \in Arrays}
      OBVIOUS
    <3> HIDE DEF v
    <3> QED
      BY <3>1, <3>2 DEF Matrix!Next
  <2>6. ASSUME NEW b \in Operands, AddMatrix(b) PROVE Matrix!Next
    BY <2>6, Effects DEF Matrix!Next
  <2>7. CASE StackInit \/ StackFlush \/ StackDestroy
    BY <2>7, Effects
  <2> QED
    BY <2>1, <2>2, <2>3, <2>4, <2>5, <2>6, <2>7 DEF Next
<1> QED
  BY <1>1, <1>2, Invariance, PTL DEF Spec, Implements, Matrix!Spec
=============================================================================

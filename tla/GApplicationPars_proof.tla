------------------------ MODULE GApplicationPars_proof ------------------------
(***************************************************************************)
(* What holds of any number of applications that share a parameter file,   *)
(* for files of any length and any sequence of calls: the lines belong to  *)
(* the parameters, what is saved is read back, and no one reads half a     *)
(* file.                                                                   *)
(***************************************************************************)
EXTENDS GApplicationPars, FiniteSetTheorems, WellFoundedInduction,
        SequenceTheorems, TLAPS

-----------------------------------------------------------------------------
(* Types                                                                   *)

Par == [name : Names, mode : Modes, value : Values, update : {TRUE}]

Stops == {"comma", ParStop}

Places == {"idle", "read_lock", "read", "write_lock", "truncate", "create",
           "create_lock", "write"}

TypeOK ==
    /\ setting \in Settings
    /\ file \in [exists : BOOLEAN, lines : Seq(Line)]
    /\ content \in Seq(Line)
    /\ lock \in [Apps -> {"none", "read", "write"}]
    /\ pc \in [Apps -> Places]
    /\ m_pars \in [Apps -> Seq(Par)]
    /\ m_parfile \in [Apps -> Seq(Line)]
    /\ m_line \in [Apps -> Seq(Int)]
    /\ m_vstop \in [Apps -> Seq(Stops)]
    /\ sound \in [Apps -> BOOLEAN]
    /\ calls \in Nat

(* Three vectors are kept in step.                                         *)
InStep ==
    \A p \in Apps : Len(m_line[p]) = Len(m_pars[p])
                    /\ Len(m_vstop[p]) = Len(m_pars[p])

-----------------------------------------------------------------------------
(* The file                                                                *)

(* Locks are held where they are taken, and a write lock is held alone.    *)
LocksHeld ==
    /\ \A p \in Apps : lock[p] = CASE pc[p] = "read" -> "read"
                                   [] pc[p] \in {"truncate", "write"} -> "write"
                                   [] OTHER -> "none"
    /\ \A p, q \in Apps : p # q /\ lock[p] = "write" => lock[q] = "none"

(* An application that is about to fill the file has emptied it.           *)
Filling == \E p \in Apps : pc[p] \in {"create_lock", "write"}

FileState ==
    /\ Filling => file.lines = <<>>
    /\ file.exists /\ ~Filling => file.lines = content
    /\ \A p \in Apps :
          pc[p] \in {"read_lock", "read", "write_lock", "truncate"} => file.exists

FileInv ==
    /\ LocksHeld
    /\ \A p \in Apps : pc[p] # "idle" => p \in setting.users
    /\ setting.present => file.exists /\ \A p \in Apps : pc[p] \notin {"create", "create_lock"}
    /\ setting.present \/ Alone => FileState

-----------------------------------------------------------------------------
(* The lines                                                               *)

(* The lines of the parameters are those that are no comments, in order.   *)
Belong(pars, lines, number) ==
    /\ \A i \in 1..Len(pars) :
          number[i] \in 1..Len(lines) /\ lines[number[i]].name = pars[i].name
    /\ \A i, j \in 1..Len(pars) : i < j => number[i] < number[j]
    /\ \A i, j \in 1..Len(pars) : i # j => pars[i].name # pars[j].name
    /\ \A k \in 1..Len(lines) :
          lines[k].name # Comment => \E i \in 1..Len(pars) : number[i] = k

(* A line is only destroyed where the place of the value was wrong.        *)
Explained(pars, lines, number, stop) ==
    \A i \in 1..Len(pars) :
        \/ lines[number[i]].intact
        \/ IsLearn(pars[i]) /\ (stop[i] # "comma" \/ lines[number[i]].indented)

Consistent(pars, lines, number, stop) ==
    Belong(pars, lines, number) /\ Explained(pars, lines, number, stop)

(* What is to be learned is in the lines that are written.                 *)
Learned(pars, lines, number) ==
    \A i \in 1..Len(pars) : IsLearn(pars[i]) => lines[number[i]].value = pars[i].value

LinesInv ==
    \A p \in Apps : sound[p] /\ pc[p] \notin {"read_lock", "read"} =>
        /\ Consistent(m_pars[p], m_parfile[p], m_line[p], m_vstop[p])
        /\ Saving(p) => Learned(m_pars[p], m_parfile[p], m_line[p])
-----------------------------------------------------------------------------
(* Sequences                                                               *)

LEMMA FunctionIsSeq ==
    ASSUME NEW n \in Nat, NEW S, NEW f \in [1..n -> S]
    PROVE  f \in Seq(S) /\ Len(f) = n /\ DOMAIN f = 1..n
OBVIOUS

(* What a sequence is when an element is removed.                          *)
LEMMA Removed ==
    ASSUME NEW S, NEW s \in Seq(S), NEW i \in 1..Len(s)
    PROVE  /\ RemoveAt(s, i) \in Seq(S)
           /\ Len(RemoveAt(s, i)) = Len(s) - 1
           /\ \A j \in 1..(Len(s) - 1) :
                RemoveAt(s, i)[j] = s[IF j < i THEN j ELSE j + 1]
<1> DEFINE L == Len(s)
           front == SubSeq(s, 1, i - 1)
           back  == SubSeq(s, i + 1, L)
<1>1. L \in Nat /\ \A j \in 1..L : s[j] \in S
  BY LenProperties, ElementOfSeq
<1>2. /\ front \in Seq(S) /\ Len(front) = i - 1
      /\ \A j \in 1..(i - 1) : front[j] = s[j]
  <2>1. \A j \in 1..(i - 1) : s[j] \in S
    BY <1>1
  <2>2. /\ front \in Seq(S)
        /\ Len(front) = IF 1 <= i - 1 THEN i - 1 - 1 + 1 ELSE 0
        /\ \A j \in 1..(i - 1 - 1 + 1) : front[j] = s[1 + j - 1]
    BY <2>1, SubSeqProperties
  <2> QED BY <1>1, <2>2
<1>3. /\ back \in Seq(S) /\ Len(back) = L - i
      /\ \A j \in 1..(L - i) : back[j] = s[i + j]
  <2>1. \A j \in (i + 1)..L : s[j] \in S
    BY <1>1
  <2>2. /\ back \in Seq(S)
        /\ Len(back) = IF i + 1 <= L THEN L - (i + 1) + 1 ELSE 0
        /\ \A j \in 1..(L - (i + 1) + 1) : back[j] = s[(i + 1) + j - 1]
    BY <1>1, <2>1, SubSeqProperties
  <2> QED BY <1>1, <2>2
<1>4. RemoveAt(s, i) = front \o back
  BY DEF RemoveAt
<1> HIDE DEF front, back
<1>5. /\ front \o back \in Seq(S)
      /\ Len(front \o back) = Len(front) + Len(back)
      /\ \A j \in 1..(Len(front) + Len(back)) : (front \o back)[j] =
            IF j <= Len(front) THEN front[j] ELSE back[j - Len(front)]
  BY <1>2, <1>3, ConcatProperties
<1>6. Len(front) + Len(back) = L - 1
  BY <1>1, <1>2, <1>3
<1>7. ASSUME NEW j \in 1..(L - 1)
      PROVE  (front \o back)[j] = s[IF j < i THEN j ELSE j + 1]
  <2>1. CASE j < i
    <3>1. j \in 1..(i - 1)
      BY <1>1, <2>1
    <3> QED BY <1>1, <1>2, <1>5, <1>6, <2>1, <3>1
  <2>2. CASE ~(j < i)
    <3>1. j - (i - 1) \in 1..(L - i) /\ i + (j - (i - 1)) = j + 1 /\ ~(j <= i - 1)
      BY <1>1, <2>2
    <3>2. Len(front) = i - 1 /\ j \in 1..(Len(front) + Len(back))
      BY <1>1, <1>2, <1>6
    <3>3. (front \o back)[j] = back[j - (i - 1)]
      BY <1>5, <3>1, <3>2
    <3>4. back[j - (i - 1)] = s[i + (j - (i - 1))]
      BY <1>3, <3>1
    <3> QED BY <2>2, <3>1, <3>3, <3>4
  <2> QED BY <2>1, <2>2
<1> QED BY <1>4, <1>5, <1>6, <1>7

(* A set of naturals has a least element.                                  *)
LEMMA LeastNatural ==
    ASSUME NEW M \in SUBSET Nat, M # {}
    PROVE  \E x \in M : \A y \in M : x <= y
<1>1. PICK x \in M : \A y \in M : ~ (<<y, x>> \in OpToRel(<, Nat))
  BY WFMin, NatLessThanWellFounded
<1>2. \A y \in M : ~ (y < x)
  BY <1>1 DEF OpToRel
<1> QED BY <1>2

(* What a sequence is when an element is inserted.                         *)
LEMMA Inserted ==
    ASSUME NEW S, NEW s \in Seq(S), NEW i \in 1..(Len(s) + 1), NEW e \in S
    PROVE  /\ InsertAt(s, i, e) \in Seq(S)
           /\ Len(InsertAt(s, i, e)) = Len(s) + 1
<1> DEFINE L == Len(s)
           front == SubSeq(s, 1, i - 1)
           back  == SubSeq(s, i, L)
<1>1. L \in Nat /\ \A j \in 1..L : s[j] \in S
  BY LenProperties, ElementOfSeq
<1>2. front \in Seq(S) /\ Len(front) = i - 1
  <2>1. \A j \in 1..(i - 1) : s[j] \in S
    BY <1>1
  <2>2. /\ front \in Seq(S)
        /\ Len(front) = IF 1 <= i - 1 THEN i - 1 - 1 + 1 ELSE 0
    BY <2>1, SubSeqProperties
  <2> QED BY <1>1, <2>2
<1>3. back \in Seq(S) /\ Len(back) = L - i + 1
  <2>1. \A j \in i..L : s[j] \in S
    BY <1>1
  <2>2. /\ back \in Seq(S)
        /\ Len(back) = IF i <= L THEN L - i + 1 ELSE 0
    BY <1>1, <2>1, SubSeqProperties
  <2> QED BY <1>1, <2>2
<1>4. InsertAt(s, i, e) = (front \o <<e>>) \o back
  BY DEF InsertAt
<1> HIDE DEF front, back
<1>5. <<e>> \in Seq(S) /\ Len(<<e>>) = 1
  OBVIOUS
<1>6. front \o <<e>> \in Seq(S) /\ Len(front \o <<e>>) = i
  BY <1>2, <1>5, ConcatProperties
<1>7. /\ (front \o <<e>>) \o back \in Seq(S)
      /\ Len((front \o <<e>>) \o back) = i + (L - i + 1)
  <2> DEFINE most == front \o <<e>>
  <2> HIDE DEF most
  <2>1. most \in Seq(S) /\ Len(most) = i
    BY <1>6 DEF most
  <2>2. most \o back \in Seq(S) /\ Len(most \o back) = Len(most) + Len(back)
    BY <1>3, <2>1, ConcatProperties
  <2>3. Len(most \o back) = i + (L - i + 1)
    BY <1>3, <2>1, <2>2
  <2> QED BY <2>2, <2>3 DEF most
<1> QED BY <1>1, <1>4, <1>7

-----------------------------------------------------------------------------
(* A finite set of numbers in their order                                  *)

Increasing(s) == \A i, j \in DOMAIN s : i < j => s[i] < s[j]

(* Every set of numbers up to a bound can be put in order.                 *)
LEMMA OrderExists ==
    ASSUME NEW n \in Nat, NEW S \in SUBSET (1..n)
    PROVE  \E s \in [1..Cardinality(S) -> S] : Increasing(s)
<1> DEFINE Ordered(T) == \E s \in [1..Cardinality(T) -> T] : Increasing(s)
           Bad == {m \in Nat : \E T \in SUBSET (1..m) : ~Ordered(T)}
<1>1. SUFFICES ASSUME Bad # {} PROVE FALSE
  <2> QED BY <1>1
<1>2. PICK m \in Bad : \A y \in Bad : m <= y
  <2>1. Bad \in SUBSET Nat
    OBVIOUS
  <2> HIDE DEF Bad
  <2> QED BY <1>1, <2>1, LeastNatural
<1>3. PICK T \in SUBSET (1..m) : ~Ordered(T)
  BY <1>2
<1>4. IsFiniteSet(T) /\ Cardinality(T) \in Nat
  BY FS_Interval, FS_Subset, FS_CardinalityType, 1 \in Int, m \in Int
<1>5. T # {}
  <2>1. SUFFICES ASSUME T = {} PROVE FALSE
    OBVIOUS
  <2>2. Cardinality(T) = 0
    BY <2>1, FS_EmptySet
  <2>3. [i \in 1..0 |-> 0] \in [1..Cardinality(T) -> T] /\ Increasing([i \in 1..0 |-> 0])
    BY <2>1, <2>2 DEF Increasing
  <2> QED BY <1>3, <2>3
<1>6. m \in Nat /\ m >= 1
  <2>1. m \in Nat
    BY <1>2
  <2>2. PICK k \in T : TRUE
    BY <1>5
  <2>3. k \in 1..m
    BY <2>2
  <2> QED BY <2>1, <2>3
<1>7. \A U \in SUBSET (1..(m - 1)) : Ordered(U)
  <2>1. m - 1 \in Nat /\ m - 1 \notin Bad
    <3> HIDE DEF Bad
    <3> QED BY <1>2, <1>6
  <2> HIDE DEF Ordered
  <2> QED BY <2>1
<1>8. m \in T
  <2>1. SUFFICES ASSUME m \notin T PROVE FALSE
    OBVIOUS
  <2>2. T \in SUBSET (1..(m - 1))
    BY <1>6, <2>1
  <2> HIDE DEF Ordered
  <2> QED BY <1>3, <1>7, <2>2
<1> DEFINE U == T \ {m}
           c == Cardinality(T)
<1>9. U \in SUBSET (1..(m - 1)) /\ Cardinality(U) = c - 1
  <2>1. U \in SUBSET (1..(m - 1))
    BY <1>6
  <2> QED BY <1>4, <1>8, <2>1, FS_RemoveElement
<1>10. PICK s \in [1..(c - 1) -> U] : Increasing(s)
  <2>1. Ordered(U)
    <3> HIDE DEF Ordered, U
    <3> QED BY <1>7, <1>9
  <2> HIDE DEF U
  <2> QED BY <1>9, <2>1
<1> DEFINE t == [i \in 1..c |-> IF i = c THEN m ELSE s[i]]
<1>11. t \in [1..c -> T]
  <2>1. \A i \in 1..c : i # c => i \in 1..(c - 1)
    BY <1>4
  <2> QED BY <1>8, <1>10, <2>1
<1>12. Increasing(t)
  <2>1. SUFFICES ASSUME NEW i \in 1..c, NEW j \in 1..c, i < j PROVE t[i] < t[j]
    BY DEF Increasing
  <2>2. i \in 1..(c - 1) /\ s[i] \in U /\ t[i] = s[i] /\ s[i] < m
    <3>1. i \in 1..(c - 1)
      BY <1>4, <2>1
    <3>2. s[i] \in U /\ t[i] = s[i]
      BY <1>4, <1>10, <2>1, <3>1
    <3>3. s[i] \in 1..(m - 1)
      BY <1>9, <3>2
    <3> QED BY <1>6, <3>1, <3>2, <3>3
  <2>3. CASE j = c
    BY <2>2, <2>3
  <2>4. CASE j # c
    <3>1. j \in 1..(c - 1) /\ t[j] = s[j]
      BY <1>4, <2>4
    <3> QED BY <1>10, <2>1, <2>2, <3>1 DEF Increasing
  <2> QED BY <2>3, <2>4
<1> QED
  <2> HIDE DEF t
  <2> QED BY <1>3, <1>11, <1>12

(* An order of a set leaves nothing out.                                   *)
LEMMA OrderIsOnto ==
    ASSUME NEW S \in SUBSET Int, IsFiniteSet(S),
           NEW s \in [1..Cardinality(S) -> S], Increasing(s)
    PROVE  \A k \in S : \E i \in 1..Cardinality(S) : s[i] = k
<1> DEFINE c == Cardinality(S)
<1>1. c \in Nat
  BY FS_CardinalityType
<1>2. \A i, j \in 1..c : s[i] = s[j] => i = j
  <2>1. SUFFICES ASSUME NEW i \in 1..c, NEW j \in 1..c, s[i] = s[j], i # j PROVE FALSE
    OBVIOUS
  <2>2. i < j \/ j < i
    BY <1>1, <2>1
  <2>3. s[i] < s[j] \/ s[j] < s[i]
    BY <2>2 DEF Increasing
  <2>4. s[i] \in Int /\ s[j] \in Int
    OBVIOUS
  <2> QED BY <2>1, <2>3, <2>4
<1>3. s \in Injection(1..c, S)
  BY <1>2 DEF Injection, IsInjective
<1>4. IsFiniteSet(1..c) /\ Cardinality(1..c) = c
  BY <1>1, FS_Interval, 1 \in Int
<1>5. s \in Surjection(1..c, S)
  BY <1>3, <1>4, FS_Injection
<1> QED BY <1>5 DEF Surjection

(* There is one order of a set only.                                       *)
LEMMA OrderIsUnique ==
    ASSUME NEW n \in Nat, NEW S \in SUBSET Int,
           NEW s \in [1..n -> S], Increasing(s), \A k \in S : \E i \in 1..n : s[i] = k,
           NEW t \in [1..Cardinality(S) -> S], Increasing(t)
    PROVE  Cardinality(S) = n /\ t = s
<1>1. \A i, j \in 1..n : s[i] = s[j] => i = j
  <2>1. SUFFICES ASSUME NEW i \in 1..n, NEW j \in 1..n, s[i] = s[j], i # j PROVE FALSE
    OBVIOUS
  <2>2. s[i] < s[j] \/ s[j] < s[i]
    BY <2>1 DEF Increasing
  <2>3. s[i] \in Int /\ s[j] \in Int
    OBVIOUS
  <2> QED BY <2>1, <2>2, <2>3
<1>2. s \in Bijection(1..n, S)
  BY <1>1 DEF Bijection, Injection, Surjection, IsInjective
<1>3. IsFiniteSet(1..n) /\ Cardinality(1..n) = n
  BY FS_Interval, 1 \in Int
<1>4. IsFiniteSet(S) /\ Cardinality(S) = n
  BY <1>2, <1>3, FS_Bijection DEF ExistsBijection
<1>5. t \in [1..n -> S] /\ \A k \in S : \E i \in 1..n : t[i] = k
  BY <1>4, OrderIsOnto
<1> DEFINE Differ == {i \in 1..n : t[i] # s[i]}
<1>6. Differ = {}
  <2>1. SUFFICES ASSUME Differ # {} PROVE FALSE
    OBVIOUS
  <2>2. PICK i \in Differ : \A j \in Differ : i <= j
    <3>1. Differ \in SUBSET Nat
      OBVIOUS
    <3> HIDE DEF Differ
    <3> QED BY <2>1, <3>1, LeastNatural
  <2>3. i \in 1..n /\ t[i] # s[i] /\ \A j \in 1..n : j < i => t[j] = s[j]
    BY <2>2
  <2>4. PICK j \in 1..n : s[j] = t[i]
    BY <1>5, <2>3
  <2>5. PICK l \in 1..n : t[l] = s[i]
    BY <1>5, <2>3
  <2>6. \A a, b \in 1..n : (a < b => s[a] < s[b] /\ t[a] < t[b])
    BY <1>5 DEF Increasing
  <2>7. s[i] \in Int /\ t[i] \in Int /\ s[j] \in Int /\ t[j] \in Int
        /\ s[l] \in Int /\ t[l] \in Int
    BY <1>5, <2>3
  <2>8. i < j
    <3>1. j # i
      BY <2>3, <2>4
    <3>2. ~(j < i)
      BY <2>3, <2>4, <2>6, <2>7
    <3> QED BY <2>3, <3>1, <3>2
  <2>9. i < l
    <3>1. l # i
      BY <2>3, <2>5
    <3>2. ~(l < i)
      BY <2>3, <2>5, <2>6, <2>7
    <3> QED BY <2>3, <3>1, <3>2
  <2> QED BY <2>3, <2>4, <2>5, <2>6, <2>7, <2>8, <2>9
<1> QED BY <1>4, <1>5, <1>6

-----------------------------------------------------------------------------
(* Parameters and their lines                                              *)

USE ConstantAssumption

LEMMA ConstructedPar ==
    ASSUME NEW name \in Names, NEW mode \in Modes, NEW v \in Values
    PROVE  /\ Construct(name, mode, v) \in Par
           /\ Construct(name, mode, v).name = name
           /\ Construct(name, mode, v).value = v
BY DEF Construct, StopQuery, Par, Modes

LEMMA AutoPar ==
    ASSUME NEW par \in Par
    PROVE  /\ Resolved(par) \in Par
           /\ Resolved(par).name = par.name
           /\ Resolved(par).value = par.value
BY DEF Resolved, Par, Modes

(* A parameter stays one that is to be learned when it gets a value.       *)
LEMMA ChangedPar ==
    ASSUME NEW par \in Par, NEW v \in Values
    PROVE  /\ LET other == [par EXCEPT !.mode = StopQuery(@)]
              IN  /\ other \in Par /\ other.name = par.name
                  /\ IsLearn(other) <=> IsLearn(par)
           /\ /\ SetValue(par, v) \in Par /\ SetValue(par, v).name = par.name
              /\ IsLearn(SetValue(par, v)) <=> IsLearn(par)
<1>1. StopQuery(par.mode) \in Modes
  BY DEF StopQuery, Modes, Par
<1>2. StopQuery(par.mode) \in {"hl", "ql"} <=> par.mode \in {"hl", "ql"}
  BY DEF StopQuery
<1>3. [par EXCEPT !.mode = StopQuery(@)].mode = StopQuery(par.mode)
  BY DEF Par
<1>4. SetValue(par, v).mode = StopQuery(par.mode)
  BY DEF SetValue, Par
<1>5. /\ [par EXCEPT !.mode = StopQuery(@)] \in Par
      /\ [par EXCEPT !.mode = StopQuery(@)].name = par.name
  BY <1>1 DEF Par
<1>6. SetValue(par, v) \in Par /\ SetValue(par, v).name = par.name
  BY <1>1 DEF Par, SetValue
<1> QED BY <1>2, <1>3, <1>4, <1>5, <1>6 DEF IsLearn

LEMMA QueriedPar ==
    ASSUME NEW par \in Par, NEW answer \in Values \cup {NoAnswer}
    PROVE  /\ Queried(par, answer) \in Par
           /\ Queried(par, answer).name = par.name
           /\ IsLearn(Queried(par, answer)) <=> IsLearn(par)
<1>1. CASE ~IsQuery(par)
  BY <1>1 DEF Queried
<1>2. CASE IsQuery(par) /\ answer = NoAnswer
  <2>1. Queried(par, answer) = [par EXCEPT !.mode = StopQuery(@)]
    BY <1>2 DEF Queried
  <2>2. PICK v \in Values : TRUE
    BY DEF Par
  <2> QED BY <2>1, <2>2, ChangedPar
<1>3. CASE IsQuery(par) /\ answer # NoAnswer
  BY <1>3, ChangedPar DEF Queried
<1> QED BY <1>1, <1>2, <1>3

LEMMA BuiltLine ==
    ASSUME NEW par \in Par, NEW answer \in Values \cup {NoAnswer}
    PROVE  /\ ParLine(par, answer) \in Line
           /\ ParLine(par, answer).name = par.name
           /\ ParLine(par, answer).intact
<1>1. Queried(par, answer).value \in Values
  BY QueriedPar DEF Par
<1> QED BY <1>1 DEF ParLine, Line, Par

LEMMA WrittenLine ==
    ASSUME NEW line \in Line, NEW stop, NEW v \in Values
    PROVE  /\ Written(line, stop, v) \in Line
           /\ Written(line, stop, v).name = line.name
           /\ Written(line, stop, v).value = v
           /\ Written(line, stop, v).indented = line.indented
           /\ line.intact /\ stop = "comma" /\ ~line.indented =>
                Written(line, stop, v).intact
BY DEF Written, Line

(* The lines that are parsed are lines of parameters, in order; they are   *)
(* all that there are if nothing is refused.                               *)
LEMMA TakenLines ==
    ASSUME NEW pars, NEW lines \in Seq(Line)
    PROVE  LET taken == Taken(pars, lines) IN
           /\ taken \in Seq(Int)
           /\ \A i \in 1..Len(taken) :
                taken[i] \in 1..Len(lines) /\ lines[taken[i]].name # Comment
           /\ \A i, j \in 1..Len(taken) : i < j => taken[i] < taken[j]
           /\ ~Throws(pars, lines) =>
                \A k \in 1..Len(lines) : lines[k].name # Comment =>
                    \E i \in 1..Len(taken) : taken[i] = k
<1> DEFINE T == {k \in DOMAIN lines :
                    /\ lines[k].name # Comment
                    /\ \A j \in Refused(pars, lines) : k < j}
           n == Len(lines)
           c == Cardinality(T)
           taken == Taken(pars, lines)
<1>1. n \in Nat /\ DOMAIN lines = 1..n
  BY LenProperties
<1>2. T \in SUBSET (1..n)
  BY <1>1
<1>3. IsFiniteSet(T) /\ c \in Nat
  <2>1. IsFiniteSet(1..n)
    BY <1>1, FS_Interval, 1 \in Int
  <2> HIDE DEF T
  <2> QED BY <1>2, <2>1, FS_Subset, FS_CardinalityType
<1>4. \E s \in [1..c -> T] : Increasing(s)
  <2> HIDE DEF T
  <2> QED BY <1>1, <1>2, OrderExists
<1>5. taken = CHOOSE s \in [1..c -> T] : Increasing(s)
  BY DEF Taken, Increasing
<1>6. taken \in [1..c -> T] /\ Increasing(taken)
  <2> HIDE DEF T, taken
  <2> QED BY <1>4, <1>5
<1>7. \A k \in T : \E i \in 1..c : taken[i] = k
  <2> HIDE DEF T, taken
  <2>1. T \in SUBSET Int
    BY <1>1, <1>2
  <2> QED BY <1>3, <1>6, <2>1, OrderIsOnto
<1>8. taken \in Seq(Int) /\ Len(taken) = c
  <2> HIDE DEF taken, T
  <2>1. \A k \in T : k \in Int
    BY <1>1, <1>2
  <2>2. taken \in [1..c -> Int]
    BY <1>6, <2>1
  <2> QED BY <1>3, <2>2, FunctionIsSeq
<1>9. \A i \in 1..c : taken[i] \in T
  BY <1>6
<1>10. \A i, j \in 1..c : i < j => taken[i] < taken[j]
  BY <1>6 DEF Increasing
<1>11. ASSUME ~Throws(pars, lines), NEW k \in 1..n, lines[k].name # Comment
       PROVE  k \in T
  BY <1>1, <1>11 DEF Throws
<1> HIDE DEF taken
<1>12. \A i \in 1..c : taken[i] \in 1..n /\ lines[taken[i]].name # Comment
  BY <1>1, <1>9
<1>13. ~Throws(pars, lines) =>
           \A k \in 1..n : lines[k].name # Comment => \E i \in 1..c : taken[i] = k
  BY <1>7, <1>11
<1> QED BY <1>8, <1>10, <1>12, <1>13 DEF taken

(* What parse() adds to the parameters.                                    *)
LEMMA ParsedPars ==
    ASSUME NEW pars \in Seq(Par), NEW lines \in Seq(Line)
    PROVE  LET taken == Taken(pars, lines)
               all   == Parsed(pars, lines)
           IN  /\ all \in Seq(Par)
               /\ Len(all) = Len(pars) + Len(taken)
               /\ \A i \in 1..Len(taken) :
                    /\ all[Len(pars) + i].name = lines[taken[i]].name
                    /\ all[Len(pars) + i].value = lines[taken[i]].value
<1> DEFINE taken == Taken(pars, lines)
           new == [i \in DOMAIN taken |->
                    Construct(lines[taken[i]].name, lines[taken[i]].mode,
                              lines[taken[i]].value)]
           sum == pars \o new
           N   == Len(pars)
           M   == Len(taken)
<1>1. /\ taken \in Seq(Int) /\ M \in Nat /\ DOMAIN taken = 1..M
      /\ \A i \in 1..M : taken[i] \in 1..Len(lines) /\ lines[taken[i]].name # Comment
  <2>1. taken \in Seq(Int)
    BY TakenLines
  <2>2. \A i \in 1..M : taken[i] \in 1..Len(lines) /\ lines[taken[i]].name # Comment
    BY TakenLines
  <2> HIDE DEF taken
  <2> QED BY <2>1, <2>2, LenProperties
<1> HIDE DEF taken
<1>2. \A i \in 1..M : lines[taken[i]] \in Line
  BY <1>1, ElementOfSeq
<1>3. \A i \in 1..M :
        /\ new[i] \in Par
        /\ new[i].name = lines[taken[i]].name
        /\ new[i].value = lines[taken[i]].value
  <2>1. SUFFICES ASSUME NEW i \in 1..M
                 PROVE  /\ new[i] \in Par
                        /\ new[i].name = lines[taken[i]].name
                        /\ new[i].value = lines[taken[i]].value
    OBVIOUS
  <2>2. lines[taken[i]].name \in Names /\ lines[taken[i]].mode \in Modes
        /\ lines[taken[i]].value \in Values
    BY <1>1, <1>2 DEF Line
  <2>3. new[i] = Construct(lines[taken[i]].name, lines[taken[i]].mode,
                           lines[taken[i]].value)
    BY <1>1
  <2> QED BY <2>2, <2>3, ConstructedPar
<1>4. new \in Seq(Par) /\ Len(new) = M
  <2>1. new \in [1..M -> Par]
    BY <1>1, <1>3
  <2> HIDE DEF new
  <2> QED BY <1>1, <2>1, FunctionIsSeq
<1> HIDE DEF new
<1>5. N \in Nat
  BY LenProperties
<1>6. /\ sum \in Seq(Par) /\ Len(sum) = N + M
      /\ \A i \in 1..(N + M) : sum[i] = IF i <= N THEN pars[i] ELSE new[i - N]
  <2>1. /\ sum \in Seq(Par) /\ Len(sum) = N + Len(new)
        /\ \A i \in 1..(N + Len(new)) :
              sum[i] = IF i <= N THEN pars[i] ELSE new[i - N]
    BY <1>4, ConcatProperties
  <2> QED BY <1>4, <2>1
<1>7. \A i \in 1..M : sum[N + i] = new[i]
  <2>1. SUFFICES ASSUME NEW i \in 1..M PROVE sum[N + i] = new[i]
    OBVIOUS
  <2>2. N + i \in 1..(N + M) /\ ~(N + i <= N) /\ (N + i) - N = i
    BY <1>1, <1>5
  <2> QED BY <1>6, <2>2
<1> HIDE DEF sum
<1>8. /\ DOMAIN sum = 1..(N + M)
      /\ \A i \in 1..(N + M) : sum[i] \in Par
  BY <1>6, LenProperties, ElementOfSeq
<1> DEFINE auto == [i \in DOMAIN sum |-> Resolved(sum[i])]
<1>9. /\ auto \in Seq(Par) /\ Len(auto) = N + M
      /\ \A i \in 1..(N + M) :
            auto[i].name = sum[i].name /\ auto[i].value = sum[i].value
  <2>1. auto \in [1..(N + M) -> Par]
    BY <1>8, AutoPar
  <2>2. \A i \in 1..(N + M) :
            auto[i].name = sum[i].name /\ auto[i].value = sum[i].value
    BY <1>8, AutoPar
  <2> HIDE DEF auto
  <2>3. N + M \in Nat
    BY <1>1, <1>5
  <2> QED BY <2>1, <2>2, <2>3, FunctionIsSeq
<1>10. Parsed(pars, lines) = IF Throws(pars, lines) THEN sum ELSE auto
  BY DEF Parsed, taken, new, sum
<1> HIDE DEF auto
<1>11. \A i \in 1..M : N + i \in 1..(N + M)
  BY <1>1, <1>5
<1>12. /\ Parsed(pars, lines) \in Seq(Par)
       /\ Len(Parsed(pars, lines)) = N + M
       /\ \A i \in 1..M :
            /\ Parsed(pars, lines)[N + i].name = lines[taken[i]].name
            /\ Parsed(pars, lines)[N + i].value = lines[taken[i]].value
  <2>1. CASE Throws(pars, lines)
    <3>1. Parsed(pars, lines) = sum
      BY <1>10, <2>1
    <3>2. sum \in Seq(Par) /\ Len(sum) = N + M
      BY <1>6
    <3>3. \A i \in 1..M : sum[N + i].name = lines[taken[i]].name
                           /\ sum[N + i].value = lines[taken[i]].value
      BY <1>3, <1>7
    <3> QED BY <3>1, <3>2, <3>3
  <2>2. CASE ~Throws(pars, lines)
    <3>1. Parsed(pars, lines) = auto
      BY <1>10, <2>2
    <3>2. \A i \in 1..M : auto[N + i].name = new[i].name
                           /\ auto[N + i].value = new[i].value
      BY <1>7, <1>9, <1>11
    <3> QED BY <1>3, <1>9, <3>1, <3>2
  <2> QED BY <2>1, <2>2
<1> QED BY <1>12 DEF taken
(* The numbers of the lines after one of them is removed.                  *)
LEMMA ShiftedNumbers ==
    ASSUME NEW number \in Seq(Int), NEW index \in 1..Len(number)
    PROVE  /\ Shifted(number, index) \in Seq(Int)
           /\ Len(Shifted(number, index)) = Len(number) - 1
           /\ \A j \in 1..(Len(number) - 1) : Shifted(number, index)[j] =
                IF j < index THEN number[j] ELSE number[j + 1] - 1
<1> DEFINE rest == RemoveAt(number, index)
           L == Len(number)
<1>1. /\ rest \in Seq(Int) /\ Len(rest) = L - 1
      /\ \A j \in 1..(L - 1) : rest[j] = number[IF j < index THEN j ELSE j + 1]
  BY Removed
<1>2. L \in Nat /\ L - 1 \in Nat
  BY LenProperties
<1> HIDE DEF rest
<1>3. DOMAIN rest = 1..(L - 1) /\ \A j \in 1..(L - 1) : rest[j] \in Int
  BY <1>1, <1>2, LenProperties, ElementOfSeq
<1> DEFINE new == [i \in DOMAIN rest |-> IF i >= index THEN rest[i] - 1 ELSE rest[i]]
<1>4. new \in [1..(L - 1) -> Int]
  BY <1>3
<1>5. \A j \in 1..(L - 1) :
        new[j] = IF j < index THEN number[j] ELSE number[j + 1] - 1
  <2>1. SUFFICES ASSUME NEW j \in 1..(L - 1)
                 PROVE  new[j] = IF j < index THEN number[j] ELSE number[j + 1] - 1
    OBVIOUS
  <2>2. CASE j < index
    <3>1. ~(j >= index) /\ new[j] = rest[j]
      BY <1>3, <2>2
    <3> QED BY <1>1, <2>2, <3>1
  <2>3. CASE ~(j < index)
    <3>1. j >= index /\ new[j] = rest[j] - 1
      BY <1>3, <2>3
    <3> QED BY <1>1, <2>3, <3>1
  <2> QED BY <2>2, <2>3
<1>6. Shifted(number, index) = new
  BY DEF Shifted, rest
<1> HIDE DEF new
<1> QED BY <1>2, <1>4, <1>5, <1>6, FunctionIsSeq

(* A set of numbers up to a bound has a greatest element.                  *)
LEMMA GreatestNumber ==
    ASSUME NEW n \in Nat, NEW S \in SUBSET (1..n), S # {}
    PROVE  Max(S) \in S
<1> DEFINE M == {m \in Nat : n - m \in S}
<1>1. PICK x \in S : TRUE
  OBVIOUS
<1>2. n - x \in M
  BY <1>1
<1>3. PICK m \in M : \A y \in M : m <= y
  <2>1. M \in SUBSET Nat /\ M # {}
    BY <1>2
  <2> HIDE DEF M
  <2> QED BY <2>1, LeastNatural
<1>4. n - m \in S /\ \A y \in S : n - m >= y
  <2>1. SUFFICES ASSUME NEW y \in S PROVE n - m >= y
    BY <1>3
  <2>2. n - y \in M
    BY <2>1
  <2>3. m <= n - y
    BY <1>3, <2>2
  <2> QED BY <1>3, <2>1, <2>3
<1> QED BY <1>4 DEF Max

-----------------------------------------------------------------------------
(* Types                                                                   *)

ContainerOK ==
    /\ m_pars \in [Apps -> Seq(Par)]
    /\ m_parfile \in [Apps -> Seq(Line)]
    /\ m_line \in [Apps -> Seq(Int)]
    /\ m_vstop \in [Apps -> Seq(Stops)]
    /\ InStep

SharedOK ==
    /\ file \in [exists : BOOLEAN, lines : Seq(Line)]
    /\ content \in Seq(Line)
    /\ lock \in [Apps -> {"none", "read", "write"}]

ControlOK ==
    /\ setting \in Settings
    /\ pc \in [Apps -> Places]
    /\ sound \in [Apps -> BOOLEAN]
    /\ calls \in Nat

(* The other applications have vectors of their own.                       *)
OthersKept(p) ==
    \A q \in Apps \ {p} :
        /\ m_pars'[q] = m_pars[q] /\ m_parfile'[q] = m_parfile[q]
        /\ m_line'[q] = m_line[q] /\ m_vstop'[q] = m_vstop[q]

(* What the vectors of an application are.                                 *)
LEMMA Vectors ==
    ASSUME ContainerOK, NEW p \in Apps
    PROVE  /\ m_pars[p] \in Seq(Par) /\ m_parfile[p] \in Seq(Line)
           /\ m_line[p] \in Seq(Int) /\ m_vstop[p] \in Seq(Stops)
           /\ Len(m_pars[p]) \in Nat /\ Len(m_parfile[p]) \in Nat
           /\ Len(m_line[p]) = Len(m_pars[p]) /\ Len(m_vstop[p]) = Len(m_pars[p])
           /\ DOMAIN m_pars[p] = 1..Len(m_pars[p])
           /\ DOMAIN m_line[p] = 1..Len(m_pars[p])
           /\ DOMAIN m_vstop[p] = 1..Len(m_pars[p])
           /\ DOMAIN m_parfile[p] = 1..Len(m_parfile[p])
           /\ \A i \in 1..Len(m_pars[p]) :
                m_pars[p][i] \in Par /\ m_line[p][i] \in Int /\ m_vstop[p][i] \in Stops
           /\ \A k \in 1..Len(m_parfile[p]) : m_parfile[p][k] \in Line
<1>1. /\ m_pars[p] \in Seq(Par) /\ m_parfile[p] \in Seq(Line)
      /\ m_line[p] \in Seq(Int) /\ m_vstop[p] \in Seq(Stops)
      /\ Len(m_line[p]) = Len(m_pars[p]) /\ Len(m_vstop[p]) = Len(m_pars[p])
  BY DEF ContainerOK, InStep
<1> QED BY <1>1, LenProperties, ElementOfSeq

(* What the system file is.                                                *)
LEMMA SettingFacts ==
    ASSUME setting \in Settings
    PROVE  setting.system \in Seq(Line) /\ setting.users \subseteq Apps
           /\ setting.present \in BOOLEAN
BY DEF Setting

LEMMA StoredVectors ==
    ASSUME ContainerOK, NEW p \in Apps, NEW pars \in Seq(Par), NEW lines \in Seq(Line),
           NEW number \in Seq(Int), NEW stop \in Seq(Stops),
           Len(number) = Len(pars), Len(stop) = Len(pars),
           Store(p, pars, lines, number, stop)
    PROVE  /\ ContainerOK'
           /\ m_pars'[p] = pars /\ m_parfile'[p] = lines
           /\ m_line'[p] = number /\ m_vstop'[p] = stop
           /\ OthersKept(p)
<1>1. /\ m_pars'[p] = pars /\ m_parfile'[p] = lines
      /\ m_line'[p] = number /\ m_vstop'[p] = stop
  BY DEF Store, ContainerOK
<1>2. OthersKept(p)
  BY DEF Store, ContainerOK, OthersKept
<1>3. /\ m_pars' \in [Apps -> Seq(Par)]
      /\ m_parfile' \in [Apps -> Seq(Line)]
      /\ m_line' \in [Apps -> Seq(Int)]
      /\ m_vstop' \in [Apps -> Seq(Stops)]
  BY DEF Store, ContainerOK
<1>4. InStep'
  BY <1>1, <1>2 DEF ContainerOK, InStep, OthersKept
<1> QED BY <1>1, <1>2, <1>3, <1>4 DEF ContainerOK

(* What parse() leaves in the vectors.                                     *)
LEMMA ParsedVectors ==
    ASSUME ContainerOK, NEW p \in Apps, NEW lines \in Seq(Line), Parse(p, lines)
    PROVE  /\ ContainerOK'
           /\ m_pars'[p] = Parsed(m_pars[p], lines) /\ m_parfile'[p] = lines
           /\ m_line'[p] = m_line[p] \o Taken(m_pars[p], lines)
           /\ m_vstop'[p] = m_vstop[p] \o
                [i \in DOMAIN Taken(m_pars[p], lines) |-> "comma"]
           /\ OthersKept(p)
<1> DEFINE taken == Taken(m_pars[p], lines)
           stops == [i \in DOMAIN taken |-> "comma"]
<1>1. /\ m_pars[p] \in Seq(Par) /\ m_line[p] \in Seq(Int) /\ m_vstop[p] \in Seq(Stops)
      /\ Len(m_line[p]) = Len(m_pars[p]) /\ Len(m_vstop[p]) = Len(m_pars[p])
  BY Vectors
<1>2. taken \in Seq(Int)
  BY TakenLines
<1>3. Parsed(m_pars[p], lines) \in Seq(Par)
      /\ Len(Parsed(m_pars[p], lines)) = Len(m_pars[p]) + Len(taken)
  BY <1>1, ParsedPars
<1>4. Store(p, Parsed(m_pars[p], lines), lines, m_line[p] \o taken, m_vstop[p] \o stops)
  BY DEF Parse
<1> HIDE DEF taken
<1>5. stops \in Seq(Stops) /\ Len(stops) = Len(taken)
  <2>1. Len(taken) \in Nat /\ DOMAIN taken = 1..Len(taken)
    BY <1>2, LenProperties
  <2>2. stops \in [1..Len(taken) -> Stops]
    BY <2>1 DEF Stops
  <2> HIDE DEF stops
  <2> QED BY <2>1, <2>2, FunctionIsSeq
<1> HIDE DEF stops
<1>6. m_line[p] \o taken \in Seq(Int)
      /\ Len(m_line[p] \o taken) = Len(m_line[p]) + Len(taken)
  <2> DEFINE Numbers == Int
             own == m_line[p]
  <2>1. own \in Seq(Numbers) /\ taken \in Seq(Numbers)
    BY <1>1, <1>2
  <2> HIDE DEF Numbers, own
  <2>2. own \o taken \in Seq(Numbers) /\ Len(own \o taken) = Len(own) + Len(taken)
    BY <2>1, ConcatProperties
  <2> QED BY <2>2 DEF Numbers, own
<1>7. m_vstop[p] \o stops \in Seq(Stops)
      /\ Len(m_vstop[p] \o stops) = Len(m_vstop[p]) + Len(stops)
  <2> DEFINE own == m_vstop[p]
  <2>1. own \in Seq(Stops) /\ stops \in Seq(Stops)
    BY <1>1, <1>5
  <2> HIDE DEF own
  <2>2. own \o stops \in Seq(Stops) /\ Len(own \o stops) = Len(own) + Len(stops)
    BY <2>1, ConcatProperties
  <2> QED BY <2>2 DEF own
<1> DEFINE number == m_line[p] \o taken
           stop == m_vstop[p] \o stops
           pars == Parsed(m_pars[p], lines)
<1>8. /\ pars \in Seq(Par) /\ number \in Seq(Int) /\ stop \in Seq(Stops)
      /\ Len(number) = Len(pars) /\ Len(stop) = Len(pars)
  BY <1>1, <1>3, <1>5, <1>6, <1>7
<1>9. Store(p, pars, lines, number, stop)
  BY <1>4
<1> HIDE DEF number, stop, pars
<1>10. /\ ContainerOK'
       /\ m_pars'[p] = pars /\ m_parfile'[p] = lines
       /\ m_line'[p] = number /\ m_vstop'[p] = stop
       /\ OthersKept(p)
  BY <1>8, <1>9, StoredVectors
<1> QED BY <1>10 DEF number, stop, pars, stops, taken

(* What update() makes of the lines.                                       *)
LEMMA UpdatedLines ==
    ASSUME ContainerOK, NEW p \in Apps
    PROVE  /\ Updated(p) \in Seq(Line) /\ Len(Updated(p)) = Len(m_parfile[p])
           /\ \A k \in 1..Len(m_parfile[p]) :
                /\ Updated(p)[k].name = m_parfile[p][k].name
                /\ Updated(p)[k].indented = m_parfile[p][k].indented
<1> DEFINE new == Updated(p)
           L == Len(m_parfile[p])
           N == Len(m_pars[p])
           Result(k, line) == line \in Line /\ line.name = m_parfile[p][k].name
                              /\ line.indented = m_parfile[p][k].indented
<1>1. /\ L \in Nat /\ N \in Nat /\ DOMAIN m_parfile[p] = 1..L /\ DOMAIN m_pars[p] = 1..N
      /\ \A k \in 1..L : m_parfile[p][k] \in Line
      /\ \A i \in 1..N : m_pars[p][i] \in Par
  BY Vectors
<1>2. ASSUME NEW k \in 1..L PROVE Result(k, new[k])
  <2>1. m_parfile[p][k] \in Line
    BY <1>1
  <2>2. CASE Writers(p, k) = {}
    BY <1>1, <2>1, <2>2 DEF Updated
  <2>3. CASE Writers(p, k) # {}
    <3>1. Writers(p, k) \in SUBSET (1..N)
      BY <1>1 DEF Writers
    <3>2. Max(Writers(p, k)) \in 1..N
      BY <1>1, <2>3, <3>1, GreatestNumber
    <3>3. m_pars[p][Max(Writers(p, k))].value \in Values
      BY <1>1, <3>2 DEF Par
    <3>4. \E stop : new[k] = Written(m_parfile[p][k], stop, m_pars[p][Max(Writers(p, k))].value)
      BY <1>1, <2>3 DEF Updated
    <3> QED BY <2>1, <3>3, <3>4, WrittenLine
  <2> QED BY <2>2, <2>3
<1>3. DOMAIN new = 1..L /\ new = [k \in 1..L |-> new[k]]
  BY <1>1 DEF Updated
<1> HIDE DEF new
<1>4. new \in [1..L -> Line]
  BY <1>2, <1>3
<1>5. new \in Seq(Line) /\ Len(new) = L
  BY <1>1, <1>4, FunctionIsSeq
<1> QED BY <1>2, <1>5 DEF new
LEMMA AppendVectors ==
    ASSUME ContainerOK, NEW p \in Apps, NEW par \in Par, AppendPar(p, par)
    PROVE  /\ ContainerOK' /\ OthersKept(p)
           /\ m_pars'[p] = Append(m_pars[p], par)
           /\ m_parfile'[p] = Append(m_parfile[p], ParLine(par, NoAnswer))
           /\ m_line'[p] = Append(m_line[p], Len(m_parfile[p]) + 1)
           /\ m_vstop'[p] = Append(m_vstop[p], ParStop)
<1>1. /\ m_pars[p] \in Seq(Par) /\ m_parfile[p] \in Seq(Line)
      /\ m_line[p] \in Seq(Int) /\ m_vstop[p] \in Seq(Stops)
      /\ Len(m_pars[p]) \in Nat /\ Len(m_parfile[p]) \in Nat
      /\ Len(m_line[p]) = Len(m_pars[p]) /\ Len(m_vstop[p]) = Len(m_pars[p])
  BY Vectors
<1>2. ParLine(par, NoAnswer) \in Line
  BY BuiltLine
<1> DEFINE pars == Append(m_pars[p], par)
           lines == Append(m_parfile[p], ParLine(par, NoAnswer))
           number == Append(m_line[p], Len(m_parfile[p]) + 1)
           stop == Append(m_vstop[p], ParStop)
<1>3. pars \in Seq(Par) /\ Len(pars) = Len(m_pars[p]) + 1
  BY <1>1
<1>4. lines \in Seq(Line)
  BY <1>1, <1>2
<1>5. number \in Seq(Int) /\ Len(number) = Len(m_pars[p]) + 1
  <2> DEFINE line == Len(m_parfile[p]) + 1
  <2>1. line \in Int
    BY <1>1
  <2> HIDE DEF line
  <2>2. /\ Append(m_line[p], line) \in Seq(Int)
        /\ Len(Append(m_line[p], line)) = Len(m_line[p]) + 1
    BY <1>1, <2>1, AppendProperties
  <2> QED BY <1>1, <2>2 DEF line
<1>6. stop \in Seq(Stops) /\ Len(stop) = Len(m_pars[p]) + 1
  BY <1>1 DEF Stops
<1>7. Store(p, pars, lines, number, stop)
  BY DEF AppendPar
<1> HIDE DEF pars, lines, number, stop
<1>8. /\ ContainerOK' /\ OthersKept(p)
      /\ m_pars'[p] = pars /\ m_parfile'[p] = lines
      /\ m_line'[p] = number /\ m_vstop'[p] = stop
  BY <1>3, <1>4, <1>5, <1>6, <1>7, StoredVectors
<1> QED BY <1>8 DEF pars, lines, number, stop

LEMMA InsertVectors ==
    ASSUME ContainerOK, NEW p \in Apps, NEW par \in Par,
           NEW index \in DOMAIN m_pars[p], NEW answer \in Values \cup {NoAnswer},
           Insert(p, index, par, answer)
    PROVE  ContainerOK' /\ OthersKept(p)
<1> DEFINE L == Len(m_pars[p])
           inserted == InsertAt(m_pars[p], index, par)
           last == Len(inserted)
           at == m_line[p][index]
           numbers == InsertAt(m_line[p], index, at)
           pars == [inserted EXCEPT ![last] = Queried(@, answer)]
           lines == InsertAt(m_parfile[p], at, ParLine(inserted[last], answer))
           number == [i \in DOMAIN numbers |->
                        IF i > index THEN numbers[i] + 1 ELSE numbers[i]]
           stop == InsertAt(m_vstop[p], index, ParStop)
<1>1. /\ m_pars[p] \in Seq(Par) /\ m_parfile[p] \in Seq(Line)
      /\ m_line[p] \in Seq(Int) /\ m_vstop[p] \in Seq(Stops)
      /\ L \in Nat /\ Len(m_parfile[p]) \in Nat
      /\ Len(m_line[p]) = L /\ Len(m_vstop[p]) = L
      /\ index \in 1..L /\ index \in 1..(L + 1)
      /\ at \in Int
  BY Vectors
<1>2. at \in 1..(Len(m_parfile[p]) + 1)
  BY DEF Insert
<1>3. inserted \in Seq(Par) /\ last = L + 1
  BY <1>1, Inserted
<1>4. numbers \in Seq(Int) /\ Len(numbers) = L + 1
  <2>1. index \in 1..(Len(m_line[p]) + 1)
    BY <1>1
  <2> HIDE DEF at
  <2>2. m_line[p] \in Seq(Int) /\ at \in Int
    BY <1>1 DEF at
  <2>3. \A e \in Int : InsertAt(m_line[p], index, e) \in Seq(Int)
                       /\ Len(InsertAt(m_line[p], index, e)) = Len(m_line[p]) + 1
    BY <2>1, <2>2, Inserted
  <2>4. numbers \in Seq(Int) /\ Len(numbers) = Len(m_line[p]) + 1
    BY <2>2, <2>3
  <2> QED BY <1>1, <2>4
<1>5. stop \in Seq(Stops) /\ Len(stop) = L + 1
  <2>1. ParStop \in Stops
    BY DEF Stops
  <2>2. index \in 1..(Len(m_vstop[p]) + 1)
    BY <1>1
  <2>3. m_vstop[p] \in Seq(Stops)
    BY <1>1
  <2>4. \A e \in Stops : InsertAt(m_vstop[p], index, e) \in Seq(Stops)
                       /\ Len(InsertAt(m_vstop[p], index, e)) = Len(m_vstop[p]) + 1
    BY <2>2, <2>3, Inserted
  <2>5. stop \in Seq(Stops) /\ Len(stop) = Len(m_vstop[p]) + 1
    BY <2>1, <2>4
  <2> QED BY <1>1, <2>5
<1>6. Store(p, pars, lines, number, stop)
  BY DEF Insert
<1>7. last \in 1..Len(inserted) /\ inserted[last] \in Par
  <2> HIDE DEF inserted
  <2>1. last \in 1..Len(inserted)
    BY <1>1, <1>3
  <2> QED BY <1>3, <2>1, ElementOfSeq
<1>8. pars \in Seq(Par) /\ Len(pars) = L + 1
  <2>1. Queried(inserted[last], answer) \in Par
    BY <1>7, QueriedPar
  <2> DEFINE other == Queried(inserted[last], answer)
  <2>2. pars = [inserted EXCEPT ![last] = other]
    OBVIOUS
  <2> HIDE DEF inserted, other, pars
  <2>3. other \in Par
    BY <2>1 DEF other
  <2>4. [inserted EXCEPT ![last] = other] \in Seq(Par)
        /\ Len([inserted EXCEPT ![last] = other]) = Len(inserted)
    BY <1>3, <1>7, <2>3, ExceptSeq
  <2> QED BY <1>3, <2>2, <2>4
<1>9. lines \in Seq(Line)
  <2>1. ParLine(inserted[last], answer) \in Line
    BY <1>7, BuiltLine
  <2> HIDE DEF inserted, at
  <2> QED BY <1>1, <1>2, <2>1, Inserted
<1> HIDE DEF inserted, numbers, pars, lines, stop, at
<1>10. number \in Seq(Int) /\ Len(number) = L + 1
  <2>1. L + 1 \in Nat /\ DOMAIN numbers = 1..(L + 1) /\ \A i \in 1..(L + 1) : numbers[i] \in Int
    BY <1>1, <1>4, LenProperties, ElementOfSeq
  <2>2. number \in [1..(L + 1) -> Int]
    BY <2>1
  <2> HIDE DEF number
  <2> QED BY <2>1, <2>2, FunctionIsSeq
<1> HIDE DEF number
<1> QED BY <1>5, <1>6, <1>8, <1>9, <1>10, StoredVectors

LEMMA RemoveVectors ==
    ASSUME ContainerOK, NEW p \in Apps, NEW index \in DOMAIN m_pars[p],
           RemovePar(p, index)
    PROVE  /\ ContainerOK' /\ OthersKept(p)
           /\ index \in 1..Len(m_pars[p])
           /\ m_line[p][index] \in 1..Len(m_parfile[p])
           /\ m_pars'[p] = RemoveAt(m_pars[p], index)
           /\ m_parfile'[p] = RemoveAt(m_parfile[p], m_line[p][index])
           /\ m_line'[p] = Shifted(m_line[p], index)
           /\ m_vstop'[p] = RemoveAt(m_vstop[p], index)
<1> DEFINE L == Len(m_pars[p])
           pars == RemoveAt(m_pars[p], index)
           lines == RemoveAt(m_parfile[p], m_line[p][index])
           number == Shifted(m_line[p], index)
           stop == RemoveAt(m_vstop[p], index)
<1>1. /\ m_pars[p] \in Seq(Par) /\ m_parfile[p] \in Seq(Line)
      /\ m_line[p] \in Seq(Int) /\ m_vstop[p] \in Seq(Stops)
      /\ Len(m_line[p]) = L /\ Len(m_vstop[p]) = L
      /\ index \in 1..L /\ DOMAIN m_parfile[p] = 1..Len(m_parfile[p])
  BY Vectors
<1>2. m_line[p][index] \in 1..Len(m_parfile[p])
  BY <1>1 DEF RemovePar
<1>3. pars \in Seq(Par) /\ Len(pars) = L - 1
  <2> DEFINE own == m_pars[p]
  <2>1. own \in Seq(Par) /\ index \in 1..Len(own)
    BY <1>1
  <2> HIDE DEF own
  <2>2. RemoveAt(own, index) \in Seq(Par) /\ Len(RemoveAt(own, index)) = Len(own) - 1
    BY <2>1, Removed
  <2> QED BY <2>2 DEF own
<1>4. lines \in Seq(Line)
  BY <1>1, <1>2, Removed
<1>5. number \in Seq(Int) /\ Len(number) = L - 1
  BY <1>1, ShiftedNumbers
<1>6. stop \in Seq(Stops) /\ Len(stop) = L - 1
  <2>1. index \in 1..Len(m_vstop[p])
    BY <1>1
  <2>2. stop \in Seq(Stops) /\ Len(stop) = Len(m_vstop[p]) - 1
    BY <1>1, <2>1, Removed
  <2> QED BY <1>1, <2>2
<1>7. Store(p, pars, lines, number, stop)
  BY DEF RemovePar
<1> HIDE DEF pars, lines, number, stop
<1>8. /\ ContainerOK' /\ OthersKept(p)
      /\ m_pars'[p] = pars /\ m_parfile'[p] = lines
      /\ m_line'[p] = number /\ m_vstop'[p] = stop
  BY <1>3, <1>4, <1>5, <1>6, <1>7, StoredVectors
<1> QED BY <1>1, <1>2, <1>8 DEF pars, lines, number, stop

LEMMA ClearVectors ==
    ASSUME ContainerOK, NEW p \in Apps, Clear(p)
    PROVE  /\ ContainerOK' /\ OthersKept(p)
           /\ m_pars'[p] = <<>> /\ m_parfile'[p] = <<>>
           /\ m_line'[p] = <<>> /\ m_vstop'[p] = <<>>
<1>1. Store(p, <<>>, <<>>, <<>>, <<>>)
  BY DEF Clear
<1> QED BY <1>1, StoredVectors, EmptySeq

(* A parameter takes another value, and nothing else changes.              *)
LEMMA ChangeVectors ==
    ASSUME ContainerOK, NEW p \in Apps, NEW index \in DOMAIN m_pars[p], NEW par \in Par,
           m_pars' = [m_pars EXCEPT ![p][index] = par],
           UNCHANGED <<m_parfile, m_line, m_vstop>>
    PROVE  /\ ContainerOK' /\ OthersKept(p)
           /\ Len(m_pars'[p]) = Len(m_pars[p])
           /\ \A i \in 1..Len(m_pars[p]) :
                m_pars'[p][i] = IF i = index THEN par ELSE m_pars[p][i]
<1>1. m_pars[p] \in Seq(Par) /\ index \in 1..Len(m_pars[p])
  BY Vectors
<1>2. m_pars'[p] = [m_pars[p] EXCEPT ![index] = par]
      /\ \A q \in Apps \ {p} : m_pars'[q] = m_pars[q]
  BY DEF ContainerOK
<1> DEFINE new == [m_pars[p] EXCEPT ![index] = par]
<1>3. /\ new \in Seq(Par) /\ Len(new) = Len(m_pars[p])
      /\ \A i \in 1..Len(m_pars[p]) : new[i] = IF i = index THEN par ELSE m_pars[p][i]
  BY <1>1, ExceptSeq
<1> HIDE DEF new
<1>4. m_pars' = [m_pars EXCEPT ![p] = new]
  BY DEF new
<1>5. m_pars' \in [Apps -> Seq(Par)] /\ m_pars'[p] = new
  BY <1>3, <1>4 DEF ContainerOK
<1> QED BY <1>2, <1>3, <1>5 DEF ContainerOK, InStep, OthersKept

LEMMA SaveVectors ==
    ASSUME ContainerOK, NEW p \in Apps, Save(p)
    PROVE  /\ ContainerOK' /\ OthersKept(p)
           /\ m_parfile'[p] = Updated(p)
<1>1. Updated(p) \in Seq(Line)
  BY UpdatedLines
<1>2. /\ m_parfile' \in [Apps -> Seq(Line)] /\ m_parfile'[p] = Updated(p)
      /\ \A q \in Apps \ {p} : m_parfile'[q] = m_parfile[q]
      /\ UNCHANGED <<m_pars, m_line, m_vstop>>
  BY <1>1 DEF Save, ContainerOK
<1> QED BY <1>2 DEF ContainerOK, InStep, OthersKept

LEMMA LoadVectors ==
    ASSUME ContainerOK, setting \in Settings, NEW p \in Apps, Load(p)
    PROVE  ContainerOK' /\ OthersKept(p)
<1>1. CASE file.exists
  <2>1. /\ m_parfile' = [m_parfile EXCEPT ![p] = <<>>]
        /\ UNCHANGED <<m_pars, m_line, m_vstop>>
    BY <1>1 DEF Load
  <2> QED BY <2>1, EmptySeq DEF ContainerOK, InStep, OthersKept
<1>2. CASE ~file.exists
  <2>1. Parse(p, setting.system) /\ setting.system \in Seq(Line)
    BY <1>2, SettingFacts DEF Load
  <2> QED BY <2>1, ParsedVectors
<1> QED BY <1>1, <1>2
-----------------------------------------------------------------------------
(* Steps                                                                   *)

(* A call that gives a parameter a value.                                  *)
Changed(p, index, par) ==
    /\ \E method \in Methods : Call(p, method)
    /\ m_pars' = [m_pars EXCEPT ![p][index] = par]
    /\ par.name = m_pars[p][index].name
    /\ IsLearn(par) <=> IsLearn(m_pars[p][index])
    /\ UNCHANGED <<shared, pc, m_parfile, m_line, m_vstop, sound>>

Answers == Values \cup {NoAnswer}

(* What a step is, with the types of what it is about.                     *)
LEMMA Steps ==
    ASSUME ContainerOK, Next
    PROVE  \E p \in Apps :
              \/ \E par \in Par : AppendPar(p, par)
              \/ \E index \in DOMAIN m_pars[p], par \in Par, answer \in Answers :
                    Insert(p, index, par, answer)
              \/ \E index \in DOMAIN m_pars[p] : RemovePar(p, index)
              \/ \E index \in DOMAIN m_pars[p], par \in Par : Changed(p, index, par)
              \/ Clear(p) \/ Load(p) \/ Save(p) \/ InCall(p)
<1>1. PICK p \in Apps : Calls(p) \/ InCall(p)
  BY DEF Next
<1>2. \A index \in DOMAIN m_pars[p] : m_pars[p][index] \in Par
  BY Vectors
<1>3. ASSUME NEW name \in Names, NEW mode \in {"h", "hl"}, NEW v \in Values
      PROVE  Construct(name, mode, v) \in Par
  <2>1. mode \in Modes
    BY DEF Modes
  <2> QED BY <2>1, ConstructedPar
<1>4. ASSUME NEW index \in DOMAIN m_pars[p], NEW v \in Values, Value(p, index, v)
      PROVE  Changed(p, index, SetValue(m_pars[p][index], v))
             /\ SetValue(m_pars[p][index], v) \in Par
  <2> DEFINE par == SetValue(m_pars[p][index], v)
  <2>1. par \in Par /\ par.name = m_pars[p][index].name
        /\ (IsLearn(par) <=> IsLearn(m_pars[p][index]))
    BY <1>2, ChangedPar
  <2>2. /\ Call(p, "value") /\ "value" \in Methods
        /\ m_pars' = [m_pars EXCEPT ![p][index] = par]
        /\ UNCHANGED <<shared, pc, m_parfile, m_line, m_vstop, sound>>
    BY <1>4 DEF Value, Methods, ContainerOK
  <2> HIDE DEF par
  <2>3. Changed(p, index, par)
    BY <2>1, <2>2 DEF Changed
  <2> QED BY <2>1, <2>3 DEF par
<1>5. ASSUME NEW index \in DOMAIN m_pars[p], NEW answer \in Answers,
             Query(p, index, answer)
      PROVE  Changed(p, index, Queried(m_pars[p][index], answer))
             /\ Queried(m_pars[p][index], answer) \in Par
  <2> DEFINE par == Queried(m_pars[p][index], answer)
  <2>1. par \in Par /\ par.name = m_pars[p][index].name
        /\ (IsLearn(par) <=> IsLearn(m_pars[p][index]))
    BY <1>2, QueriedPar DEF Answers
  <2>2. /\ Call(p, "query") /\ "query" \in Methods
        /\ m_pars' = [m_pars EXCEPT ![p][index] = par]
        /\ UNCHANGED <<shared, pc, m_parfile, m_line, m_vstop, sound>>
    BY <1>5 DEF Query, Methods, ContainerOK
  <2> HIDE DEF par
  <2>3. Changed(p, index, par)
    BY <2>1, <2>2 DEF Changed
  <2> QED BY <2>1, <2>3 DEF par
<1>6. CASE InCall(p)
  BY <1>6
<1>7. CASE Calls(p)
  <2>1. CASE \E name \in Names, mode \in {"h", "hl"}, v \in Values :
                AppendPar(p, Construct(name, mode, v))
    BY <1>3, <2>1
  <2>2. CASE \E index \in DOMAIN m_pars[p], name \in Names, mode \in {"h", "hl"},
                v \in Values, answer \in Values \cup {NoAnswer} :
                Insert(p, index, Construct(name, mode, v), answer)
    BY <1>3, <2>2 DEF Answers
  <2>3. CASE \E index \in DOMAIN m_pars[p] : RemovePar(p, index)
    BY <2>3
  <2>4. CASE \E index \in DOMAIN m_pars[p], v \in Values : Value(p, index, v)
    BY <1>4, <2>4
  <2>5. CASE \E index \in DOMAIN m_pars[p], answer \in Values \cup {NoAnswer} :
                Query(p, index, answer)
    BY <1>5, <2>5 DEF Answers
  <2>6. CASE Clear(p) \/ Load(p) \/ Save(p)
    BY <2>6
  <2> QED BY <1>7, <2>1, <2>2, <2>3, <2>4, <2>5, <2>6 DEF Calls
<1> QED BY <1>1, <1>6, <1>7

(* While an application loads or saves, only the end of load() changes its *)
(* vectors.                                                                *)
LEMMA VectorsInCall ==
    ASSUME ContainerOK, SharedOK, NEW p \in Apps, InCall(p)
    PROVE  /\ ContainerOK' /\ OthersKept(p)
           /\ Read(p) \/ UNCHANGED container
<1>1. CASE Read(p)
  <2>1. Parse(p, file.lines) /\ file.lines \in Seq(Line)
    BY <1>1 DEF Read, SharedOK
  <2> QED BY <1>1, <2>1, ParsedVectors
<1>2. CASE ~Read(p)
  <2>1. UNCHANGED container
    BY <1>2 DEF InCall, ReadLock, WriteLock, Truncate, Create, CreateLock, Write
  <2> QED BY <2>1 DEF container, ContainerOK, InStep, OthersKept
<1> QED BY <1>1, <1>2

LEMMA ContainerStep ==
    ASSUME ContainerOK, SharedOK, setting \in Settings, [Next]_vars
    PROVE  ContainerOK'
<1>1. CASE UNCHANGED vars
  BY <1>1 DEF vars, container, ContainerOK, InStep
<1>2. CASE Next
  <2>1. PICK p \in Apps :
              \/ \E par \in Par : AppendPar(p, par)
              \/ \E index \in DOMAIN m_pars[p], par \in Par, answer \in Answers :
                    Insert(p, index, par, answer)
              \/ \E index \in DOMAIN m_pars[p] : RemovePar(p, index)
              \/ \E index \in DOMAIN m_pars[p], par \in Par : Changed(p, index, par)
              \/ Clear(p) \/ Load(p) \/ Save(p) \/ InCall(p)
    BY <1>2, Steps
  <2>2. CASE \E par \in Par : AppendPar(p, par)
    BY <2>2, AppendVectors
  <2>3. CASE \E index \in DOMAIN m_pars[p], par \in Par, answer \in Answers :
                Insert(p, index, par, answer)
    BY <2>3, InsertVectors DEF Answers
  <2>4. CASE \E index \in DOMAIN m_pars[p] : RemovePar(p, index)
    BY <2>4, RemoveVectors
  <2>5. CASE \E index \in DOMAIN m_pars[p], par \in Par : Changed(p, index, par)
    BY <2>5, ChangeVectors DEF Changed
  <2>6. CASE Clear(p)
    BY <2>6, ClearVectors
  <2>7. CASE Load(p)
    BY <2>7, LoadVectors
  <2>8. CASE Save(p)
    BY <2>8, SaveVectors
  <2>9. CASE InCall(p)
    BY <2>9, VectorsInCall
  <2> QED BY <2>1, <2>2, <2>3, <2>4, <2>5, <2>6, <2>7, <2>8, <2>9
<1> QED BY <1>1, <1>2

(* A call leaves the file and the locks alone, and goes somewhere at most. *)
LEMMA CallStep ==
    ASSUME ContainerOK, pc \in [Apps -> Places], NEW p \in Apps,
           Calls(p)
    PROVE  /\ UNCHANGED shared /\ UNCHANGED setting
           /\ calls' = calls + 1
           /\ pc[p] = "idle" /\ p \in setting.users
           /\ \/ UNCHANGED pc
              \/ /\ file.exists
                 /\ pc' = [pc EXCEPT ![p] = "read_lock"]
              \/ /\ file.exists
                 /\ pc' = [pc EXCEPT ![p] = "write_lock"]
              \/ /\ ~file.exists
                 /\ pc' = [pc EXCEPT ![p] = "create"]
<1> DEFINE Goal == /\ UNCHANGED shared /\ UNCHANGED setting
                   /\ calls' = calls + 1
                   /\ pc[p] = "idle" /\ p \in setting.users
                   /\ \/ UNCHANGED pc
                      \/ file.exists /\ pc' = [pc EXCEPT ![p] = "read_lock"]
                      \/ file.exists /\ pc' = [pc EXCEPT ![p] = "write_lock"]
                      \/ ~file.exists /\ pc' = [pc EXCEPT ![p] = "create"]
<1>1. CASE Load(p)
  <2>1. Call(p, "load") /\ UNCHANGED shared
    BY <1>1 DEF Load
  <2>2. \/ UNCHANGED pc
        \/ file.exists /\ pc' = [pc EXCEPT ![p] = "read_lock"]
    BY <1>1 DEF Load, GoTo
  <2> QED BY <2>1, <2>2 DEF Call
<1>2. CASE Save(p)
  <2>1. Call(p, "save") /\ UNCHANGED shared
    BY <1>2 DEF Save
  <2>2. \/ file.exists /\ pc' = [pc EXCEPT ![p] = "write_lock"]
        \/ ~file.exists /\ pc' = [pc EXCEPT ![p] = "create"]
    BY <1>2 DEF Save, GoTo
  <2> QED BY <2>1, <2>2 DEF Call
<1>3. CASE Clear(p)
  BY <1>3 DEF Clear, Call
<1>4. CASE \E par : AppendPar(p, par)
  BY <1>4 DEF AppendPar, Call
<1>5. CASE \E index, par, answer : Insert(p, index, par, answer)
  BY <1>5 DEF Insert, Call
<1>6. CASE \E index : RemovePar(p, index)
  BY <1>6 DEF RemovePar, Call
<1>7. CASE \E index, v : Value(p, index, v)
  BY <1>7 DEF Value, Call
<1>8. CASE \E index, answer : Query(p, index, answer)
  BY <1>8 DEF Query, Call
<1> HIDE DEF Goal
<1>9. Goal
  BY <1>1, <1>2, <1>3, <1>4, <1>5, <1>6, <1>7, <1>8 DEF Calls, Goal
<1> QED BY <1>9 DEF Goal

LEMMA SharedStep ==
    ASSUME ContainerOK, SharedOK, ControlOK, [Next]_vars
    PROVE  SharedOK' /\ setting' \in Settings /\ pc' \in [Apps -> Places] /\ calls' \in Nat
<1>1. CASE UNCHANGED vars
  BY <1>1 DEF vars, shared, SharedOK, ControlOK
<1>2. ASSUME NEW p \in Apps, Calls(p)
      PROVE  SharedOK' /\ setting' \in Settings /\ pc' \in [Apps -> Places] /\ calls' \in Nat
  <2>1. /\ UNCHANGED shared /\ UNCHANGED setting /\ calls' = calls + 1
        /\ \/ UNCHANGED pc
           \/ \E place \in {"read_lock", "write_lock", "create"} :
                pc' = [pc EXCEPT ![p] = place]
    BY <1>2, CallStep DEF ControlOK
  <2>2. pc' \in [Apps -> Places]
    BY <2>1 DEF ControlOK, Places
  <2> QED BY <2>1, <2>2 DEF shared, SharedOK, ControlOK
<1>3. ASSUME NEW p \in Apps, InCall(p)
      PROVE  SharedOK' /\ setting' \in Settings /\ pc' \in [Apps -> Places] /\ calls' \in Nat
  <2>1. UNCHANGED <<setting, calls>>
    BY <1>3 DEF InCall, ReadLock, Read, WriteLock, Truncate, Create, CreateLock, Write
  <2>2. \E place \in Places : pc' = [pc EXCEPT ![p] = place]
    BY <1>3 DEF InCall, ReadLock, Read, WriteLock, Truncate, Create, CreateLock, Write,
                GoTo, Places
  <2>3. UNCHANGED lock
        \/ \E kind \in {"none", "read", "write"} : lock' = [lock EXCEPT ![p] = kind]
    BY <1>3 DEF InCall, ReadLock, Read, WriteLock, Truncate, Create, CreateLock, Write,
                Lock, Unlock
  <2>4. m_parfile[p] \in Seq(Line)
    BY Vectors
  <2>5. content' \in Seq(Line)
    BY <1>3, <2>4 DEF InCall, ReadLock, Read, WriteLock, Truncate, Create, CreateLock,
                      Write, SharedOK
  <2>6. file' \in [exists : BOOLEAN, lines : Seq(Line)]
    <3>1. CASE UNCHANGED file
      BY <3>1 DEF SharedOK
    <3>2. CASE Truncate(p) \/ Create(p)
      <4>1. <<>> \in Seq(Line)
        BY EmptySeq
      <4>2. CASE Truncate(p)
        BY <4>1, <4>2 DEF Truncate, SharedOK
      <4>3. CASE Create(p)
        BY <4>1, <4>3 DEF Create
      <4> QED BY <3>2, <4>2, <4>3
    <3>3. CASE Write(p)
      <4>1. PICK lines \in Over(file.lines, m_parfile[p]) :
                file' = [file EXCEPT !.lines = lines]
        BY <3>3 DEF Write
      <4>2. lines \in Seq(Line)
        <5>1. CASE lines = m_parfile[p]
          BY <2>4, <5>1
        <5>2. CASE file.lines # <<>>
                   /\ lines = Append(m_parfile[p], [file.lines[Len(file.lines)]
                                                        EXCEPT !.intact = FALSE])
          <6>1. file.lines \in Seq(Line)
            BY DEF SharedOK
          <6>2. file.lines[Len(file.lines)] \in Line
            BY <5>2, <6>1, EmptySeq, ElementOfSeq
          <6>3. [file.lines[Len(file.lines)] EXCEPT !.intact = FALSE] \in Line
            BY <6>2 DEF Line
          <6> QED BY <2>4, <5>2, <6>3, AppendProperties
        <5> QED BY <4>1, <5>1, <5>2 DEF Over
      <4> QED BY <4>1, <4>2 DEF SharedOK
    <3> QED BY <1>3, <3>1, <3>2, <3>3
            DEF InCall, ReadLock, Read, WriteLock, CreateLock
  <2>7. lock' \in [Apps -> {"none", "read", "write"}]
    <3>1. lock \in [Apps -> {"none", "read", "write"}]
      BY DEF SharedOK
    <3> QED BY <2>3, <3>1
  <2>8. pc' \in [Apps -> Places]
    <3>1. pc \in [Apps -> Places]
      BY DEF ControlOK
    <3> QED BY <2>2, <3>1
  <2>9. SharedOK'
    BY <2>5, <2>6, <2>7 DEF SharedOK
  <2> QED BY <2>1, <2>8, <2>9 DEF ControlOK
<1> QED BY <1>1, <1>2, <1>3 DEF Next

LEMMA SoundStep ==
    ASSUME sound \in [Apps -> BOOLEAN], [Next]_vars
    PROVE  sound' \in [Apps -> BOOLEAN]
<1>1. CASE UNCHANGED vars
  BY <1>1 DEF vars, container
<1>2. ASSUME NEW p \in Apps, NEW lines, Parse(p, lines)
      PROVE  sound' \in [Apps -> BOOLEAN]
  BY <1>2 DEF Parse
<1>3. ASSUME NEW p \in Apps, Calls(p)
      PROVE  sound' \in [Apps -> BOOLEAN]
  <2>1. CASE Load(p)
    BY <1>2, <2>1 DEF Load
  <2>2. CASE Clear(p) \/ Save(p)
    BY <2>2 DEF Clear, Save
  <2>3. CASE \E par : AppendPar(p, par)
    BY <2>3 DEF AppendPar
  <2>4. CASE \E index, par, answer : Insert(p, index, par, answer)
    BY <2>4 DEF Insert
  <2>5. CASE \E index : RemovePar(p, index)
    BY <2>5 DEF RemovePar
  <2>6. CASE \E index, v : Value(p, index, v)
    BY <2>6 DEF Value
  <2>7. CASE \E index, answer : Query(p, index, answer)
    BY <2>7 DEF Query
  <2> QED BY <1>3, <2>1, <2>2, <2>3, <2>4, <2>5, <2>6, <2>7 DEF Calls
<1>4. ASSUME NEW p \in Apps, InCall(p)
      PROVE  sound' \in [Apps -> BOOLEAN]
  <2>1. CASE Read(p)
    BY <1>2, <2>1 DEF Read
  <2> QED BY <1>4, <2>1
          DEF InCall, ReadLock, WriteLock, Truncate, Create, CreateLock, Write, container
<1> QED BY <1>1, <1>3, <1>4 DEF Next

(* The type of the state, with the three vectors of one length.            *)
THEOREM TypeCorrect == Spec => [](TypeOK /\ InStep)
<1>1. TypeOK /\ InStep <=> ContainerOK /\ SharedOK /\ ControlOK
  BY DEF TypeOK, ContainerOK, SharedOK, ControlOK
<1>2. Init => ContainerOK /\ SharedOK /\ ControlOK
  <2> SUFFICES ASSUME Init PROVE ContainerOK /\ SharedOK /\ ControlOK
    OBVIOUS
  <2>1. setting.system \in Seq(Line) /\ setting.present \in BOOLEAN
    BY SettingFacts DEF Init
  <2>2. ContainerOK
    BY EmptySeq DEF Init, ContainerOK, InStep
  <2>3. SharedOK
    BY <2>1, EmptySeq DEF Init, SharedOK
  <2>4. ControlOK
    BY DEF Init, ControlOK, Places
  <2> QED BY <2>2, <2>3, <2>4
<1>3. ContainerOK /\ SharedOK /\ ControlOK /\ [Next]_vars
        => (ContainerOK /\ SharedOK /\ ControlOK)'
  BY ContainerStep, SharedStep, SoundStep DEF ControlOK
<1> QED BY <1>1, <1>2, <1>3, PTL DEF Spec
-----------------------------------------------------------------------------
(* The file is whole for who reads it                                      *)

Users == \A p \in Apps : pc[p] # "idle" => p \in setting.users

Created ==
    setting.present =>
        file.exists /\ \A p \in Apps : pc[p] \notin {"create", "create_lock"}

LEMMA FileInvParts ==
    FileInv <=> LocksHeld /\ Users /\ Created /\ (setting.present \/ Alone => FileState)
BY DEF FileInv, Users, Created

(* Where an application goes, the others stay.                             *)
LEMMA OthersStay ==
    ASSUME pc \in [Apps -> Places], NEW p \in Apps, NEW place,
           pc' = [pc EXCEPT ![p] = place]
    PROVE  pc'[p] = place /\ \A q \in Apps \ {p} : pc'[q] = pc[q]
OBVIOUS

LEMMA CallKeepsFileInv ==
    ASSUME ContainerOK, SharedOK, ControlOK, FileInv, NEW p \in Apps, Calls(p)
    PROVE  FileInv'
<1>1. /\ UNCHANGED <<file, content, lock>> /\ UNCHANGED setting
      /\ pc[p] = "idle" /\ p \in setting.users
      /\ \/ UNCHANGED pc
         \/ file.exists /\ pc' = [pc EXCEPT ![p] = "read_lock"]
         \/ file.exists /\ pc' = [pc EXCEPT ![p] = "write_lock"]
         \/ ~file.exists /\ pc' = [pc EXCEPT ![p] = "create"]
  BY CallStep DEF ControlOK, shared
<1>2. /\ \A q \in Apps \ {p} : pc'[q] = pc[q]
      /\ \/ pc'[p] = "idle"
         \/ file.exists /\ pc'[p] \in {"read_lock", "write_lock"}
         \/ ~file.exists /\ pc'[p] = "create"
  BY <1>1, OthersStay DEF ControlOK
<1>3. LocksHeld'
  <2>1. \A q \in Apps : lock'[q] = lock[q]
    BY <1>1
  <2>2. lock[p] = "none"
    BY <1>1 DEF FileInv, LocksHeld
  <2>3. \A q \in Apps : lock'[q] = CASE pc'[q] = "read" -> "read"
                                     [] pc'[q] \in {"truncate", "write"} -> "write"
                                     [] OTHER -> "none"
    BY <1>2, <2>1, <2>2 DEF FileInv, LocksHeld
  <2> QED BY <2>1, <2>3 DEF FileInv, LocksHeld
<1>4. Users'
  BY <1>1, <1>2 DEF FileInv, Users
<1>5. Created'
  BY <1>1, <1>2 DEF FileInv, Created
<1>6. ASSUME setting.present \/ Alone PROVE FileState'
  <2>1. Filling' <=> Filling
    BY <1>1, <1>2 DEF Filling
  <2> QED BY <1>1, <1>2, <1>6, <2>1 DEF FileInv, FileState
<1>7. Alone' <=> Alone
  BY <1>1 DEF Alone
<1> QED BY <1>1, <1>3, <1>4, <1>5, <1>6, <1>7 DEF FileInv, Users, Created

(* Locks stay as they are held when one is taken, or given back.           *)
LEMMA LocksStep ==
    ASSUME SharedOK, ControlOK, LocksHeld, NEW p \in Apps, InCall(p)
    PROVE  LocksHeld'
<1> DEFINE Held(place) == CASE place = "read" -> "read"
                            [] place \in {"truncate", "write"} -> "write"
                            [] OTHER -> "none"
<1>1. PICK place, kind :
        /\ pc' = [pc EXCEPT ![p] = place]
        /\ lock' = [lock EXCEPT ![p] = kind] /\ kind = Held(place)
        /\ kind = "read" => lock[p] = "read" \/ MayRead(p)
        /\ kind = "write" => lock[p] = "write" \/ MayWrite(p)
  <2>1. CASE ReadLock(p)
    BY <2>1 DEF ReadLock, GoTo, Lock
  <2>2. CASE Read(p)
    <3>1. pc' = [pc EXCEPT ![p] = "idle"] /\ lock' = [lock EXCEPT ![p] = "none"]
      BY <2>2 DEF Read, GoTo, Lock
    <3>2. Held("idle") = "none"
      OBVIOUS
    <3> QED BY <3>1, <3>2
  <2>3. CASE WriteLock(p)
    BY <2>3 DEF WriteLock, GoTo, Lock
  <2>4. CASE Truncate(p)
    <3>1. lock[p] = "write" /\ lock' = [lock EXCEPT ![p] = "write"]
      BY <2>4 DEF Truncate, LocksHeld, SharedOK
    <3> QED BY <2>4, <3>1 DEF Truncate, GoTo
  <2>5. CASE Create(p)
    <3>1. lock[p] = "none" /\ lock' = [lock EXCEPT ![p] = "none"]
      BY <2>5 DEF Create, LocksHeld, SharedOK
    <3> QED BY <2>5, <3>1 DEF Create, GoTo
  <2>6. CASE CreateLock(p)
    BY <2>6 DEF CreateLock, GoTo, Lock
  <2>7. CASE Write(p)
    <3>1. pc' = [pc EXCEPT ![p] = "idle"] /\ lock' = [lock EXCEPT ![p] = "none"]
      BY <2>7 DEF Write, GoTo, Unlock, Lock
    <3>2. Held("idle") = "none"
      OBVIOUS
    <3> QED BY <3>1, <3>2
  <2> QED BY <2>1, <2>2, <2>3, <2>4, <2>5, <2>6, <2>7 DEF InCall
<1>2. /\ pc'[p] = place /\ \A q \in Apps \ {p} : pc'[q] = pc[q]
      /\ lock'[p] = kind /\ \A q \in Apps \ {p} : lock'[q] = lock[q]
  BY <1>1 DEF SharedOK, ControlOK
<1>3. \A q \in Apps : lock'[q] = CASE pc'[q] = "read" -> "read"
                                   [] pc'[q] \in {"truncate", "write"} -> "write"
                                   [] OTHER -> "none"
  <2>1. ASSUME NEW q \in Apps \ {p} PROVE lock'[q] = Held(pc'[q])
    BY <1>2 DEF LocksHeld
  <2>2. lock'[p] = Held(pc'[p])
    BY <1>1, <1>2
  <2> QED BY <2>1, <2>2
<1>4. \A a, b \in Apps : a # b /\ lock'[a] = "write" => lock'[b] = "none"
  <2>1. SUFFICES ASSUME NEW a \in Apps, NEW b \in Apps, a # b, lock'[a] = "write"
                 PROVE  lock'[b] = "none"
    OBVIOUS
  <2>2. CASE a = p
    <3>1. lock[p] = "write" \/ MayWrite(p)
      BY <1>1, <1>2, <2>1, <2>2
    <3> QED BY <1>2, <2>1, <2>2, <3>1 DEF LocksHeld, MayWrite
  <2>3. CASE a # p /\ b # p
    BY <1>2, <2>1, <2>3 DEF LocksHeld
  <2>4. CASE a # p /\ b = p
    <3>1. lock[a] = "write" /\ lock[p] = "none"
      BY <1>2, <2>1, <2>4 DEF LocksHeld
    <3>2. ~MayRead(p) /\ ~MayWrite(p)
      BY <2>4, <3>1 DEF MayRead, MayWrite
    <3>3. kind \in {"none", "read", "write"}
      BY <1>1
    <3> QED BY <1>1, <1>2, <2>4, <3>1, <3>2, <3>3
  <2> QED BY <2>2, <2>3, <2>4
<1> QED BY <1>3, <1>4 DEF LocksHeld

LEMMA FileStateStep ==
    ASSUME ContainerOK, SharedOK, ControlOK, FileInv, setting.present \/ Alone,
           NEW p \in Apps, InCall(p)
    PROVE  FileState'
<1>1. LocksHeld /\ Users /\ Created /\ FileState
  BY FileInvParts
<1>2. ASSUME NEW q \in Apps, NEW r \in Apps, q # r, pc[q] # "idle", pc[r] # "idle"
      PROVE  setting.present /\ file.exists
             /\ \A t \in Apps : pc[t] \notin {"create", "create_lock"}
  <2>1. ~Alone
    BY <1>1, <1>2 DEF Alone, Users
  <2> QED BY <1>1, <2>1 DEF Created
<1>3. ASSUME NEW q \in Apps \ {p}, NEW r \in Apps \ {p},
             lock[p] = "write" \/ MayWrite(p)
      PROVE  pc[q] \notin {"read", "truncate", "write"}
  <2>1. lock[q] = "none"
    BY <1>1, <1>3 DEF LocksHeld, MayWrite
  <2> QED BY <1>1, <2>1 DEF LocksHeld
<1>4. pc \in [Apps -> Places] /\ file \in [exists : BOOLEAN, lines : Seq(Line)]
  BY DEF SharedOK, ControlOK
<1>5. CASE ReadLock(p) \/ WriteLock(p)
  <2>1. /\ pc[p] \in {"read_lock", "write_lock"} /\ pc'[p] \in {"read", "truncate"}
        /\ \A q \in Apps \ {p} : pc'[q] = pc[q]
        /\ UNCHANGED <<file, content>>
    BY <1>4, <1>5 DEF ReadLock, WriteLock, GoTo
  <2>2. Filling' <=> Filling
    BY <2>1 DEF Filling
  <2> QED BY <1>1, <2>1, <2>2 DEF FileState
<1>6. CASE Read(p)
  <2>1. /\ pc[p] = "read" /\ pc'[p] = "idle"
        /\ \A q \in Apps \ {p} : pc'[q] = pc[q]
        /\ UNCHANGED <<file, content>>
    BY <1>4, <1>6 DEF Read, GoTo
  <2>2. Filling' <=> Filling
    BY <2>1 DEF Filling
  <2> QED BY <1>1, <2>1, <2>2 DEF FileState
<1>7. CASE Truncate(p)
  <2>1. /\ pc[p] = "truncate" /\ pc'[p] = "write"
        /\ \A q \in Apps \ {p} : pc'[q] = pc[q]
        /\ file'.lines = <<>> /\ file'.exists = file.exists
    BY <1>4, <1>7 DEF Truncate, GoTo
  <2>2. Filling' /\ file.exists
    BY <1>1, <2>1 DEF Filling, FileState
  <2> QED BY <1>1, <2>1, <2>2 DEF FileState
<1>8. CASE Create(p)
  <2>1. /\ pc[p] = "create" /\ pc'[p] = "create_lock"
        /\ \A q \in Apps \ {p} : pc'[q] = pc[q]
        /\ file'.lines = <<>> /\ file'.exists
    BY <1>4, <1>8 DEF Create, GoTo
  <2>2. Filling'
    BY <2>1 DEF Filling
  <2> QED BY <1>1, <2>1, <2>2 DEF FileState
<1>9. CASE CreateLock(p)
  <2>1. /\ pc[p] = "create_lock" /\ pc'[p] = "write"
        /\ \A q \in Apps \ {p} : pc'[q] = pc[q]
        /\ UNCHANGED <<file, content>>
    BY <1>4, <1>9 DEF CreateLock, GoTo
  <2>2. Filling' /\ Filling
    BY <2>1 DEF Filling
  <2> QED BY <1>1, <2>1, <2>2 DEF FileState
<1>10. CASE Write(p)
  <2>1. /\ pc[p] = "write" /\ pc'[p] = "idle"
        /\ \A q \in Apps \ {p} : pc'[q] = pc[q]
        /\ content' = m_parfile[p] /\ file'.exists = file.exists
        /\ file'.lines \in Over(file.lines, m_parfile[p])
    BY <1>4, <1>10 DEF Write, GoTo
  <2>2. file.lines = <<>>
    BY <1>1, <2>1 DEF Filling, FileState
  <2>3. file'.lines = content'
    BY <2>1, <2>2 DEF Over
  <2>4. ASSUME NEW q \in Apps \ {p} PROVE pc[q] \notin {"create_lock", "write"}
    <3>1. lock[p] = "write"
      BY <1>1, <2>1 DEF LocksHeld
    <3> QED BY <1>2, <1>3, <2>1, <3>1
  <2>5. ~Filling'
    BY <2>1, <2>4 DEF Filling
  <2> QED BY <1>1, <2>1, <2>3, <2>5 DEF FileState
<1> QED BY <1>5, <1>6, <1>7, <1>8, <1>9, <1>10 DEF InCall

LEMMA FileStep ==
    ASSUME ContainerOK, SharedOK, ControlOK, FileInv, [Next]_vars
    PROVE  FileInv'
<1>1. CASE UNCHANGED vars
  BY <1>1 DEF vars, shared, FileInv, LocksHeld, Filling, FileState, Alone
<1>2. ASSUME NEW p \in Apps, InCall(p) PROVE FileInv'
  <2>1. LocksHeld /\ Users /\ Created
    BY FileInvParts
  <2>2. /\ UNCHANGED setting /\ pc[p] # "idle"
        /\ \A q \in Apps \ {p} : pc'[q] = pc[q]
        /\ pc[p] = "create_lock" \/ pc'[p] # "create_lock" \/ pc[p] = "create"
        /\ pc'[p] # "create"
        /\ file.exists => file'.exists
    <3>1. pc \in [Apps -> Places] /\ file \in [exists : BOOLEAN, lines : Seq(Line)]
      BY DEF SharedOK, ControlOK
    <3>2. CASE ReadLock(p) \/ Read(p)
      BY <3>1, <3>2 DEF ReadLock, Read, GoTo
    <3>3. CASE WriteLock(p) \/ Truncate(p)
      BY <3>1, <3>3 DEF WriteLock, Truncate, GoTo
    <3>4. CASE Create(p) \/ CreateLock(p)
      BY <3>1, <3>4 DEF Create, CreateLock, GoTo
    <3>5. CASE Write(p)
      BY <3>1, <3>5 DEF Write, GoTo
    <3> QED BY <1>2, <3>2, <3>3, <3>4, <3>5 DEF InCall
  <2>3. Users'
    BY <2>1, <2>2 DEF Users
  <2>4. Created'
    BY <2>1, <2>2 DEF Created
  <2>5. LocksHeld'
    BY <1>2, <2>1, LocksStep
  <2>6. Alone' <=> Alone
    BY <2>2 DEF Alone
  <2>7. setting'.present \/ Alone' => FileState'
    BY <1>2, <2>2, <2>6, FileStateStep
  <2> QED BY <2>3, <2>4, <2>5, <2>7 DEF FileInv, Users, Created
<1> QED BY <1>1, <1>2, CallKeepsFileInv DEF Next

THEOREM FileInvHolds == Spec => []FileInv
<1>1. Init => FileInv
  BY DEF Init, FileInv, LocksHeld, Filling, FileState
<1>2. TypeOK /\ InStep => ContainerOK /\ SharedOK /\ ControlOK
  BY DEF TypeOK, ContainerOK, SharedOK, ControlOK
<1>3. TypeOK /\ InStep /\ FileInv /\ [Next]_vars => FileInv'
  BY <1>2, FileStep
<1> QED BY <1>1, <1>3, TypeCorrect, PTL DEF Spec

(* Who reads the file finds in it what the last one to save has written,   *)
(* all of it and nothing else, if the file was there at the start or one   *)
(* application is alone: it is emptied and filled under the write lock.    *)
THEOREM FileStaysWhole == Spec => []FileIsWhole
<1>1. TypeOK /\ FileInv => FileIsWhole
  <2> SUFFICES ASSUME TypeOK, FileInv, setting.present \/ Alone,
                      NEW p \in Apps, pc[p] = "read"
               PROVE  file.lines = content
    BY DEF FileIsWhole
  <2>1. LocksHeld /\ Users /\ Created /\ FileState
    BY FileInvParts
  <2>2. file.exists
    BY <2>1 DEF FileState
  <2>3. ASSUME NEW q \in Apps PROVE pc[q] \notin {"create_lock", "write"}
    <3>1. pc[q] # "write"
      BY <2>1 DEF LocksHeld
    <3>2. pc[q] # "create_lock"
      BY <2>1 DEF Users, Created, Alone
    <3> QED BY <3>1, <3>2
  <2> QED BY <2>1, <2>2, <2>3 DEF FileState, Filling
<1> QED BY <1>1, TypeCorrect, FileInvHolds, PTL
-----------------------------------------------------------------------------
(* The lines belong to the parameters                                      *)

(* A parameter and its line are added at the end.                          *)
LEMMA ConsistentAppended ==
    ASSUME NEW pars \in Seq(Par), NEW lines \in Seq(Line), NEW number \in Seq(Int),
           NEW stop \in Seq(Stops), Len(number) = Len(pars), Len(stop) = Len(pars),
           Consistent(pars, lines, number, stop),
           NEW par \in Par, ~NameIn(pars, par.name),
           NEW line \in Line, line.name = par.name, line.intact
    PROVE  Consistent(Append(pars, par), Append(lines, line),
                      Append(number, Len(lines) + 1), Append(stop, ParStop))
<1> DEFINE N == Len(pars)
           L == Len(lines)
           pars2 == Append(pars, par)
           lines2 == Append(lines, line)
           number2 == Append(number, L + 1)
           stop2 == Append(stop, ParStop)
<1>1. N \in Nat /\ L \in Nat /\ DOMAIN pars = 1..N
  BY LenProperties
<1>2. /\ Len(pars2) = N + 1 /\ pars2[N + 1] = par
      /\ \A i \in 1..N : pars2[i] = pars[i]
  BY AppendProperties
<1>3. /\ Len(lines2) = L + 1 /\ lines2[L + 1] = line
      /\ \A k \in 1..L : lines2[k] = lines[k]
  BY AppendProperties
<1>4. number2[N + 1] = L + 1 /\ \A i \in 1..N : number2[i] = number[i]
  <2>1. L + 1 \in Int
    BY <1>1
  <2> DEFINE next == L + 1
             Numbers == Int
  <2>2. next \in Numbers /\ number \in Seq(Numbers)
    BY <2>1
  <2> HIDE DEF next, Numbers
  <2>3. /\ Append(number, next)[Len(number) + 1] = next
        /\ \A i \in 1..Len(number) : Append(number, next)[i] = number[i]
    BY <2>2, AppendProperties
  <2> QED BY <2>3 DEF next
<1>5. \A i \in 1..N : stop2[i] = stop[i]
  <2>1. ParStop \in Stops
    BY DEF Stops
  <2>2. \A i \in 1..Len(stop) : stop2[i] = stop[i]
    BY <2>1, AppendProperties
  <2> QED BY <2>2
<1> HIDE DEF pars2, lines2, number2, stop2
<1>6. \A i \in 1..(N + 1) : i \in 1..N \/ i = N + 1
  BY <1>1
<1>7. /\ \A i \in 1..N : number[i] \in 1..L /\ lines[number[i]].name = pars[i].name
      /\ \A i, j \in 1..N : i < j => number[i] < number[j]
      /\ \A i, j \in 1..N : i # j => pars[i].name # pars[j].name
      /\ \A k \in 1..L : lines[k].name # Comment => \E i \in 1..N : number[i] = k
      /\ \A i \in 1..N : \/ lines[number[i]].intact
                         \/ IsLearn(pars[i])
                            /\ (stop[i] # "comma" \/ lines[number[i]].indented)
  BY DEF Consistent, Belong, Explained
<1>8. ASSUME NEW i \in 1..(N + 1)
      PROVE  /\ number2[i] \in 1..(L + 1) /\ lines2[number2[i]].name = pars2[i].name
             /\ \/ lines2[number2[i]].intact
                \/ IsLearn(pars2[i])
                   /\ (stop2[i] # "comma" \/ lines2[number2[i]].indented)
  <2>1. CASE i \in 1..N
    <3>1. number2[i] = number[i] /\ pars2[i] = pars[i] /\ stop2[i] = stop[i]
      BY <1>2, <1>4, <1>5, <2>1
    <3>2. number[i] \in 1..L
      BY <1>7, <2>1
    <3>3. lines2[number2[i]] = lines[number[i]]
      BY <1>3, <3>1, <3>2
    <3>4. number2[i] \in 1..(L + 1)
      BY <1>1, <3>1, <3>2
    <3> QED BY <1>7, <2>1, <3>1, <3>3, <3>4
  <2>2. CASE i = N + 1
    BY <1>1, <1>2, <1>3, <1>4, <2>2
  <2> QED BY <1>6, <2>1, <2>2
<1>9. ASSUME NEW i \in 1..(N + 1), NEW j \in 1..(N + 1), i < j
      PROVE  number2[i] < number2[j] /\ pars2[i].name # pars2[j].name
  <2>1. i \in 1..N /\ number2[i] = number[i] /\ number[i] \in 1..L /\ pars2[i] = pars[i]
    BY <1>1, <1>2, <1>4, <1>7, <1>9
  <2>2. CASE j \in 1..N
    <3>1. number2[j] = number[j] /\ pars2[j] = pars[j]
      BY <1>2, <1>4, <2>2
    <3>2. number[i] < number[j] /\ pars[i].name # pars[j].name
      <4>1. i # j
        BY <1>1, <1>9
      <4> QED BY <1>7, <1>9, <2>1, <2>2, <4>1
    <3> QED BY <2>1, <3>1, <3>2
  <2>3. CASE j = N + 1
    <3>1. pars[i].name # par.name
      BY <1>1, <2>1 DEF NameIn
    <3>2. number[i] < L + 1
      BY <1>1, <2>1
    <3> QED BY <1>2, <1>4, <2>1, <2>3, <3>1, <3>2
  <2> QED BY <1>6, <2>2, <2>3
<1>10. \A i, j \in 1..(N + 1) : i # j => pars2[i].name # pars2[j].name
  <2>1. \A i, j \in 1..(N + 1) : i # j => i < j \/ j < i
    BY <1>1
  <2> QED BY <1>9, <2>1
<1>11. ASSUME NEW k \in 1..(L + 1), lines2[k].name # Comment
       PROVE  \E i \in 1..(N + 1) : number2[i] = k
  <2>1. CASE k = L + 1
    BY <1>1, <1>4, <2>1
  <2>2. CASE k \in 1..L
    <3>1. PICK i \in 1..N : number[i] = k
      BY <1>3, <1>7, <1>11, <2>2
    <3>2. i \in 1..(N + 1)
      BY <1>1
    <3> QED BY <1>4, <3>1, <3>2
  <2>3. k = L + 1 \/ k \in 1..L
    BY <1>1
  <2> QED BY <2>1, <2>2, <2>3
<1>12. Belong(pars2, lines2, number2)
  BY <1>2, <1>3, <1>8, <1>9, <1>10, <1>11 DEF Belong
<1>13. Explained(pars2, lines2, number2, stop2)
  BY <1>2, <1>8 DEF Explained
<1> QED BY <1>12, <1>13 DEF Consistent, pars2, lines2, number2, stop2

(* A parameter and its line are removed, and those behind move up.         *)
LEMMA ConsistentRemoved ==
    ASSUME NEW pars \in Seq(Par), NEW lines \in Seq(Line), NEW number \in Seq(Int),
           NEW stop \in Seq(Stops), Len(number) = Len(pars), Len(stop) = Len(pars),
           Consistent(pars, lines, number, stop), NEW index \in 1..Len(pars)
    PROVE  Consistent(RemoveAt(pars, index), RemoveAt(lines, number[index]),
                      Shifted(number, index), RemoveAt(stop, index))
<1> DEFINE N == Len(pars)
           L == Len(lines)
           at == number[index]
           pars2 == RemoveAt(pars, index)
           lines2 == RemoveAt(lines, at)
           number2 == Shifted(number, index)
           stop2 == RemoveAt(stop, index)
           old == [j \in 1..(N - 1) |-> IF j < index THEN j ELSE j + 1]
<1>1. N \in Nat /\ L \in Nat /\ index \in 1..N
  BY LenProperties
<1>2. /\ \A i \in 1..N : number[i] \in 1..L /\ lines[number[i]].name = pars[i].name
      /\ \A i, j \in 1..N : i < j => number[i] < number[j]
      /\ \A i, j \in 1..N : i # j => pars[i].name # pars[j].name
      /\ \A k \in 1..L : lines[k].name # Comment => \E i \in 1..N : number[i] = k
      /\ \A i \in 1..N : \/ lines[number[i]].intact
                         \/ IsLearn(pars[i])
                            /\ (stop[i] # "comma" \/ lines[number[i]].indented)
  BY DEF Consistent, Belong, Explained
<1>3. at \in 1..L
  BY <1>1, <1>2
<1>4. Len(pars2) = N - 1 /\ \A j \in 1..(N - 1) : pars2[j] = pars[old[j]]
  BY Removed
<1>5. Len(lines2) = L - 1
      /\ \A k \in 1..(L - 1) : lines2[k] = lines[IF k < at THEN k ELSE k + 1]
  <2> HIDE DEF at
  <2> QED BY <1>3, Removed
<1>6. \A j \in 1..(N - 1) :
        number2[j] = IF j < index THEN number[j] ELSE number[j + 1] - 1
  <2>1. index \in 1..Len(number)
    BY <1>1
  <2>2. \A j \in 1..(Len(number) - 1) :
          number2[j] = IF j < index THEN number[j] ELSE number[j + 1] - 1
    BY <2>1, ShiftedNumbers
  <2> QED BY <2>2
<1>7. \A j \in 1..(N - 1) : stop2[j] = stop[old[j]]
  <2>1. index \in 1..Len(stop)
    BY <1>1
  <2>2. \A j \in 1..(Len(stop) - 1) : stop2[j] = stop[IF j < index THEN j ELSE j + 1]
    BY <2>1, Removed
  <2> QED BY <2>2
<1>7a. \A j \in 1..(N - 1) : old[j] = IF j < index THEN j ELSE j + 1
  OBVIOUS
<1> HIDE DEF pars2, lines2, number2, stop2, at, old
<1>8. ASSUME NEW j \in 1..(N - 1)
      PROVE  /\ old[j] \in 1..N /\ old[j] # index
             /\ number2[j] \in 1..(L - 1)
             /\ lines2[number2[j]] = lines[number[old[j]]]
             /\ number2[j] = IF number[old[j]] < at THEN number[old[j]]
                             ELSE number[old[j]] - 1
  <2>1. CASE j < index
    <3>1. j \in 1..N /\ old[j] = j /\ number2[j] = number[j]
      BY <1>1, <1>6, <1>7a, <2>1
    <3>2. number[j] \in 1..L /\ number[j] < at
      BY <1>1, <1>2, <2>1, <3>1 DEF at
    <3>3. number2[j] \in 1..(L - 1)
      BY <1>1, <1>3, <3>1, <3>2
    <3>4. lines2[number2[j]] = lines[number[j]]
      BY <1>5, <3>1, <3>2, <3>3
    <3> QED BY <2>1, <3>1, <3>2, <3>3, <3>4
  <2>2. CASE ~(j < index)
    <3>1. j + 1 \in 1..N /\ index < j + 1 /\ old[j] = j + 1 /\ number2[j] = number[j + 1] - 1
      BY <1>1, <1>6, <1>7a, <2>2
    <3>2. number[j + 1] \in 1..L /\ at < number[j + 1]
      BY <1>1, <1>2, <3>1 DEF at
    <3>3. number2[j] \in 1..(L - 1) /\ ~(number2[j] < at) /\ number2[j] + 1 = number[j + 1]
          /\ ~(number[j + 1] < at)
      BY <1>1, <1>3, <3>1, <3>2
    <3>4. lines2[number2[j]] = lines[number[j + 1]]
      BY <1>5, <3>3
    <3> QED BY <1>1, <3>1, <3>3, <3>4
  <2> QED BY <2>1, <2>2
<1>9. ASSUME NEW i \in 1..(N - 1), NEW j \in 1..(N - 1), i < j
      PROVE  number2[i] < number2[j] /\ pars2[i].name # pars2[j].name
  <2>1. old[i] \in 1..N /\ old[j] \in 1..N /\ old[i] < old[j]
        /\ old[i] # index /\ old[j] # index /\ old[i] # old[j]
    <3>1. \A a \in 1..(N - 1) : old[a] \in 1..N /\ old[a] # index
      BY <1>8
    <3>2. old[i] < old[j]
      <4>1. /\ old[i] = IF i < index THEN i ELSE i + 1
            /\ old[j] = IF j < index THEN j ELSE j + 1
        BY <1>7a, <1>9
      <4>2. i \in Int /\ j \in Int /\ index \in Int
        BY <1>1, <1>9
      <4> QED BY <1>9, <4>1, <4>2
    <3>3. old[i] \in Int /\ old[j] \in Int
      <4>1. \A x \in 1..N : x \in Int
        BY <1>1
      <4> QED BY <1>9, <3>1, <4>1
    <3>4. old[i] # old[j]
      <4> DEFINE a == old[i]
                 b == old[j]
      <4>1. a \in Int /\ b \in Int /\ a < b
        BY <3>2, <3>3
      <4> HIDE DEF a, b
      <4>2. a # b
        BY <4>1
      <4> QED BY <4>2 DEF a, b
    <3> QED BY <1>9, <3>1, <3>2, <3>4
  <2>2. number[old[i]] < number[old[j]]
        /\ pars[old[i]].name # pars[old[j]].name
        /\ number[old[i]] \in 1..L /\ number[old[j]] \in 1..L
    BY <1>2, <2>1
  <2>3. number[old[i]] # at /\ number[old[j]] # at
    <3>1. \A a \in 1..N : a # index => a < index \/ index < a
      BY <1>1
    <3>2. \A a \in 1..N : a # index => number[a] # at
      BY <1>1, <1>2, <1>3, <3>1 DEF at
    <3> QED BY <2>1, <3>2
  <2>4. number2[i] < number2[j]
    <3>1. number2[i] = IF number[old[i]] < at THEN number[old[i]] ELSE number[old[i]] - 1
      BY <1>8
    <3>2. number2[j] = IF number[old[j]] < at THEN number[old[j]] ELSE number[old[j]] - 1
      BY <1>8
    <3>3. \A a, b, c \in Int : a < b /\ a # c /\ b # c =>
            (IF a < c THEN a ELSE a - 1) < (IF b < c THEN b ELSE b - 1)
      OBVIOUS
    <3>4. number[old[i]] \in Int /\ number[old[j]] \in Int /\ at \in Int
      <4>1. \A x \in 1..L : x \in Int
        BY <1>1
      <4> QED BY <1>3, <2>2, <4>1
    <3> DEFINE a == number[old[i]]
               b == number[old[j]]
    <3>5. a < b /\ a # at /\ b # at /\ a \in Int /\ b \in Int
      BY <2>2, <2>3, <3>4
    <3>6. number2[i] = (IF a < at THEN a ELSE a - 1)
          /\ number2[j] = (IF b < at THEN b ELSE b - 1)
      BY <3>1, <3>2
    <3> HIDE DEF a, b
    <3>7. (IF a < at THEN a ELSE a - 1) < (IF b < at THEN b ELSE b - 1)
      BY <3>3, <3>4, <3>5
    <3> QED BY <3>6, <3>7
  <2> QED BY <1>4, <2>2, <2>4
<1>10. \A i, j \in 1..(N - 1) : i # j => pars2[i].name # pars2[j].name
  <2>1. \A i, j \in 1..(N - 1) : i # j => i < j \/ j < i
    BY <1>1
  <2> QED BY <1>9, <2>1
<1>11. ASSUME NEW k \in 1..(L - 1), lines2[k].name # Comment
       PROVE  \E j \in 1..(N - 1) : number2[j] = k
  <2>1. CASE k < at
    <3>0. k \in 1..L /\ lines2[k] = lines[k]
      <4>1. k \in 1..L
        BY <1>1, <1>11
      <4>2. lines2[k] = lines[IF k < at THEN k ELSE k + 1]
        BY <1>5, <1>11
      <4> QED BY <2>1, <4>1, <4>2
    <3>1. k \in 1..L /\ lines[k].name # Comment
      BY <1>11, <3>0
    <3>2. PICK i \in 1..N : number[i] = k
      BY <1>2, <3>1
    <3>3. i < index
      <4>1. i # index /\ ~(index < i)
        BY <1>1, <1>2, <1>3, <2>1, <3>2 DEF at
      <4> QED BY <1>1, <4>1
    <3> QED BY <1>1, <1>6, <3>2, <3>3
  <2>2. CASE ~(k < at)
    <3>0. k + 1 \in 1..L /\ lines2[k] = lines[k + 1]
      <4>1. k + 1 \in 1..L
        BY <1>1, <1>11
      <4>2. lines2[k] = lines[IF k < at THEN k ELSE k + 1]
        BY <1>5, <1>11
      <4> QED BY <2>2, <4>1, <4>2
    <3>1. k + 1 \in 1..L /\ lines[k + 1].name # Comment
      BY <1>11, <3>0
    <3>2. PICK i \in 1..N : number[i] = k + 1
      BY <1>2, <3>1
    <3>3. index < i
      <4>1. i # index /\ ~(i < index)
        BY <1>1, <1>2, <1>3, <2>2, <3>2 DEF at
      <4> QED BY <1>1, <4>1
    <3>4. i - 1 \in 1..(N - 1) /\ ~(i - 1 < index) /\ (i - 1) + 1 = i
      BY <1>1, <3>3
    <3>5. number2[i - 1] = number[i] - 1
      BY <1>6, <3>4
    <3> QED BY <3>2, <3>4, <3>5
  <2> QED BY <1>1, <1>3, <2>1, <2>2
<1>12. Belong(pars2, lines2, number2)
  <2>1. \A j \in 1..(N - 1) :
          number2[j] \in 1..(L - 1) /\ lines2[number2[j]].name = pars2[j].name
    <3>1. SUFFICES ASSUME NEW j \in 1..(N - 1)
                   PROVE  number2[j] \in 1..(L - 1) /\ lines2[number2[j]].name = pars2[j].name
      OBVIOUS
    <3>2. old[j] \in 1..N /\ number2[j] \in 1..(L - 1)
          /\ lines2[number2[j]] = lines[number[old[j]]]
      BY <1>8
    <3>3. lines[number[old[j]]].name = pars[old[j]].name /\ pars2[j] = pars[old[j]]
      BY <1>2, <1>4, <3>2
    <3> QED BY <3>2, <3>3
  <2> QED BY <1>4, <1>5, <1>9, <1>10, <1>11, <2>1 DEF Belong
<1>13. Explained(pars2, lines2, number2, stop2)
  <2>1. SUFFICES ASSUME NEW j \in 1..(N - 1)
                 PROVE  \/ lines2[number2[j]].intact
                        \/ IsLearn(pars2[j])
                           /\ (stop2[j] # "comma" \/ lines2[number2[j]].indented)
    BY <1>4 DEF Explained
  <2>2. old[j] \in 1..N /\ lines2[number2[j]] = lines[number[old[j]]]
    BY <1>8
  <2>3. pars2[j] = pars[old[j]] /\ stop2[j] = stop[old[j]]
    BY <1>4, <1>7
  <2> QED BY <1>2, <2>2, <2>3
<1> QED BY <1>12, <1>13 DEF Consistent, pars2, lines2, number2, stop2, at

(* What is parsed into an empty container belongs.                         *)
LEMMA ConsistentParsed ==
    ASSUME NEW lines \in Seq(Line), ~Throws(<<>>, lines), NEW stop,
           \A i \in 1..Len(Taken(<<>>, lines)) : stop[i] = "comma"
    PROVE  Consistent(Parsed(<<>>, lines), lines, Taken(<<>>, lines), stop)
<1> DEFINE number == Taken(<<>>, lines)
           pars == Parsed(<<>>, lines)
           N == Len(number)
           L == Len(lines)
<1>1. /\ number \in Seq(Int)
      /\ \A i \in 1..N : number[i] \in 1..L /\ lines[number[i]].name # Comment
      /\ \A i, j \in 1..N : i < j => number[i] < number[j]
      /\ \A k \in 1..L : lines[k].name # Comment => \E i \in 1..N : number[i] = k
  BY TakenLines
<1>2. N \in Nat /\ L \in Nat /\ DOMAIN lines = 1..L
  <2> HIDE DEF number
  <2> QED BY <1>1, LenProperties
<1>3. Len(pars) = N /\ \A i \in 1..N : pars[i].name = lines[number[i]].name
  <2>1. <<>> \in Seq(Par) /\ Len(<<>>) = 0
    BY EmptySeq
  <2>2. /\ Len(pars) = 0 + N
        /\ \A i \in 1..N : pars[0 + i].name = lines[number[i]].name
    BY <2>1, ParsedPars
  <2> HIDE DEF pars, number
  <2>3. \A i \in 1..N : 0 + i = i
    BY <1>2
  <2> QED BY <1>2, <2>2, <2>3
<1> HIDE DEF number, pars
<1>4. ASSUME NEW k \in 1..L, lines[k].name # Comment
      PROVE  /\ lines[k].intact
             /\ \A j \in 1..(k - 1) : lines[j].name # lines[k].name
  <2>1. k \notin Refused(<<>>, lines)
    BY DEF Throws
  <2> QED BY <1>2, <1>4, <2>1 DEF Refused, Parses
<1>5. ASSUME NEW i \in 1..N, NEW j \in 1..N, i < j
      PROVE  pars[i].name # pars[j].name
  <2>1. number[i] \in 1..L /\ number[j] \in 1..L /\ lines[number[j]].name # Comment
        /\ number[i] < number[j]
    BY <1>1, <1>5
  <2>2. number[i] \in 1..(number[j] - 1)
    BY <1>2, <2>1
  <2>3. lines[number[i]].name # lines[number[j]].name
    BY <1>4, <2>1, <2>2
  <2> QED BY <1>3, <2>3
<1>6. \A i, j \in 1..N : i # j => pars[i].name # pars[j].name
  <2>1. \A i, j \in 1..N : i # j => i < j \/ j < i
    BY <1>2
  <2> QED BY <1>5, <2>1
<1>7. Belong(pars, lines, number)
  BY <1>1, <1>3, <1>6 DEF Belong
<1>8. Explained(pars, lines, number, stop)
  BY <1>1, <1>3, <1>4 DEF Explained
<1> QED BY <1>7, <1>8 DEF Consistent, pars, number

(* Values are changed.                                                     *)
LEMMA ConsistentChanged ==
    ASSUME NEW pars, NEW lines, NEW number, NEW stop, NEW other,
           Consistent(pars, lines, number, stop), Len(other) = Len(pars),
           \A i \in 1..Len(pars) : other[i].name = pars[i].name
                                   /\ (IsLearn(other[i]) <=> IsLearn(pars[i]))
    PROVE  Consistent(other, lines, number, stop)
BY DEF Consistent, Belong, Explained
(* The lines with the values that update() writes into them.               *)
LEMMA ConsistentUpdated ==
    ASSUME ContainerOK, NEW p \in Apps,
           Consistent(m_pars[p], m_parfile[p], m_line[p], m_vstop[p])
    PROVE  /\ Consistent(m_pars[p], Updated(p), m_line[p], m_vstop[p])
           /\ Learned(m_pars[p], Updated(p), m_line[p])
<1> DEFINE pars == m_pars[p]
           lines == m_parfile[p]
           number == m_line[p]
           stop == m_vstop[p]
           new == Updated(p)
           N == Len(pars)
           L == Len(lines)
<1>1. /\ N \in Nat /\ L \in Nat /\ DOMAIN pars = 1..N /\ DOMAIN lines = 1..L
      /\ \A i \in 1..N : pars[i] \in Par /\ stop[i] \in Stops
      /\ \A k \in 1..L : lines[k] \in Line
  BY Vectors
<1>2. /\ \A i \in 1..N : number[i] \in 1..L /\ lines[number[i]].name = pars[i].name
      /\ \A i, j \in 1..N : i < j => number[i] < number[j]
      /\ \A i, j \in 1..N : i # j => pars[i].name # pars[j].name
      /\ \A k \in 1..L : lines[k].name # Comment => \E i \in 1..N : number[i] = k
      /\ \A i \in 1..N : \/ lines[number[i]].intact
                         \/ IsLearn(pars[i])
                            /\ (stop[i] # "comma" \/ lines[number[i]].indented)
  BY DEF Consistent, Belong, Explained
<1>3. /\ Len(new) = L
      /\ \A k \in 1..L : new[k].name = lines[k].name /\ new[k].indented = lines[k].indented
  BY UpdatedLines
<1>4. ASSUME NEW i \in 1..N
      PROVE  /\ ~IsLearn(pars[i]) => new[number[i]] = lines[number[i]]
             /\ IsLearn(pars[i]) =>
                    /\ new[number[i]].value = pars[i].value
                    /\ stop[i] = "comma" /\ ~lines[number[i]].indented
                         => new[number[i]].intact
  <2> DEFINE k == number[i]
             line == lines[k]
  <2>1. k \in 1..L /\ line \in Line /\ pars[i] \in Par
    BY <1>1, <1>2
  <2>2. \A j \in 1..N : number[j] = k => j = i
    <3>1. \A j \in 1..N : j = i \/ j < i \/ i < j
      BY <1>1
    <3>2. \A j \in 1..N : number[j] \in Int
      BY <1>1, <1>2
    <3> QED BY <1>2, <3>1, <3>2
  <2>3. \A j \in 1..N : Updates(pars[j]) <=> IsLearn(pars[j])
    BY <1>1 DEF Updates, Par
  <2>4. Writers(p, k) = IF IsLearn(pars[i]) THEN {i} ELSE {}
    BY <1>1, <2>2, <2>3 DEF Writers
  <2>5. CASE ~IsLearn(pars[i])
    <3>1. Writers(p, k) = {}
      BY <2>4, <2>5
    <3> HIDE DEF k
    <3>2. new[k] = lines[k]
      BY <1>1, <2>1, <3>1 DEF Updated
    <3> QED BY <2>5, <3>2 DEF k
  <2>6. CASE IsLearn(pars[i])
    <3>1. Writers(p, k) = {i}
      BY <2>4, <2>6
    <3>2. Max({i}) = i
      <4>1. Max({i}) \in {i}
        BY <1>1, GreatestNumber, {i} \in SUBSET (1..N)
      <4> QED BY <4>1
    <3> DEFINE place == IF stop[i] = ParStop THEN ParStop ELSE "comma"
    <3> HIDE DEF k
    <3>3. new[k] = Written(lines[k], place, pars[i].value)
      BY <1>1, <2>1, <3>1, <3>2 DEF Updated
    <3>4. stop[i] = "comma" => place = "comma"
      BY DEF ParStop
    <3>5. stop[i] = "comma" /\ ~lines[k].indented => lines[k].intact
      BY <1>2 DEF k
    <3> HIDE DEF place
    <3>6. pars[i].value \in Values
      BY <2>1 DEF Par
    <3>7. /\ new[k].value = pars[i].value
          /\ stop[i] = "comma" /\ ~lines[k].indented => new[k].intact
      BY <2>1, <3>3, <3>4, <3>5, <3>6, WrittenLine
    <3> QED BY <2>6, <3>7 DEF k
  <2> QED BY <2>5, <2>6
<1> HIDE DEF new
<1>5. Belong(pars, new, number)
  BY <1>2, <1>3 DEF Belong
<1>6. Explained(pars, new, number, stop)
  <2>1. SUFFICES ASSUME NEW i \in 1..N
                 PROVE  \/ new[number[i]].intact
                        \/ IsLearn(pars[i])
                           /\ (stop[i] # "comma" \/ new[number[i]].indented)
    BY DEF Explained
  <2>2. number[i] \in 1..L /\ new[number[i]].indented = lines[number[i]].indented
    BY <1>2, <1>3
  <2> QED BY <1>2, <1>4, <2>2
<1>7. Learned(pars, new, number)
  BY <1>4 DEF Learned
<1> QED BY <1>5, <1>6, <1>7 DEF Consistent, new

LineState(p) ==
    sound[p] /\ pc[p] \notin {"read_lock", "read"} =>
        /\ Consistent(m_pars[p], m_parfile[p], m_line[p], m_vstop[p])
        /\ Saving(p) => Learned(m_pars[p], m_parfile[p], m_line[p])

(* What load() leaves is consistent if it is sound.                        *)
LEMMA ParsedState ==
    ASSUME ContainerOK, sound \in [Apps -> BOOLEAN], NEW p \in Apps,
           NEW lines \in Seq(Line), Parse(p, lines), pc'[p] = "idle"
    PROVE  LineState(p)'
<1> SUFFICES ASSUME sound'[p]
             PROVE  Consistent(m_pars'[p], m_parfile'[p], m_line'[p], m_vstop'[p])
  BY DEF LineState, Saving
<1>1. m_pars[p] = <<>> /\ ~Throws(<<>>, lines)
  BY DEF Parse
<1>2. m_line[p] = <<>> /\ m_vstop[p] = <<>>
  <2>1. /\ m_line[p] \in Seq(Int) /\ m_vstop[p] \in Seq(Stops)
        /\ Len(m_line[p]) = Len(m_pars[p]) /\ Len(m_vstop[p]) = Len(m_pars[p])
    BY Vectors
  <2>2. Len(m_pars[p]) = 0
    BY <1>1, EmptySeq
  <2> QED BY <2>1, <2>2, EmptySeq
<1> DEFINE taken == Taken(<<>>, lines)
           stops == [i \in DOMAIN taken |-> "comma"]
<1>3. taken \in Seq(Int)
  BY TakenLines
<1>4. /\ m_pars'[p] = Parsed(<<>>, lines) /\ m_parfile'[p] = lines
      /\ m_line'[p] = <<>> \o taken /\ m_vstop'[p] = <<>> \o stops
  <2> DEFINE Commas(of) == [i \in DOMAIN of |-> "comma"]
  <2>1. /\ m_pars'[p] = Parsed(m_pars[p], lines) /\ m_parfile'[p] = lines
        /\ m_line'[p] = m_line[p] \o Taken(m_pars[p], lines)
        /\ m_vstop'[p] = m_vstop[p] \o Commas(Taken(m_pars[p], lines))
    BY ParsedVectors
  <2>2. stops = Commas(taken)
    OBVIOUS
  <2> HIDE DEF Commas
  <2> QED BY <1>1, <1>2, <2>1, <2>2
<1> HIDE DEF taken
<1>5. DOMAIN taken = 1..Len(taken) /\ Len(taken) \in Nat
  BY <1>3, LenProperties
<1>6. stops \in Seq(Stops) /\ \A i \in 1..Len(taken) : stops[i] = "comma"
  <2>1. stops \in [1..Len(taken) -> Stops]
    BY <1>5 DEF Stops
  <2>2. \A i \in 1..Len(taken) : stops[i] = "comma"
    BY <1>5
  <2> HIDE DEF stops
  <2> QED BY <1>5, <2>1, <2>2, FunctionIsSeq
<1> HIDE DEF stops
<1>7. <<>> \o taken = taken /\ <<>> \o stops = stops
  BY <1>3, <1>6, ConcatEmptySeq
<1>8. Consistent(Parsed(<<>>, lines), lines, taken, stops)
  BY <1>1, <1>6, ConsistentParsed DEF taken
<1> QED BY <1>4, <1>7, <1>8

LEMMA AppendState ==
    ASSUME ContainerOK, ControlOK, LinesInv, NEW p \in Apps, NEW par \in Par,
           AppendPar(p, par)
    PROVE  LineState(p)'
<1>1. pc[p] = "idle" /\ UNCHANGED <<pc, sound>> /\ ~NameIn(m_pars[p], par.name)
  BY DEF AppendPar, Call
<1> SUFFICES ASSUME sound[p]
             PROVE  Consistent(m_pars'[p], m_parfile'[p], m_line'[p], m_vstop'[p])
  BY <1>1 DEF LineState, Saving
<1>2. Consistent(m_pars[p], m_parfile[p], m_line[p], m_vstop[p])
  BY <1>1 DEF LinesInv
<1>3. /\ m_pars[p] \in Seq(Par) /\ m_parfile[p] \in Seq(Line)
      /\ m_line[p] \in Seq(Int) /\ m_vstop[p] \in Seq(Stops)
      /\ Len(m_line[p]) = Len(m_pars[p]) /\ Len(m_vstop[p]) = Len(m_pars[p])
  BY Vectors
<1>4. /\ ParLine(par, NoAnswer) \in Line /\ ParLine(par, NoAnswer).name = par.name
      /\ ParLine(par, NoAnswer).intact
  BY BuiltLine
<1>5. Consistent(Append(m_pars[p], par), Append(m_parfile[p], ParLine(par, NoAnswer)),
                 Append(m_line[p], Len(m_parfile[p]) + 1), Append(m_vstop[p], ParStop))
  BY <1>1, <1>2, <1>3, <1>4, ConsistentAppended
<1>6. /\ m_pars'[p] = Append(m_pars[p], par)
      /\ m_parfile'[p] = Append(m_parfile[p], ParLine(par, NoAnswer))
      /\ m_line'[p] = Append(m_line[p], Len(m_parfile[p]) + 1)
      /\ m_vstop'[p] = Append(m_vstop[p], ParStop)
  BY AppendVectors
<1> QED BY <1>5, <1>6

LEMMA RemoveState ==
    ASSUME ContainerOK, ControlOK, LinesInv, NEW p \in Apps,
           NEW index \in DOMAIN m_pars[p], RemovePar(p, index)
    PROVE  LineState(p)'
<1>1. pc[p] = "idle" /\ UNCHANGED <<pc, sound>>
  BY DEF RemovePar, Call
<1> SUFFICES ASSUME sound[p]
             PROVE  Consistent(m_pars'[p], m_parfile'[p], m_line'[p], m_vstop'[p])
  BY <1>1 DEF LineState, Saving
<1>2. Consistent(m_pars[p], m_parfile[p], m_line[p], m_vstop[p])
  BY <1>1 DEF LinesInv
<1>3. /\ m_pars[p] \in Seq(Par) /\ m_parfile[p] \in Seq(Line)
      /\ m_line[p] \in Seq(Int) /\ m_vstop[p] \in Seq(Stops)
      /\ Len(m_line[p]) = Len(m_pars[p]) /\ Len(m_vstop[p]) = Len(m_pars[p])
      /\ index \in 1..Len(m_pars[p])
  BY Vectors
<1>4. Consistent(RemoveAt(m_pars[p], index), RemoveAt(m_parfile[p], m_line[p][index]),
                 Shifted(m_line[p], index), RemoveAt(m_vstop[p], index))
  BY <1>2, <1>3, ConsistentRemoved
<1> QED BY <1>4, RemoveVectors

LEMMA ChangeState ==
    ASSUME ContainerOK, ControlOK, LinesInv, NEW p \in Apps,
           NEW index \in DOMAIN m_pars[p], NEW par \in Par, Changed(p, index, par)
    PROVE  LineState(p)'
<1>1. pc[p] = "idle" /\ UNCHANGED <<pc, sound, m_parfile, m_line, m_vstop>>
  BY DEF Changed, Call
<1> SUFFICES ASSUME sound[p]
             PROVE  Consistent(m_pars'[p], m_parfile'[p], m_line'[p], m_vstop'[p])
  BY <1>1 DEF LineState, Saving
<1>2. Consistent(m_pars[p], m_parfile[p], m_line[p], m_vstop[p])
  BY <1>1 DEF LinesInv
<1>3. /\ Len(m_pars'[p]) = Len(m_pars[p])
      /\ \A i \in 1..Len(m_pars[p]) :
            m_pars'[p][i] = IF i = index THEN par ELSE m_pars[p][i]
  BY ChangeVectors DEF Changed
<1>4. \A i \in 1..Len(m_pars[p]) :
        /\ m_pars'[p][i].name = m_pars[p][i].name
        /\ IsLearn(m_pars'[p][i]) <=> IsLearn(m_pars[p][i])
  BY <1>3 DEF Changed
<1>5. Consistent(m_pars'[p], m_parfile[p], m_line[p], m_vstop[p])
  BY <1>2, <1>3, <1>4, ConsistentChanged
<1> QED BY <1>1, <1>5

LEMMA SaveState ==
    ASSUME ContainerOK, ControlOK, LinesInv, NEW p \in Apps, Save(p)
    PROVE  LineState(p)'
<1>1. pc[p] = "idle" /\ UNCHANGED <<sound, m_pars, m_line, m_vstop>>
  BY DEF Save, Call
<1>2. m_parfile'[p] = Updated(p)
  BY SaveVectors
<1>3. sound[p] => Consistent(m_pars[p], m_parfile[p], m_line[p], m_vstop[p])
  BY <1>1 DEF LinesInv
<1>4. sound[p] => /\ Consistent(m_pars[p], Updated(p), m_line[p], m_vstop[p])
                  /\ Learned(m_pars[p], Updated(p), m_line[p])
  BY <1>3, ConsistentUpdated
<1> QED BY <1>1, <1>2, <1>4 DEF LineState

LEMMA ClearState ==
    ASSUME ContainerOK, ControlOK, NEW p \in Apps, Clear(p)
    PROVE  LineState(p)'
<1>1. pc'[p] = "idle" /\ m_pars'[p] = <<>> /\ m_parfile'[p] = <<>>
  BY ClearVectors DEF Clear, Call
<1>2. Consistent(m_pars'[p], m_parfile'[p], m_line'[p], m_vstop'[p])
  BY <1>1, EmptySeq DEF Consistent, Belong, Explained
<1> QED BY <1>1, <1>2 DEF LineState, Saving

LEMMA LoadState ==
    ASSUME ContainerOK, SharedOK, ControlOK, NEW p \in Apps, Load(p)
    PROVE  LineState(p)'
<1>1. CASE file.exists
  <2>1. pc' = [pc EXCEPT ![p] = "read_lock"]
    BY <1>1 DEF Load, GoTo
  <2>2. pc'[p] = "read_lock"
    BY <2>1 DEF ControlOK
  <2> QED BY <2>2 DEF LineState
<1>2. CASE ~file.exists
  <2>1. Parse(p, setting.system) /\ pc'[p] = "idle"
    BY <1>2 DEF Load, Call
  <2>2. setting.system \in Seq(Line)
    BY SettingFacts DEF ControlOK
  <2> QED BY <2>1, <2>2, ParsedState DEF ControlOK
<1> QED BY <1>1, <1>2

LEMMA InCallState ==
    ASSUME ContainerOK, SharedOK, ControlOK, LinesInv, NEW p \in Apps, InCall(p)
    PROVE  LineState(p)'
<1>1. CASE Read(p)
  <2>1. Parse(p, file.lines) /\ pc' = [pc EXCEPT ![p] = "idle"]
    BY <1>1 DEF Read, GoTo
  <2>2. file.lines \in Seq(Line) /\ pc'[p] = "idle"
    BY <2>1 DEF SharedOK, ControlOK
  <2> QED BY <2>1, <2>2, ParsedState DEF ControlOK
<1>2. CASE ReadLock(p)
  <2>1. pc'[p] = "read"
    BY <1>2 DEF ReadLock, GoTo, ControlOK
  <2> QED BY <2>1 DEF LineState
<1>3. CASE ~Read(p) /\ ~ReadLock(p)
  <2>1. UNCHANGED container /\ Saving(p)
    BY <1>3 DEF InCall, WriteLock, Truncate, Create, CreateLock, Write, Saving
  <2>2. LineState(p)
    BY DEF LinesInv, LineState
  <2> QED BY <2>1, <2>2 DEF LineState, Saving, container
<1> QED BY <1>1, <1>2, <1>3

(* The other applications keep their places too.                           *)
LEMMA OthersKeepState ==
    ASSUME ControlOK, LinesInv, NEW p \in Apps, OthersKept(p), Calls(p) \/ InCall(p),
           ContainerOK, SharedOK, NEW q \in Apps \ {p}
    PROVE  LineState(q)'
<1>1. pc'[q] = pc[q]
  <2>1. CASE Calls(p)
    BY <2>1, CallStep DEF ControlOK
  <2>2. CASE InCall(p)
    BY <2>2 DEF InCall, ReadLock, Read, WriteLock, Truncate, Create, CreateLock, Write,
                GoTo, ControlOK
  <2> QED BY <2>1, <2>2
<1>2. sound'[q] = sound[q]
  <2>1. ASSUME NEW lines, Parse(p, lines) PROVE sound'[q] = sound[q]
    BY <2>1 DEF Parse, ControlOK
  <2>2. CASE InCall(p)
    <3>1. CASE Read(p)
      BY <2>1, <3>1 DEF Read
    <3> QED BY <2>2, <3>1 DEF InCall, ReadLock, WriteLock, Truncate, Create, CreateLock,
                              Write, container
  <2>3. CASE Clear(p) \/ Save(p)
    BY <2>3 DEF Clear, Save, ControlOK
  <2>4. CASE \E par : AppendPar(p, par)
    BY <2>4 DEF AppendPar
  <2>5. CASE \E index, par, answer : Insert(p, index, par, answer)
    BY <2>5 DEF Insert, ControlOK
  <2>6. CASE \E index : RemovePar(p, index)
    BY <2>6 DEF RemovePar
  <2>7. CASE \E index, v : Value(p, index, v)
    BY <2>7 DEF Value
  <2>8. CASE \E index, answer : Query(p, index, answer)
    BY <2>8 DEF Query
  <2>9. CASE Load(p)
    BY <2>1, <2>9 DEF Load
  <2> QED BY <2>2, <2>3, <2>4, <2>5, <2>6, <2>7, <2>8, <2>9 DEF Calls
<1>3. LineState(q)
  BY DEF LinesInv, LineState
<1> QED BY <1>1, <1>2, <1>3 DEF LineState, Saving, OthersKept
LEMMA LinesStep ==
    ASSUME ContainerOK, SharedOK, ControlOK, LinesInv, [Next]_vars
    PROVE  LinesInv'
<1>1. CASE UNCHANGED vars
  <2>1. \A p \in Apps : LineState(p) => LineState(p)'
    BY <1>1 DEF vars, container, LineState, Saving
  <2>2. \A p \in Apps : LineState(p)
    BY DEF LinesInv, LineState
  <2> QED BY <2>1, <2>2 DEF LinesInv, LineState
<1>2. CASE Next
  <2>1. PICK p \in Apps :
              \/ \E par \in Par : AppendPar(p, par)
              \/ \E index \in DOMAIN m_pars[p], par \in Par, answer \in Answers :
                    Insert(p, index, par, answer)
              \/ \E index \in DOMAIN m_pars[p] : RemovePar(p, index)
              \/ \E index \in DOMAIN m_pars[p], par \in Par : Changed(p, index, par)
              \/ Clear(p) \/ Load(p) \/ Save(p) \/ InCall(p)
    BY <1>2, Steps
  <2>2. CASE \E par \in Par : AppendPar(p, par)
    <3>1. LineState(p)' /\ OthersKept(p)
      BY <2>2, AppendState, AppendVectors
    <3>2. UNCHANGED <<pc, sound>>
      BY <2>2 DEF AppendPar
    <3> QED BY <3>1, <3>2 DEF LinesInv, LineState, Saving, OthersKept
  <2>3. CASE \E index \in DOMAIN m_pars[p], par \in Par, answer \in Answers :
                Insert(p, index, par, answer)
    <3>1. OthersKept(p)
      BY <2>3, InsertVectors DEF Answers
    <3>2. UNCHANGED pc /\ sound' = [sound EXCEPT ![p] = FALSE]
      BY <2>3 DEF Insert
    <3>3. sound'[p] = FALSE /\ \A q \in Apps \ {p} : sound'[q] = sound[q]
      BY <3>2 DEF ControlOK
    <3> QED BY <3>1, <3>2, <3>3 DEF LinesInv, Saving, OthersKept
  <2>4. CASE \E index \in DOMAIN m_pars[p] : RemovePar(p, index)
    <3>1. LineState(p)' /\ OthersKept(p)
      BY <2>4, RemoveState, RemoveVectors
    <3>2. UNCHANGED <<pc, sound>>
      BY <2>4 DEF RemovePar
    <3> QED BY <3>1, <3>2 DEF LinesInv, LineState, Saving, OthersKept
  <2>5. CASE \E index \in DOMAIN m_pars[p], par \in Par : Changed(p, index, par)
    <3>1. LineState(p)' /\ OthersKept(p)
      BY <2>5, ChangeState, ChangeVectors DEF Changed
    <3>2. UNCHANGED <<pc, sound>>
      BY <2>5 DEF Changed
    <3> QED BY <3>1, <3>2 DEF LinesInv, LineState, Saving, OthersKept
  <2>6. CASE Clear(p) \/ Load(p) \/ Save(p) \/ InCall(p)
    <3>1. LineState(p)' /\ OthersKept(p)
      <4>1. CASE Clear(p)
        BY <4>1, ClearState, ClearVectors
      <4>2. CASE Load(p)
        BY <4>2, LoadState, LoadVectors DEF ControlOK
      <4>3. CASE Save(p)
        BY <4>3, SaveState, SaveVectors
      <4>4. CASE InCall(p)
        BY <4>4, InCallState, VectorsInCall
      <4> QED BY <2>6, <4>1, <4>2, <4>3, <4>4
    <3>2. Calls(p) \/ InCall(p)
      BY <2>6 DEF Calls
    <3>3. \A q \in Apps \ {p} : LineState(q)'
      BY <3>1, <3>2, OthersKeepState
    <3> QED BY <3>1, <3>3 DEF LinesInv, LineState
  <2> QED BY <2>1, <2>2, <2>3, <2>4, <2>5, <2>6
<1> QED BY <1>1, <1>2

(* The parameters of an application that is sound, and the lines that are  *)
(* no comments, are the same names in the same order; a line is destroyed  *)
(* only where the place of the value was wrong; what is being saved has    *)
(* the values to be learned.                                               *)
THEOREM LinesInvHolds == Spec => []LinesInv
<1>1. Init => LinesInv
  <2> SUFFICES ASSUME Init, NEW p \in Apps
               PROVE  /\ Consistent(m_pars[p], m_parfile[p], m_line[p], m_vstop[p])
                      /\ ~Saving(p)
    BY DEF LinesInv
  <2>1. m_pars[p] = <<>> /\ m_parfile[p] = <<>> /\ pc[p] = "idle"
    BY DEF Init
  <2> QED BY <2>1, EmptySeq DEF Consistent, Belong, Explained, Saving
<1>2. TypeOK /\ InStep => ContainerOK /\ SharedOK /\ ControlOK
  BY DEF TypeOK, ContainerOK, SharedOK, ControlOK
<1>3. TypeOK /\ InStep /\ LinesInv /\ [Next]_vars => LinesInv'
  BY <1>2, LinesStep
<1> QED BY <1>1, <1>3, TypeCorrect, PTL DEF Spec

(* The line of a parameter has its name, and the lines are in the order of *)
(* the parameters, whatever was appended and removed.                      *)
THEOREM LinesStayTheirs == Spec => []LinesBelong
<1>1. TypeOK /\ InStep /\ LinesInv => LinesBelong
  <2> SUFFICES ASSUME TypeOK, InStep, LinesInv,
                      NEW p \in Apps, sound[p], pc[p] \notin {"read_lock", "read"},
                      NEW i \in DOMAIN m_pars[p]
               PROVE  /\ m_line[p][i] \in DOMAIN m_parfile[p]
                      /\ m_parfile[p][m_line[p][i]].name = m_pars[p][i].name
                      /\ \A j \in 1..(i - 1) : m_line[p][j] < m_line[p][i]
    BY DEF LinesBelong
  <2>1. ContainerOK
    BY DEF TypeOK, ContainerOK
  <2>2. /\ DOMAIN m_parfile[p] = 1..Len(m_parfile[p])
        /\ Len(m_pars[p]) \in Nat /\ i \in 1..Len(m_pars[p])
    BY <2>1, Vectors
  <2>3. Belong(m_pars[p], m_parfile[p], m_line[p])
    BY DEF LinesInv, Consistent
  <2>4. \A j \in 1..(i - 1) : j \in 1..Len(m_pars[p]) /\ j < i
    BY <2>2
  <2> QED BY <2>2, <2>3, <2>4 DEF Belong
<1> QED BY <1>1, TypeCorrect, LinesInvHolds, PTL

(* A file whose lines all parse is read back.                              *)
LEMMA ReadBack ==
    ASSUME NEW pars \in Seq(Par), NEW lines \in Seq(Line), NEW number \in Seq(Int),
           Len(number) = Len(pars), Belong(pars, lines, number),
           Learned(pars, lines, number),
           \A i \in 1..Len(pars) : Parses(lines[number[i]])
    PROVE  LET back == Parsed(<<>>, lines)
           IN  /\ back \in Seq(Par) /\ Len(back) = Len(pars)
               /\ \A i \in 1..Len(pars) :
                    /\ back[i].name = pars[i].name
                    /\ IsLearn(pars[i]) => back[i].value = pars[i].value
<1> DEFINE N == Len(pars)
           L == Len(lines)
           T == {k \in DOMAIN lines :
                    /\ lines[k].name # Comment
                    /\ \A j \in Refused(<<>>, lines) : k < j}
           taken == Taken(<<>>, lines)
           back == Parsed(<<>>, lines)
<1>1. /\ N \in Nat /\ L \in Nat /\ DOMAIN lines = 1..L /\ DOMAIN number = 1..N
      /\ \A i \in 1..N : pars[i] \in Par
  BY LenProperties, ElementOfSeq
<1>2. /\ \A i \in 1..N : number[i] \in 1..L /\ lines[number[i]].name = pars[i].name
      /\ \A i, j \in 1..N : i < j => number[i] < number[j]
      /\ \A i, j \in 1..N : i # j => pars[i].name # pars[j].name
      /\ \A k \in 1..L : lines[k].name # Comment => \E i \in 1..N : number[i] = k
  BY DEF Belong
<1>3. Refused(<<>>, lines) = {}
  <2>1. SUFFICES ASSUME NEW k \in Refused(<<>>, lines) PROVE FALSE
    OBVIOUS
  <2>2. k \in 1..L /\ lines[k].name # Comment
    BY <1>1, <2>1 DEF Refused
  <2>3. PICK i \in 1..N : number[i] = k
    BY <1>2, <2>2
  <2>4. Parses(lines[k])
    BY <2>3
  <2>5. ~NameIn(<<>>, lines[k].name)
    BY DEF NameIn
  <2>6. PICK j \in 1..(k - 1) : lines[j].name = lines[k].name
    BY <2>1, <2>2, <2>4, <2>5 DEF Refused
  <2>7. j \in 1..L /\ j # k
    BY <1>1, <2>2, <2>6
  <2>8. PICK l \in 1..N : number[l] = j
    BY <1>2, <2>2, <2>6, <2>7
  <2>9. l # i /\ pars[l].name = pars[i].name
    BY <1>2, <2>3, <2>6, <2>7, <2>8
  <2> QED BY <1>2, <2>9
<1>4. T = {k \in 1..L : lines[k].name # Comment}
  BY <1>1, <1>3
<1>5. /\ T \in SUBSET Int
      /\ \A k \in T : \E i \in 1..N : number[i] = k
      /\ \A i \in 1..N : number[i] \in T
  <2>1. \A i \in 1..N : pars[i].name \in Names
    BY <1>1 DEF Par
  <2>2. \A i \in 1..N : lines[number[i]].name # Comment
    BY <1>2, <2>1
  <2> QED BY <1>1, <1>2, <1>4, <2>2
<1>6. number \in [1..N -> T] /\ Increasing(number)
  <2>1. number = [i \in 1..N |-> number[i]]
    BY <1>1, LenProperties
  <2>2. number \in [1..N -> T]
    <3> HIDE DEF T
    <3> QED BY <1>5, <2>1
  <2> QED BY <1>1, <1>2, <2>2 DEF Increasing
<1>7. Cardinality(T) = N /\ taken = number
  <2>1. \E s \in [1..Cardinality(T) -> T] : Increasing(s)
    <3>1. T \in SUBSET (1..L)
      BY <1>4
    <3> HIDE DEF T
    <3> QED BY <1>1, <3>1, OrderExists
  <2>2. taken = CHOOSE s \in [1..Cardinality(T) -> T] : Increasing(s)
    BY DEF Taken, Increasing
  <2> HIDE DEF T, taken
  <2>3. taken \in [1..Cardinality(T) -> T] /\ Increasing(taken)
    BY <2>1, <2>2
  <2> QED BY <1>1, <1>5, <1>6, <2>3, OrderIsUnique
<1>8. /\ back \in Seq(Par) /\ Len(back) = N
      /\ \A i \in 1..N : back[i].name = lines[number[i]].name
                         /\ back[i].value = lines[number[i]].value
  <2>1. <<>> \in Seq(Par) /\ Len(<<>>) = 0
    BY EmptySeq
  <2>2. /\ back \in Seq(Par) /\ Len(back) = 0 + Len(taken)
        /\ \A i \in 1..Len(taken) : back[0 + i].name = lines[taken[i]].name
                                    /\ back[0 + i].value = lines[taken[i]].value
    BY <2>1, ParsedPars
  <2>3. Len(taken) = N
    BY <1>7
  <2>4. \A i \in 1..N : 0 + i = i
    BY <1>1
  <2> HIDE DEF back, taken
  <2> QED BY <1>1, <1>7, <2>2, <2>3, <2>4
<1> HIDE DEF back
<1>9. \A i \in 1..N : back[i].name = pars[i].name
                      /\ (IsLearn(pars[i]) => back[i].value = pars[i].value)
  BY <1>2, <1>8 DEF Learned
<1> QED BY <1>8, <1>9 DEF back

(* What is saved can be loaded, with the values to be learned, if no line  *)
(* with blanks in front and none that was appended is updated, and no      *)
(* value with commas is written without its quotes.                        *)
THEOREM SavedStaysReadable == Spec => []SavedIsReadBack
<1>1. TypeOK /\ InStep /\ LinesInv => SavedIsReadBack
  <2> SUFFICES ASSUME TypeOK, InStep, LinesInv,
                      NEW p \in Apps, Saving(p), sound[p], Ordinary(p)
               PROVE  LET back == Parsed(<<>>, m_parfile[p])
                      IN  /\ Len(back) = Len(m_pars[p])
                          /\ \A i \in DOMAIN back :
                                /\ back[i].name = m_pars[p][i].name
                                /\ IsLearn(m_pars[p][i]) => back[i].value = m_pars[p][i].value
    BY DEF SavedIsReadBack
  <2> DEFINE back == Parsed(<<>>, m_parfile[p])
  <2>1. ContainerOK
    BY DEF TypeOK, ContainerOK
  <2>2. /\ m_pars[p] \in Seq(Par) /\ m_parfile[p] \in Seq(Line) /\ m_line[p] \in Seq(Int)
        /\ Len(m_line[p]) = Len(m_pars[p]) /\ DOMAIN m_pars[p] = 1..Len(m_pars[p])
        /\ \A i \in 1..Len(m_pars[p]) : m_pars[p][i] \in Par
    BY <2>1, Vectors
  <2>3. /\ Belong(m_pars[p], m_parfile[p], m_line[p])
        /\ Explained(m_pars[p], m_parfile[p], m_line[p], m_vstop[p])
        /\ Learned(m_pars[p], m_parfile[p], m_line[p])
    BY DEF LinesInv, Consistent, Saving
  <2>4. ASSUME NEW i \in 1..Len(m_pars[p])
        PROVE  Parses(m_parfile[p][m_line[p][i]])
    <3>1. IsLearn(m_pars[p][i]) => Updates(m_pars[p][i])
      BY <2>2 DEF Updates, Par
    <3>2. m_parfile[p][m_line[p][i]].intact
      BY <2>2, <2>3, <3>1 DEF Explained, Ordinary
    <3> QED BY <2>2, <3>2 DEF Ordinary, Parses
  <2>5. /\ back \in Seq(Par) /\ Len(back) = Len(m_pars[p])
        /\ \A i \in 1..Len(m_pars[p]) :
              /\ back[i].name = m_pars[p][i].name
              /\ IsLearn(m_pars[p][i]) => back[i].value = m_pars[p][i].value
    BY <2>2, <2>3, <2>4, ReadBack
  <2> HIDE DEF back
  <2>6. DOMAIN back = 1..Len(m_pars[p])
    BY <2>5, LenProperties
  <2> QED BY <2>5, <2>6 DEF back
<1> QED BY <1>1, TypeCorrect, LinesInvHolds, PTL
=============================================================================

------------------------ MODULE GOptimizerPars_proof ------------------------
(***************************************************************************)
(* What holds of the containers of optimizer parameters for any number of  *)
(* containers, of parameters and of addresses.                             *)
(***************************************************************************)
EXTENDS GOptimizerPars, Integers, SequenceTheorems, TLAPS

USE AddressAssumption, BoundAssumption

-----------------------------------------------------------------------------
(* Sequences                                                               *)

(* What is left of a sequence when an element is removed.                  *)
LEMMA RemovedAt ==
    ASSUME NEW S, NEW s \in Seq(S), NEW i \in 1..Len(s)
    PROVE  /\ RemoveAt(s, i) \in Seq(S)
           /\ Len(RemoveAt(s, i)) = Len(s) - 1
           /\ \A j \in 1..(Len(s) - 1) :
                RemoveAt(s, i)[j] = s[IF j < i THEN j ELSE j + 1]
<1> DEFINE L == Len(s)
           front == SubSeq(s, 1, i - 1)
           back  == SubSeq(s, i + 1, L)
<1>1. L \in Nat /\ \A j \in 1..L : s[j] \in S
  BY LenProperties, ElementOfSeq
<1>2. /\ front \in Seq(S) /\ Len(front) = i - 1
      /\ \A j \in 1..(i - 1) : front[j] = s[j]
  <2>1. \A j \in 1..(i - 1) : s[j] \in S
    BY <1>1
  <2>2. /\ front \in Seq(S)
        /\ Len(front) = IF 1 <= i - 1 THEN i - 1 - 1 + 1 ELSE 0
        /\ \A j \in 1..(i - 1 - 1 + 1) : front[j] = s[1 + j - 1]
    BY <2>1, SubSeqProperties
  <2> QED BY <1>1, <2>2
<1>3. /\ back \in Seq(S) /\ Len(back) = L - i
      /\ \A j \in 1..(L - i) : back[j] = s[i + j]
  <2>1. \A j \in (i + 1)..L : s[j] \in S
    BY <1>1
  <2>2. /\ back \in Seq(S)
        /\ Len(back) = IF i + 1 <= L THEN L - (i + 1) + 1 ELSE 0
        /\ \A j \in 1..(L - (i + 1) + 1) : back[j] = s[(i + 1) + j - 1]
    BY <1>1, <2>1, SubSeqProperties
  <2> QED BY <1>1, <2>2
<1>4. RemoveAt(s, i) = front \o back
  BY DEF RemoveAt
<1> HIDE DEF front, back
<1>5. /\ front \o back \in Seq(S)
      /\ Len(front \o back) = Len(front) + Len(back)
      /\ \A j \in 1..(Len(front) + Len(back)) : (front \o back)[j] =
            IF j <= Len(front) THEN front[j] ELSE back[j - Len(front)]
  BY <1>2, <1>3, ConcatProperties
<1> QED BY <1>1, <1>2, <1>3, <1>4, <1>5

(* What becomes of a sequence when an element is inserted.                 *)
LEMMA InsertedAt ==
    ASSUME NEW S, NEW s \in Seq(S), NEW i \in 1..(Len(s) + 1), NEW e \in S
    PROVE  /\ InsertAt(s, i, e) \in Seq(S)
           /\ Len(InsertAt(s, i, e)) = Len(s) + 1
           /\ InsertAt(s, i, e)[i] = e
           /\ \A j \in 1..(i - 1) : InsertAt(s, i, e)[j] = s[j]
           /\ \A j \in (i + 1)..(Len(s) + 1) : InsertAt(s, i, e)[j] = s[j - 1]
<1> DEFINE L == Len(s)
           front == SubSeq(s, 1, i - 1)
           back  == SubSeq(s, i, L)
           one   == <<e>>
           begin == front \o one
<1>1. L \in Nat /\ \A j \in 1..L : s[j] \in S
  BY LenProperties, ElementOfSeq
<1>2. /\ front \in Seq(S) /\ Len(front) = i - 1
      /\ \A j \in 1..(i - 1) : front[j] = s[j]
  <2>1. \A j \in 1..(i - 1) : s[j] \in S
    BY <1>1
  <2>2. /\ front \in Seq(S)
        /\ Len(front) = IF 1 <= i - 1 THEN i - 1 - 1 + 1 ELSE 0
        /\ \A j \in 1..(i - 1 - 1 + 1) : front[j] = s[1 + j - 1]
    BY <2>1, SubSeqProperties
  <2> QED BY <1>1, <2>2
<1>3. /\ back \in Seq(S) /\ Len(back) = L - i + 1
      /\ \A j \in 1..(L - i + 1) : back[j] = s[i + j - 1]
  <2>1. \A j \in i..L : s[j] \in S
    BY <1>1
  <2>2. /\ back \in Seq(S)
        /\ Len(back) = IF i <= L THEN L - i + 1 ELSE 0
        /\ \A j \in 1..(L - i + 1) : back[j] = s[i + j - 1]
    BY <1>1, <2>1, SubSeqProperties
  <2> QED BY <1>1, <2>2
<1>4. InsertAt(s, i, e) = begin \o back
  BY DEF InsertAt
<1>5. /\ begin \in Seq(S) /\ Len(begin) = i
      /\ \A j \in 1..i : begin[j] = IF j < i THEN s[j] ELSE e
  <2>1. one \in Seq(S) /\ Len(one) = 1 /\ one[1] = e
    OBVIOUS
  <2> HIDE DEF front, one
  <2>2. /\ front \o one \in Seq(S)
        /\ Len(front \o one) = Len(front) + Len(one)
        /\ \A j \in 1..(Len(front) + Len(one)) : (front \o one)[j] =
              IF j <= Len(front) THEN front[j] ELSE one[j - Len(front)]
    BY <1>2, <2>1, ConcatProperties
  <2> QED BY <1>2, <2>1, <2>2
<1> HIDE DEF begin, back
<1>6. /\ begin \o back \in Seq(S)
      /\ Len(begin \o back) = Len(begin) + Len(back)
      /\ \A j \in 1..(Len(begin) + Len(back)) : (begin \o back)[j] =
            IF j <= Len(begin) THEN begin[j] ELSE back[j - Len(begin)]
  BY <1>3, <1>5, ConcatProperties
<1> QED BY <1>1, <1>3, <1>4, <1>5, <1>6

-----------------------------------------------------------------------------
(* Types                                                                   *)

LEMMA FreshIsHeap ==
    ASSUME NEW slots, NEW deleted, NEW new \in Fresh(slots, deleted)
    PROVE  /\ new \in [slots -> Heap] /\ Range(new) \subseteq Heap
           /\ Range(new) \cap (alive \ deleted) = {}
           /\ \A i, j \in slots : new[i] = new[j] => i = j
BY DEF Fresh, Range, IsInjective

LEMMA SetFlagKeepsLength ==
    ASSUME TypeOK, NEW k \in Containers, NEW i \in Nat, NEW flag \in BOOLEAN
    PROVE  /\ SetFlag(k, i, flag) \in Seq(BOOLEAN)
           /\ Len(SetFlag(k, i, flag)) = Len(m_alloc[k])
<1>1. m_alloc[k] \in Seq(BOOLEAN)
  BY DEF TypeOK
<1>2. CASE i \in 1..Len(m_alloc[k])
  BY <1>1, <1>2, ExceptSeq DEF SetFlag
<1>3. CASE ~ (i \in 1..Len(m_alloc[k]))
  BY <1>1, <1>3 DEF SetFlag
<1> QED BY <1>2, <1>3

(* A step that gives one container other vectors keeps the types.          *)
LEMMA ReplaceKeepsTypes ==
    ASSUME TypeOK, NEW k \in Containers,
           NEW pars \in Seq(Pointers), NEW alloc \in Seq(BOOLEAN),
           Replace(k, pars, alloc),
           alive' \subseteq Heap \cup ClientPars,
           sound' \in BOOLEAN,
           sound' => sound /\ Len(alloc) = Len(pars)
    PROVE  TypeOK'
<1>1. m_pars' \in [Containers -> Seq(Pointers)] /\ m_alloc' \in [Containers -> Seq(BOOLEAN)]
  BY DEF TypeOK, Replace
<1>2. ASSUME sound', NEW l \in Containers
      PROVE  Len(m_alloc'[l]) = Len(m_pars'[l])
  <2>1. CASE l = k
    BY <1>2, <2>1 DEF TypeOK, Replace
  <2>2. CASE l # k
    BY <1>2, <2>2 DEF TypeOK, Replace
  <2> QED BY <2>1, <2>2
<1> QED BY <1>1, <1>2 DEF TypeOK

LEMMA NextKeepsTypes == TypeOK /\ [Next]_vars => TypeOK'
<1> SUFFICES ASSUME TypeOK, [Next]_vars
             PROVE  TypeOK'
  OBVIOUS
<1>1. ASSUME NEW k \in Containers
      PROVE  /\ m_pars[k] \in Seq(Pointers) /\ m_alloc[k] \in Seq(BOOLEAN)
             /\ Len(m_pars[k]) \in Nat /\ Len(m_alloc[k]) \in Nat
             /\ sound => Len(m_alloc[k]) = Len(m_pars[k])
             /\ sound \in BOOLEAN
  BY LenProperties DEF TypeOK
<1>2. <<>> \in Seq(Pointers) /\ <<>> \in Seq(BOOLEAN) /\ Len(<<>>) = 0
  OBVIOUS
<1>3. Range(<<>>) = {}
  BY DEF Range
<1>4. ASSUME NEW k \in Containers, Clear(k)
      PROVE  TypeOK'
  <2>1. alive' \subseteq Heap \cup ClientPars
    BY <1>3, <1>4 DEF Clear, Freeing, TypeOK
  <2> QED BY <1>1, <1>2, <1>4, <2>1, ReplaceKeepsTypes DEF Clear
<1>5. ASSUME NEW k \in Containers, NEW number \in Nat, Construct(k, number)
      PROVE  TypeOK'
  <2>0. PICK deleted \in Deleted(k) : \E new \in Fresh(1..number, deleted) :
            /\ Freeing(deleted, new)
            /\ Replace(k, new, [i \in 1..number |-> TRUE])
    BY <1>5 DEF Construct
  <2>1. PICK new \in Fresh(1..number, deleted) :
            /\ Freeing(deleted, new)
            /\ Replace(k, new, [i \in 1..number |-> TRUE])
    BY <2>0
  <2> DEFINE alloc == [i \in 1..number |-> TRUE]
  <2>2. new \in [1..number -> Heap] /\ Range(new) \subseteq Heap
    BY FreshIsHeap
  <2>3. new \in Seq(Pointers) /\ Len(new) = number
    BY <2>2 DEF Pointers
  <2>4. alloc \in Seq(BOOLEAN) /\ Len(alloc) = number
    OBVIOUS
  <2>5. alive' \subseteq Heap \cup ClientPars
    BY <2>1, <2>2 DEF Freeing, TypeOK
  <2> HIDE DEF alloc
  <2> QED BY <1>1, <1>5, <2>1, <2>3, <2>4, <2>5, ReplaceKeepsTypes DEF Construct, alloc
<1>6. ASSUME NEW k \in Containers, NEW pars \in Containers, Copy(k, pars)
      PROVE  TypeOK'
  <2>1. alive' \subseteq Heap \cup ClientPars
    BY <1>3, <1>6 DEF Copy, Freeing, TypeOK
  <2>2. sound' \in BOOLEAN /\ (sound' => sound /\ m_alloc[pars] = <<>>)
    BY <1>1, <1>6 DEF Copy
  <2> QED BY <1>1, <1>2, <1>6, <2>1, <2>2, ReplaceKeepsTypes DEF Copy
<1>7. ASSUME NEW k \in Containers, NEW i \in Nat, Set(k, i)
      PROVE  TypeOK'
  <2>0. PICK deleted \in DeletedAt(k, i) : \E new \in Fresh({i}, deleted) :
            /\ Freeing(deleted, new)
            /\ Replace(k, [m_pars[k] EXCEPT ![i] = new[i]], SetFlag(k, i, TRUE))
    BY <1>7 DEF Set
  <2>1. PICK new \in Fresh({i}, deleted) :
            /\ Freeing(deleted, new)
            /\ Replace(k, [m_pars[k] EXCEPT ![i] = new[i]], SetFlag(k, i, TRUE))
    BY <2>0
  <2>2. new \in [{i} -> Heap] /\ Range(new) \subseteq Heap
    BY FreshIsHeap
  <2>3. new[i] \in Pointers /\ i \in 1..Len(m_pars[k])
    BY <1>1, <1>7, <2>2 DEF Pointers, Set
  <2> DEFINE pars == [m_pars[k] EXCEPT ![i] = new[i]]
  <2>4. pars \in Seq(Pointers) /\ Len(pars) = Len(m_pars[k])
    BY <1>1, <2>3, ExceptSeq
  <2>5. alive' \subseteq Heap \cup ClientPars
    BY <2>1, <2>2 DEF Freeing, TypeOK
  <2> HIDE DEF pars
  <2> QED BY <1>1, <1>7, <2>1, <2>4, <2>5, SetFlagKeepsLength, ReplaceKeepsTypes DEF Set, pars
<1>8. ASSUME NEW k \in Containers, NEW par \in Pointers, Attach(k, par)
      PROVE  TypeOK'
  <2>1. /\ Append(m_pars[k], par) \in Seq(Pointers)
        /\ Len(Append(m_pars[k], par)) = Len(m_pars[k]) + 1
        /\ Append(m_alloc[k], FALSE) \in Seq(BOOLEAN)
        /\ Len(Append(m_alloc[k], FALSE)) = Len(m_alloc[k]) + 1
    BY <1>1, AppendProperties
  <2>2. alive' \subseteq Heap \cup ClientPars
    BY <1>8 DEF Attach, TypeOK
  <2> QED BY <1>1, <1>8, <2>1, <2>2, ReplaceKeepsTypes DEF Attach
<1>9. ASSUME NEW k \in Containers, NEW i \in Nat, NEW par \in Pointers, AttachAt(k, i, par)
      PROVE  TypeOK'
  <2>1. i \in 1..Len(m_pars[k])
    BY <1>1, <1>9 DEF AttachAt
  <2> DEFINE pars == [m_pars[k] EXCEPT ![i] = par]
  <2>2. pars \in Seq(Pointers) /\ Len(pars) = Len(m_pars[k])
    BY <1>1, <2>1, ExceptSeq
  <2>3. alive' \subseteq Heap \cup ClientPars
    BY <1>3, <1>9 DEF AttachAt, Freeing, TypeOK
  <2> HIDE DEF pars
  <2> QED BY <1>1, <1>9, <2>2, <2>3, SetFlagKeepsLength, ReplaceKeepsTypes DEF AttachAt, pars
<1>10. ASSUME NEW k \in Containers, NEW i \in Nat, Insert(k, i)
       PROVE  TypeOK'
  <2>1. PICK new \in Fresh({i}, {}) :
            /\ Freeing({}, new)
            /\ Replace(k, InsertAt(m_pars[k], i, new[i]), InsertAt(m_alloc[k], i, TRUE))
    BY <1>10 DEF Insert
  <2>2. new \in [{i} -> Heap] /\ Range(new) \subseteq Heap
    BY FreshIsHeap
  <2>3. /\ new[i] \in Pointers /\ i \in 1..(Len(m_pars[k]) + 1)
        /\ i \in 1..(Len(m_alloc[k]) + 1)
    BY <1>1, <1>10, <2>2 DEF Pointers, Insert
  <2>4. /\ InsertAt(m_pars[k], i, new[i]) \in Seq(Pointers)
        /\ Len(InsertAt(m_pars[k], i, new[i])) = Len(m_pars[k]) + 1
    BY <1>1, <2>3, InsertedAt
  <2>4a. /\ InsertAt(m_alloc[k], i, TRUE) \in Seq(BOOLEAN)
         /\ Len(InsertAt(m_alloc[k], i, TRUE)) = Len(m_alloc[k]) + 1
    <3> DEFINE flag == TRUE
    <3>1. flag \in BOOLEAN
      OBVIOUS
    <3> HIDE DEF flag
    <3>2. /\ InsertAt(m_alloc[k], i, flag) \in Seq(BOOLEAN)
          /\ Len(InsertAt(m_alloc[k], i, flag)) = Len(m_alloc[k]) + 1
      BY <1>1, <2>3, <3>1, InsertedAt
    <3> QED BY <3>2 DEF flag
  <2>5. alive' \subseteq Heap \cup ClientPars
    BY <2>1, <2>2 DEF Freeing, TypeOK
  <2> QED BY <1>1, <1>10, <2>1, <2>4, <2>4a, <2>5, ReplaceKeepsTypes DEF Insert
<1>11. ASSUME NEW k \in Containers, NEW i \in Nat, RemovePar(k, i)
       PROVE  TypeOK'
  <2>1. i \in 1..Len(m_pars[k]) /\ i \in 1..Len(m_alloc[k])
    BY <1>1, <1>11 DEF RemovePar
  <2>2. /\ RemoveAt(m_pars[k], i) \in Seq(Pointers)
        /\ Len(RemoveAt(m_pars[k], i)) = Len(m_pars[k]) - 1
        /\ RemoveAt(m_alloc[k], i) \in Seq(BOOLEAN)
        /\ Len(RemoveAt(m_alloc[k], i)) = Len(m_alloc[k]) - 1
    BY <1>1, <2>1, RemovedAt
  <2>3. alive' \subseteq Heap \cup ClientPars
    BY <1>3, <1>11 DEF RemovePar, Freeing, TypeOK
  <2> QED BY <1>1, <1>11, <2>2, <2>3, ReplaceKeepsTypes DEF RemovePar
<1>12. ASSUME NEW k \in Containers, NEW pars \in Containers, Extend(k, pars)
       PROVE  TypeOK'
  <2> DEFINE num == Len(m_pars[pars])
  <2>0. PICK cloned \in SUBSET (1..num) : \E new \in Fresh(cloned, {}) :
            /\ Freeing({}, new)
            /\ Replace(k, m_pars[k] \o
                          [i \in 1..num |-> IF i \in cloned THEN new[i]
                                            ELSE m_pars[pars][i]],
                       m_alloc[k])
    BY <1>12 DEF Extend
  <2>1. PICK new \in Fresh(cloned, {}) :
            /\ Freeing({}, new)
            /\ Replace(k, m_pars[k] \o
                          [i \in 1..num |-> IF i \in cloned THEN new[i]
                                            ELSE m_pars[pars][i]],
                       m_alloc[k])
    BY <2>0
  <2> DEFINE more == [i \in 1..num |-> IF i \in cloned THEN new[i] ELSE m_pars[pars][i]]
  <2>2. new \in [cloned -> Heap] /\ Range(new) \subseteq Heap
    BY FreshIsHeap
  <2>3. \A i \in 1..num : m_pars[pars][i] \in Pointers
    BY <1>1, ElementOfSeq
  <2>4. more \in [1..num -> Pointers] /\ num \in Nat
    BY <1>1, <2>2, <2>3 DEF Pointers
  <2>5. m_pars[k] \o more \in Seq(Pointers)
    <3> HIDE DEF more, num
    <3>1. more \in Seq(Pointers)
      BY <2>4
    <3> QED BY <1>1, <3>1, ConcatProperties
  <2>6. alive' \subseteq Heap \cup ClientPars
    BY <2>1, <2>2 DEF Freeing, TypeOK
  <2>7. sound' = FALSE
    BY <1>12 DEF Extend
  <2> HIDE DEF more
  <2> QED BY <1>1, <2>1, <2>5, <2>6, <2>7, ReplaceKeepsTypes DEF more
<1>13. CASE UNCHANGED vars
  BY <1>13 DEF vars, TypeOK
<1> QED BY <1>4, <1>5, <1>6, <1>7, <1>8, <1>9, <1>10, <1>11, <1>12, <1>13 DEF Next

(* The vectors keep their types, and m_pars and m_alloc stay parallel as   *)
(* long as only empty containers are copied and appended.                  *)
THEOREM Types == Spec => []TypeOK
<1>1. Init => TypeOK
  BY DEF Init, TypeOK, Pointers
<1> QED BY <1>1, NextKeepsTypes, PTL DEF Spec

-----------------------------------------------------------------------------
(* What a container owns                                                   *)

Places(p, a)   == {i \in DOMAIN p : i \in DOMAIN a /\ a[i]}
Contents(p, a) == {p[i] : i \in Places(p, a)}
Once(p, a)     == \A i, j \in Places(p, a) : p[i] = p[j] => i = j

(* The pointer that is deleted when place i is given up.                   *)
Given(p, a, i) == IF i \in Places(p, a) THEN {p[i]} ELSE {}

(* Another pointer and flag at one place.                                  *)
LEMMA ContentsOfSet ==
    ASSUME NEW p, NEW a, NEW q, NEW b, NEW D, NEW i \in D,
           DOMAIN p = D, DOMAIN q = D,
           Places(q, b) \ {i} = Places(p, a) \ {i},
           \A j \in D \ {i} : q[j] = p[j],
           Once(p, a),
           i \in Places(q, b) => q[i] \notin Contents(p, a) \ Given(p, a, i)
    PROVE  /\ Once(q, b)
           /\ Contents(q, b) = (Contents(p, a) \ Given(p, a, i))
                               \cup (IF i \in Places(q, b) THEN {q[i]} ELSE {})
<1>1. Places(p, a) \subseteq D /\ Places(q, b) \subseteq D
  BY DEF Places
<1>2. Once(q, b)
  BY <1>1 DEF Once, Contents, Given
<1> QED BY <1>1, <1>2 DEF Once, Contents, Given

(* A pointer that the container does not own at the end.                   *)
LEMMA ContentsOfAppend ==
    ASSUME NEW p \in Seq(Pointers), NEW a \in Seq(BOOLEAN), Len(p) = Len(a),
           Once(p, a), NEW x \in Pointers
    PROVE  /\ Once(Append(p, x), Append(a, FALSE))
           /\ Contents(Append(p, x), Append(a, FALSE)) = Contents(p, a)
<1> DEFINE q == Append(p, x)
           b == Append(a, FALSE)
<1>1. DOMAIN q = 1..(Len(p) + 1) /\ DOMAIN p = 1..Len(p) /\ \A j \in 1..Len(p) : q[j] = p[j]
  OBVIOUS
<1>2. /\ DOMAIN b = 1..(Len(p) + 1) /\ DOMAIN a = 1..Len(p)
      /\ \A j \in 1..Len(p) : b[j] = a[j]
      /\ b[Len(p) + 1] = FALSE
  OBVIOUS
<1>3. Len(p) \in Nat
  OBVIOUS
<1> HIDE DEF q, b
<1>4. Places(q, b) = Places(p, a)
  <2>1. ASSUME NEW j \in 1..(Len(p) + 1)
        PROVE  b[j] <=> j \in Places(p, a)
    BY <1>1, <1>2, <1>3 DEF Places
  <2> QED BY <1>1, <1>2, <1>3, <2>1 DEF Places
<1>5. Places(p, a) \subseteq 1..Len(p)
  BY <1>1 DEF Places
<1> QED BY <1>1, <1>4, <1>5 DEF Once, Contents, q, b

(* Another pointer that the container owns before a place.                 *)
Flagging(a, i) == InsertAt(a, i, TRUE)

LEMMA FlagsOfInsert ==
    ASSUME NEW a, a \in Seq(BOOLEAN), NEW i, i \in 1..(Len(a) + 1)
    PROVE  /\ DOMAIN Flagging(a, i) = 1..(Len(a) + 1) /\ Flagging(a, i)[i]
           /\ \A j \in 1..(i - 1) : Flagging(a, i)[j] <=> a[j]
           /\ \A j \in (i + 1)..(Len(a) + 1) : Flagging(a, i)[j] <=> a[j - 1]
<1> DEFINE B == BOOLEAN
           flag == TRUE
           b == InsertAt(a, i, flag)
<1>1. a \in Seq(B) /\ flag \in B
  OBVIOUS
<1>2. b = Flagging(a, i)
  BY DEF Flagging
<1> HIDE DEF B, flag
<1>3. b \in Seq(B) /\ Len(b) = Len(a) + 1 /\ b[i] = flag
  BY ONLY <1>1, i \in 1..(Len(a) + 1), InsertedAt
<1>4. \A j \in 1..(i - 1) : b[j] = a[j]
  BY ONLY <1>1, i \in 1..(Len(a) + 1), InsertedAt
<1>5. \A j \in (i + 1)..(Len(a) + 1) : b[j] = a[j - 1]
  BY ONLY <1>1, i \in 1..(Len(a) + 1), InsertedAt
<1> HIDE DEF b
<1>6. DOMAIN b = 1..(Len(a) + 1)
  BY <1>3
<1>7. b[i]
  BY <1>3 DEF flag
<1> QED BY <1>2, <1>4, <1>5, <1>6, <1>7

LEMMA ContentsOfInsert ==
    ASSUME NEW p, NEW a, NEW i, NEW x,
           p \in Seq(Pointers), a \in Seq(BOOLEAN), Len(p) = Len(a),
           i \in 1..Len(p), x \in Pointers, Once(p, a), x \notin Contents(p, a)
    PROVE  /\ Once(InsertAt(p, i, x), Flagging(a, i))
           /\ Contents(InsertAt(p, i, x), Flagging(a, i)) = Contents(p, a) \cup {x}
<1> DEFINE n == Len(p)
           q == InsertAt(p, i, x)
           b == Flagging(a, i)
           From(j) == IF j < i THEN j ELSE j - 1
<1>1. n \in Nat /\ i \in 1..n /\ i \in 1..(Len(p) + 1) /\ i \in 1..(Len(a) + 1)
  BY LenProperties
<1>2. /\ DOMAIN b = 1..(n + 1) /\ b[i]
      /\ \A j \in 1..(i - 1) : b[j] <=> a[j]
      /\ \A j \in (i + 1)..(n + 1) : b[j] <=> a[j - 1]
  <2> HIDE DEF b
  <2> QED BY <1>1, FlagsOfInsert DEF b
<1>3. q \in Seq(Pointers) /\ Len(q) = Len(p) + 1 /\ q[i] = x
  BY ONLY p \in Seq(Pointers), x \in Pointers, <1>1, InsertedAt
<1>4. \A j \in 1..(i - 1) : q[j] = p[j]
  BY ONLY p \in Seq(Pointers), x \in Pointers, <1>1, InsertedAt
<1>5. \A j \in (i + 1)..(Len(p) + 1) : q[j] = p[j - 1]
  BY ONLY p \in Seq(Pointers), x \in Pointers, <1>1, InsertedAt
<1> HIDE DEF q, b
<1>6. DOMAIN p = 1..n /\ DOMAIN a = 1..n /\ DOMAIN q = 1..(n + 1)
  BY <1>3
<1>7. \A j \in (i + 1)..(n + 1) : q[j] = p[j - 1]
  BY <1>5
<1> HIDE DEF n
<1>8. ASSUME NEW j \in 1..(n + 1), j # i
      PROVE  /\ From(j) \in 1..n /\ q[j] = p[From(j)]
             /\ j \in Places(q, b) <=> From(j) \in Places(p, a)
  <2>1. CASE j < i
    <3>1. j \in 1..(i - 1) /\ j \in 1..n /\ From(j) = j
      BY <1>1, <2>1
    <3> QED BY <1>2, <1>4, <1>6, <3>1 DEF Places
  <2>2. CASE j > i
    <3>1. j \in (i + 1)..(n + 1) /\ j - 1 \in 1..n /\ From(j) = j - 1
      BY <1>1, <2>2
    <3> QED BY <1>2, <1>6, <1>7, <3>1 DEF Places
  <2> QED BY <1>1, <1>8, <2>1, <2>2
<1>9. ASSUME NEW j \in 1..(n + 1), NEW l \in 1..(n + 1), j # i, l # i,
             From(j) = From(l)
      PROVE  j = l
  BY <1>1, <1>9
<1>10. ASSUME NEW m \in 1..n
       PROVE  \E j \in 1..(n + 1) : j # i /\ From(j) = m
  <2>1. CASE m < i
    BY <1>1, <2>1
  <2>2. CASE ~ (m < i)
    <3>1. m + 1 \in 1..(n + 1) /\ m + 1 # i /\ From(m + 1) = m
      BY <1>1, <2>2
    <3> QED BY <3>1
  <2> QED BY <2>1, <2>2
<1> HIDE DEF From
<1>11. /\ Places(q, b) \subseteq 1..(n + 1) /\ Places(p, a) \subseteq 1..n
       /\ i \in Places(q, b)
  BY <1>1, <1>2, <1>6 DEF Places
<1>12. ASSUME NEW j \in Places(q, b), j # i
       PROVE  q[j] \in Contents(p, a)
  BY <1>8, <1>11, <1>12 DEF Contents
<1>13. Once(q, b)
  <2> SUFFICES ASSUME NEW j \in Places(q, b), NEW l \in Places(q, b), q[j] = q[l]
               PROVE  j = l
    BY DEF Once
  <2>1. CASE j = i \/ l = i
    BY <1>3, <1>12, <2>1
  <2>2. CASE j # i /\ l # i
    <3>1. /\ From(j) \in Places(p, a) /\ From(l) \in Places(p, a)
          /\ p[From(j)] = p[From(l)]
      BY <1>8, <1>11, <2>2
    <3>2. From(j) = From(l)
      BY <3>1 DEF Once
    <3> QED BY <1>9, <1>11, <2>2, <3>2
  <2> QED BY <2>1, <2>2
<1>14. Contents(q, b) \subseteq Contents(p, a) \cup {x}
  BY <1>3, <1>12 DEF Contents
<1>15. Contents(p, a) \cup {x} \subseteq Contents(q, b)
  <2>1. x \in Contents(q, b)
    BY <1>3, <1>11 DEF Contents
  <2>2. ASSUME NEW m \in Places(p, a)
        PROVE  p[m] \in Contents(q, b)
    <3>1. PICK j \in 1..(n + 1) : j # i /\ From(j) = m
      BY <1>10, <1>11
    <3> QED BY <1>8, <3>1 DEF Contents
  <2> QED BY <2>1, <2>2 DEF Contents
<1> QED BY <1>13, <1>14, <1>15 DEF q, b

(* A place less.                                                           *)
LEMMA ContentsOfRemove ==
    ASSUME NEW p \in Seq(Pointers), NEW a \in Seq(BOOLEAN), Len(p) = Len(a),
           Once(p, a), NEW i \in 1..Len(p)
    PROVE  /\ Once(RemoveAt(p, i), RemoveAt(a, i))
           /\ Contents(RemoveAt(p, i), RemoveAt(a, i)) = Contents(p, a) \ Given(p, a, i)
<1> DEFINE q == RemoveAt(p, i)
           b == RemoveAt(a, i)
           From(j) == IF j < i THEN j ELSE j + 1
<1>1. Len(p) \in Nat /\ i \in 1..Len(a)
  OBVIOUS
<1>2. /\ q \in Seq(Pointers) /\ Len(q) = Len(p) - 1
      /\ \A j \in 1..(Len(p) - 1) : q[j] = p[From(j)]
  BY <1>1, RemovedAt
<1>3. /\ b \in Seq(BOOLEAN) /\ Len(b) = Len(p) - 1
      /\ \A j \in 1..(Len(p) - 1) : b[j] = a[From(j)]
  BY <1>1, RemovedAt
<1> HIDE DEF q, b
<1>4. DOMAIN p = 1..Len(p) /\ DOMAIN a = 1..Len(p)
  OBVIOUS
<1>5. DOMAIN q = 1..(Len(p) - 1) /\ DOMAIN b = 1..(Len(p) - 1)
  BY <1>2, <1>3
<1>6. ASSUME NEW j \in 1..(Len(p) - 1)
      PROVE  From(j) \in 1..Len(p) /\ From(j) # i
  BY <1>1
<1>7. ASSUME NEW j \in 1..(Len(p) - 1), NEW l \in 1..(Len(p) - 1), From(j) = From(l)
      PROVE  j = l
  BY <1>1, <1>7
<1>8. ASSUME NEW m \in 1..Len(p), m # i
      PROVE  \E j \in 1..(Len(p) - 1) : From(j) = m
  <2>1. CASE m < i
    BY <1>1, <2>1
  <2>2. CASE ~ (m < i)
    <3>1. m - 1 \in 1..(Len(p) - 1) /\ From(m - 1) = m
      BY <1>1, <1>8, <2>2
    <3> QED BY <3>1
  <2> QED BY <2>1, <2>2
<1> HIDE DEF From
<1>9. \A j \in 1..(Len(p) - 1) : j \in Places(q, b) <=> From(j) \in Places(p, a)
  BY <1>3, <1>4, <1>5, <1>6 DEF Places
<1>10. Places(q, b) \subseteq 1..(Len(p) - 1) /\ Places(p, a) \subseteq 1..Len(p)
  BY <1>4, <1>5 DEF Places
<1>11. Once(q, b)
  BY <1>2, <1>6, <1>7, <1>9, <1>10 DEF Once
<1>12. Contents(q, b) \subseteq Contents(p, a) \ Given(p, a, i)
  BY <1>2, <1>6, <1>9, <1>10 DEF Once, Contents, Given
<1>13. Contents(p, a) \ Given(p, a, i) \subseteq Contents(q, b)
  <2>1. ASSUME NEW m \in Places(p, a), p[m] \notin Given(p, a, i)
        PROVE  p[m] \in Contents(q, b)
    <3>1. m # i
      BY <2>1 DEF Given
    <3>2. PICK j \in 1..(Len(p) - 1) : From(j) = m
      BY <1>8, <1>10, <3>1
    <3> QED BY <1>2, <1>9, <3>2 DEF Contents
  <2> QED BY <2>1 DEF Contents
<1>14. Contents(q, b) = Contents(p, a) \ Given(p, a, i)
  BY <1>12, <1>13
<1> QED BY <1>11, <1>14 DEF q, b

-----------------------------------------------------------------------------
(* Deletions                                                               *)

Parallel == TypeOK /\ NothingLeaks /\ sound

LEMMA OwnedIsContents ==
    ASSUME NEW k \in Containers
    PROVE  Flagged(k) = Places(m_pars[k], m_alloc[k]) /\ Owned(k) = Contents(m_pars[k], m_alloc[k])
BY DEF Flagged, Owned, Places, Contents

LEMMA VectorsOf ==
    ASSUME Parallel, NEW k \in Containers
    PROVE  /\ m_pars[k] \in Seq(Pointers) /\ m_alloc[k] \in Seq(BOOLEAN)
           /\ Len(m_pars[k]) = Len(m_alloc[k]) /\ Len(m_pars[k]) \in Nat
           /\ DOMAIN m_pars[k] = 1..Len(m_pars[k]) /\ DOMAIN m_alloc[k] = 1..Len(m_pars[k])
           /\ Owned(k) \subseteq alive /\ Owned(k) \cap ClientPars = {}
           /\ Null \notin alive /\ alive \subseteq Pointers
<1>1. m_pars[k] \in Seq(Pointers) /\ m_alloc[k] \in Seq(BOOLEAN)
  BY DEF Parallel, TypeOK
<1>2. Len(m_pars[k]) = Len(m_alloc[k])
  BY DEF Parallel, TypeOK
<1>3. Owned(k) \subseteq alive /\ Owned(k) \cap ClientPars = {}
  BY DEF Parallel, NothingLeaks
<1>4. Null \notin alive /\ alive \subseteq Pointers
  BY DEF Parallel, TypeOK, Pointers
<1> QED BY <1>1, <1>2, <1>3, <1>4

(* What is deleted with one place is what the container owns in it.        *)
LEMMA DeletedIsGiven ==
    ASSUME Parallel, NEW k \in Containers, NEW i \in DOMAIN m_pars[k],
           NEW deleted \in DeletedAt(k, i)
    PROVE  deleted = Given(m_pars[k], m_alloc[k], i) /\ deleted \subseteq Owned(k)
<1>1. i \in DOMAIN m_alloc[k]
  BY VectorsOf
<1>2. PICK flag \in {m_alloc[k][i]} : deleted = IF flag THEN {m_pars[k][i]} \ {Null} ELSE {}
  BY <1>1 DEF DeletedAt, Flag
<1>3. flag = m_alloc[k][i]
  BY <1>2
<1>4. CASE m_alloc[k][i]
  <2>1. i \in Places(m_pars[k], m_alloc[k])
    BY <1>1, <1>4 DEF Places
  <2>2. m_pars[k][i] \in Owned(k)
    BY <2>1, OwnedIsContents DEF Contents
  <2>3. m_pars[k][i] # Null
    BY <2>2, VectorsOf
  <2>4. deleted = {m_pars[k][i]}
    BY <1>2, <1>3, <1>4, <2>3
  <2> QED BY <2>1, <2>2, <2>4 DEF Given
<1>5. CASE ~ m_alloc[k][i]
  <2>1. i \notin Places(m_pars[k], m_alloc[k])
    BY <1>5 DEF Places
  <2>2. deleted = {}
    BY <1>2, <1>3, <1>5
  <2> QED BY <2>1, <2>2 DEF Given
<1> QED BY <1>4, <1>5

(* What free_members() deletes is all that the container owns.             *)
LEMMA DeletedIsOwned ==
    ASSUME Parallel, NEW k \in Containers, NEW deleted \in Deleted(k)
    PROVE  deleted = Owned(k)
<1>1. PICK f \in SUBSET DOMAIN m_pars[k] :
          /\ \A i \in DOMAIN m_pars[k] : (i \in f) \in Flag(k, i)
          /\ deleted = {m_pars[k][i] : i \in f} \ {Null}
  BY DEF Deleted
<1>2. ASSUME NEW i \in DOMAIN m_pars[k]
      PROVE  i \in f <=> i \in Flagged(k)
  <2>1. i \in DOMAIN m_alloc[k]
    BY VectorsOf
  <2>2. (i \in f) \in {m_alloc[k][i]}
    BY <1>1, <2>1 DEF Flag
  <2>3. (i \in f) = m_alloc[k][i]
    BY <2>2
  <2> QED BY <2>1, <2>3 DEF Flagged
<1>3. f = Flagged(k)
  BY <1>1, <1>2 DEF Flagged
<1>4. Null \notin Owned(k)
  BY VectorsOf
<1> QED BY <1>1, <1>3, <1>4 DEF Owned

-----------------------------------------------------------------------------
(* One container deletes some of what it owns and allocates something new. *)
LEMMA Exchange ==
    ASSUME Parallel, OwnedOnce, NEW k \in Containers, NEW pars, NEW alloc,
           Replace(k, pars, alloc), NEW deleted, NEW fresh,
           deleted \subseteq Owned(k), fresh \subseteq Heap,
           fresh \cap (alive \ deleted) = {},
           alive' = (alive \ deleted) \cup fresh,
           Once(pars, alloc),
           Contents(pars, alloc) = (Owned(k) \ deleted) \cup fresh
    PROVE  OwnedOnce' /\ NothingLeaks'
<1>1. /\ m_pars'[k] = pars /\ m_alloc'[k] = alloc
      /\ \A l \in Containers \ {k} : m_pars'[l] = m_pars[l] /\ m_alloc'[l] = m_alloc[l]
  BY DEF Replace, Parallel, TypeOK
<1>2. /\ Flagged(k)' = Places(pars, alloc)
      /\ Owned(k)' = (Owned(k) \ deleted) \cup fresh
  BY <1>1 DEF Flagged, Owned, Places, Contents
<1>3. ASSUME NEW l \in Containers, l # k
      PROVE  Flagged(l)' = Flagged(l) /\ Owned(l)' = Owned(l)
  BY <1>1, <1>3 DEF Flagged, Owned
<1>4. ASSUME NEW l \in Containers, NEW m \in Containers, l # m
      PROVE  Owned(l) \cap Owned(m) = {}
  BY <1>4 DEF Parallel, OwnedOnce, Owned
<1>5. /\ \A l \in Containers : Owned(l) \subseteq alive
      /\ \A l \in Containers : Owned(l) \cap ClientPars = {}
      /\ alive \subseteq ClientPars \cup UNION {Owned(l) : l \in Containers}
      /\ ClientPars \subseteq alive
  BY DEF Parallel, NothingLeaks
<1>6. ASSUME NEW l \in Containers, NEW m \in Containers, l # m
      PROVE  Owned(l)' \cap Owned(m)' = {}
  <2>1. CASE l = k
    BY <1>2, <1>3, <1>4, <1>5, <1>6, <2>1
  <2>2. CASE m = k
    BY <1>2, <1>3, <1>4, <1>5, <1>6, <2>2
  <2>3. CASE l # k /\ m # k
    BY <1>3, <1>4, <1>6, <2>3
  <2> QED BY <2>1, <2>2, <2>3
<1>7. ASSUME NEW l \in Containers, NEW i \in Flagged(l)', NEW j \in Flagged(l)',
             m_pars'[l][i] = m_pars'[l][j]
      PROVE  i = j
  <2>1. CASE l = k
    BY <1>1, <1>2, <1>7, <2>1 DEF Once
  <2>2. CASE l # k
    BY <1>1, <1>3, <1>7, <2>2 DEF Parallel, OwnedOnce
  <2> QED BY <2>1, <2>2
<1>8. ASSUME NEW l \in Containers, NEW m \in Containers,
             NEW i \in Flagged(l)', NEW j \in Flagged(m)',
             m_pars'[l][i] = m_pars'[m][j]
      PROVE  l = m /\ i = j
  <2>1. m_pars'[l][i] \in Owned(l)' /\ m_pars'[m][j] \in Owned(m)'
    BY DEF Owned
  <2>2. l = m
    BY <1>6, <1>8, <2>1
  <2> QED BY <1>7, <1>8, <2>2
<1>9. OwnedOnce'
  BY <1>8 DEF OwnedOnce
<1>10. \A l \in Containers : Owned(l)' \cap ClientPars = {}
  BY <1>2, <1>3, <1>5
<1>11. \A l \in Containers : Owned(l)' \subseteq alive'
  <2>1. ASSUME NEW l \in Containers, l # k
        PROVE  Owned(l)' \subseteq alive'
    BY <1>3, <1>4, <1>5, <2>1
  <2> QED BY <1>2, <1>5, <2>1
<1>12. ClientPars \subseteq alive'
  BY <1>5
<1>13. ASSUME NEW x \in alive', x \notin ClientPars
       PROVE  \E l \in Containers : x \in Owned(l)'
  <2>1. CASE x \in fresh
    BY <1>2, <2>1
  <2>2. CASE x \in alive \ deleted
    <3>1. PICK l \in Containers : x \in Owned(l)
      BY <1>5, <1>13, <2>2
    <3> QED BY <1>2, <1>3, <2>2, <3>1
  <2> QED BY <1>13, <2>1, <2>2
<1>14. alive' = ClientPars \cup UNION {Owned(l)' : l \in Containers}
  BY <1>11, <1>12, <1>13
<1>15. NothingLeaks'
  BY <1>10, <1>14 DEF NothingLeaks
<1> QED BY <1>9, <1>15

(* Nothing new, in a container without places.                             *)
LEMMA EmptiedKeepsOwnership ==
    ASSUME Parallel, OwnedOnce, NEW k \in Containers, NEW alloc,
           Replace(k, <<>>, alloc), NEW deleted \in Deleted(k), Freeing(deleted, <<>>)
    PROVE  OwnedOnce' /\ NothingLeaks'
<1>1. deleted = Owned(k)
  BY DeletedIsOwned
<1>2. alive' = (alive \ deleted) \cup {}
  BY DEF Freeing, Range
<1>3. Places(<<>>, alloc) = {}
  BY DEF Places
<1>4. Once(<<>>, alloc) /\ Contents(<<>>, alloc) = (Owned(k) \ deleted) \cup {}
  BY <1>1, <1>3 DEF Once, Contents
<1> QED BY <1>1, <1>2, <1>4, Exchange

LEMMA NextKeepsOwnership ==
    TypeOK /\ OwnedOnce /\ NothingLeaks /\ [Next]_vars => OwnedOnce' /\ NothingLeaks'
<1> SUFFICES ASSUME TypeOK, OwnedOnce, NothingLeaks, [Next]_vars, sound'
             PROVE  OwnedOnce' /\ NothingLeaks'
  BY DEF OwnedOnce, NothingLeaks
<1>1. sound
  BY DEF Next, vars, Clear, Construct, Copy, Set, Attach, AttachAt, Insert, RemovePar, Extend
<1>2. Parallel
  BY <1>1 DEF Parallel
<1>3. ASSUME NEW k \in Containers
      PROVE  /\ Once(m_pars[k], m_alloc[k]) /\ Owned(k) = Contents(m_pars[k], m_alloc[k])
             /\ \A i \in DOMAIN m_pars[k] : \A flag :
                   SetFlag(k, i, flag) = [m_alloc[k] EXCEPT ![i] = flag]
  BY <1>1, <1>2, VectorsOf, OwnedIsContents DEF OwnedOnce, Once, SetFlag
<1>4. ASSUME NEW k \in Containers, Clear(k)
      PROVE  OwnedOnce' /\ NothingLeaks'
  BY <1>2, <1>4, EmptiedKeepsOwnership DEF Clear
<1>5. ASSUME NEW k \in Containers, NEW number \in Nat, Construct(k, number)
      PROVE  OwnedOnce' /\ NothingLeaks'
  <2> DEFINE alloc == [i \in 1..number |-> TRUE]
  <2>0. PICK deleted \in Deleted(k) : \E new \in Fresh(1..number, deleted) :
            Freeing(deleted, new) /\ Replace(k, new, alloc)
    BY <1>5 DEF Construct
  <2>1. PICK new \in Fresh(1..number, deleted) :
            Freeing(deleted, new) /\ Replace(k, new, alloc)
    BY <2>0
  <2>2. deleted = Owned(k)
    BY <1>2, DeletedIsOwned
  <2>3. /\ new \in [1..number -> Heap] /\ Range(new) \subseteq Heap
        /\ Range(new) \cap (alive \ deleted) = {}
        /\ \A i, j \in 1..number : new[i] = new[j] => i = j
    BY FreshIsHeap
  <2>4. Places(new, alloc) = 1..number
    BY <2>3 DEF Places
  <2>5. Once(new, alloc) /\ Contents(new, alloc) = (Owned(k) \ deleted) \cup Range(new)
    BY <2>2, <2>3, <2>4 DEF Once, Contents, Range
  <2>6. alive' = (alive \ deleted) \cup Range(new)
    BY <2>1 DEF Freeing
  <2> HIDE DEF alloc
  <2> QED BY <1>2, <2>1, <2>2, <2>3, <2>5, <2>6, Exchange
<1>6. ASSUME NEW k \in Containers, NEW pars \in Containers, Copy(k, pars)
      PROVE  OwnedOnce' /\ NothingLeaks'
  BY <1>2, <1>6, EmptiedKeepsOwnership DEF Copy
<1>7. ASSUME NEW k \in Containers, NEW i \in Nat, Set(k, i)
      PROVE  OwnedOnce' /\ NothingLeaks'
  <2>0. PICK deleted \in DeletedAt(k, i) : \E new \in Fresh({i}, deleted) :
            /\ Freeing(deleted, new)
            /\ Replace(k, [m_pars[k] EXCEPT ![i] = new[i]], SetFlag(k, i, TRUE))
    BY <1>7 DEF Set
  <2>1. PICK new \in Fresh({i}, deleted) :
            /\ Freeing(deleted, new)
            /\ Replace(k, [m_pars[k] EXCEPT ![i] = new[i]], SetFlag(k, i, TRUE))
    BY <2>0
  <2>2. /\ new \in [{i} -> Heap] /\ Range(new) \subseteq Heap
        /\ Range(new) \cap (alive \ deleted) = {}
    BY FreshIsHeap
  <2>3. Range(new) = {new[i]} /\ new[i] \in Pointers
    BY <2>2 DEF Range, Pointers
  <2>4. i \in DOMAIN m_pars[k] /\ i \in 1..Len(m_pars[k])
    BY <1>2, <1>7, VectorsOf DEF Set
  <2>5. deleted = Given(m_pars[k], m_alloc[k], i) /\ deleted \subseteq Owned(k)
    BY <1>2, <2>4, DeletedIsGiven
  <2>6. new[i] \notin Contents(m_pars[k], m_alloc[k]) \ Given(m_pars[k], m_alloc[k], i)
    BY <1>2, <1>3, <2>2, <2>3, <2>5, VectorsOf
  <2> DEFINE pars  == [m_pars[k] EXCEPT ![i] = new[i]]
             alloc == [m_alloc[k] EXCEPT ![i] = TRUE]
  <2>7. /\ Once(pars, alloc)
        /\ Contents(pars, alloc) =
              (Contents(m_pars[k], m_alloc[k]) \ Given(m_pars[k], m_alloc[k], i)) \cup {new[i]}
    <3>1. /\ DOMAIN pars = DOMAIN m_pars[k] /\ DOMAIN alloc = DOMAIN m_pars[k]
          /\ DOMAIN m_alloc[k] = DOMAIN m_pars[k] /\ Once(m_pars[k], m_alloc[k])
      BY <1>2, <1>3, VectorsOf
    <3>2. /\ \A j \in DOMAIN m_pars[k] \ {i} : pars[j] = m_pars[k][j]
          /\ Places(pars, alloc) \ {i} = Places(m_pars[k], m_alloc[k]) \ {i}
      BY <3>1 DEF Places
    <3>3. pars[i] = new[i] /\ i \in Places(pars, alloc)
      BY <2>4, <3>1 DEF Places
    <3> HIDE DEF pars, alloc
    <3>4. pars[i] \notin Contents(m_pars[k], m_alloc[k]) \ Given(m_pars[k], m_alloc[k], i)
      BY <2>6, <3>3
    <3>5. /\ Once(pars, alloc)
          /\ Contents(pars, alloc) =
                (Contents(m_pars[k], m_alloc[k]) \ Given(m_pars[k], m_alloc[k], i))
                \cup (IF i \in Places(pars, alloc) THEN {pars[i]} ELSE {})
      BY <2>4, <3>1, <3>2, <3>4, ContentsOfSet
    <3> QED BY <3>3, <3>5
  <2>8. Replace(k, pars, alloc)
    BY <1>3, <2>1, <2>4
  <2>9. alive' = (alive \ deleted) \cup Range(new)
    BY <2>1 DEF Freeing
  <2> HIDE DEF pars, alloc
  <2> QED BY <1>2, <1>3, <2>2, <2>3, <2>5, <2>7, <2>8, <2>9, Exchange
<1>8. ASSUME NEW k \in Containers, NEW par \in Pointers, Attach(k, par)
      PROVE  OwnedOnce' /\ NothingLeaks'
  <2> DEFINE pars  == Append(m_pars[k], par)
             alloc == Append(m_alloc[k], FALSE)
  <2>1. Once(pars, alloc) /\ Contents(pars, alloc) = (Owned(k) \ {}) \cup {}
    BY <1>2, <1>3, VectorsOf, ContentsOfAppend
  <2>2. Replace(k, pars, alloc) /\ alive' = (alive \ {}) \cup {}
    BY <1>8 DEF Attach
  <2> HIDE DEF pars, alloc
  <2> QED BY <1>2, <2>1, <2>2, Exchange
<1>9. ASSUME NEW k \in Containers, NEW i \in Nat, NEW par \in Pointers, AttachAt(k, i, par)
      PROVE  OwnedOnce' /\ NothingLeaks'
  <2>1. PICK deleted \in DeletedAt(k, i) : Freeing(deleted, <<>>)
    BY <1>9 DEF AttachAt
  <2>2. i \in DOMAIN m_pars[k] /\ i \in 1..Len(m_pars[k])
    BY <1>2, <1>9, VectorsOf DEF AttachAt
  <2>3. deleted = Given(m_pars[k], m_alloc[k], i) /\ deleted \subseteq Owned(k)
    BY <1>2, <2>2, DeletedIsGiven
  <2> DEFINE pars  == [m_pars[k] EXCEPT ![i] = par]
             alloc == [m_alloc[k] EXCEPT ![i] = FALSE]
  <2>4. /\ Once(pars, alloc)
        /\ Contents(pars, alloc) =
              (Contents(m_pars[k], m_alloc[k]) \ Given(m_pars[k], m_alloc[k], i)) \cup {}
    <3>1. /\ DOMAIN pars = DOMAIN m_pars[k] /\ DOMAIN alloc = DOMAIN m_pars[k]
          /\ DOMAIN m_alloc[k] = DOMAIN m_pars[k] /\ Once(m_pars[k], m_alloc[k])
      BY <1>2, <1>3, VectorsOf
    <3>2. /\ \A j \in DOMAIN m_pars[k] \ {i} : pars[j] = m_pars[k][j]
          /\ Places(pars, alloc) \ {i} = Places(m_pars[k], m_alloc[k]) \ {i}
      BY <3>1 DEF Places
    <3>3. i \notin Places(pars, alloc)
      BY <2>2, <3>1 DEF Places
    <3> HIDE DEF pars, alloc
    <3> QED BY <2>2, <3>1, <3>2, <3>3, ContentsOfSet
  <2>5. Replace(k, pars, alloc)
    BY <1>3, <1>9, <2>2 DEF AttachAt
  <2>6. alive' = (alive \ deleted) \cup {}
    BY <2>1 DEF Freeing, Range
  <2> HIDE DEF pars, alloc
  <2>7. Contents(pars, alloc) = (Owned(k) \ deleted) \cup {}
    BY <1>3, <2>3, <2>4
  <2> QED BY <1>2, <2>3, <2>4, <2>5, <2>6, <2>7, Exchange
<1>10. ASSUME NEW k \in Containers, NEW i \in Nat, Insert(k, i)
       PROVE  OwnedOnce' /\ NothingLeaks'
  <2>1. PICK new \in Fresh({i}, {}) :
            /\ Freeing({}, new)
            /\ Replace(k, InsertAt(m_pars[k], i, new[i]), InsertAt(m_alloc[k], i, TRUE))
    BY <1>10 DEF Insert
  <2>2. /\ new \in [{i} -> Heap] /\ Range(new) \subseteq Heap
        /\ Range(new) \cap (alive \ {}) = {}
    BY FreshIsHeap
  <2>3. Range(new) = {new[i]} /\ new[i] \in Pointers
    BY <2>2 DEF Range, Pointers
  <2>4. i \in 1..Len(m_pars[k])
    BY <1>2, <1>10, VectorsOf DEF Insert
  <2>5. new[i] \notin Contents(m_pars[k], m_alloc[k])
    BY <1>2, <1>3, <2>2, <2>3, VectorsOf
  <2> DEFINE pars  == InsertAt(m_pars[k], i, new[i])
             alloc == InsertAt(m_alloc[k], i, TRUE)
  <2>6. /\ Once(pars, alloc)
        /\ Contents(pars, alloc) = Contents(m_pars[k], m_alloc[k]) \cup {new[i]}
    <3>1. /\ m_pars[k] \in Seq(Pointers) /\ m_alloc[k] \in Seq(BOOLEAN)
          /\ Len(m_pars[k]) = Len(m_alloc[k]) /\ Once(m_pars[k], m_alloc[k])
      BY <1>2, <1>3, VectorsOf
    <3>2. alloc = Flagging(m_alloc[k], i)
      BY DEF Flagging
    <3> HIDE DEF alloc
    <3> QED BY <2>3, <2>4, <2>5, <3>1, <3>2, ContentsOfInsert
  <2>7. Replace(k, pars, alloc) /\ alive' = (alive \ {}) \cup Range(new)
    BY <2>1 DEF Freeing
  <2> HIDE DEF pars, alloc
  <2>8. Contents(pars, alloc) = (Owned(k) \ {}) \cup Range(new)
    BY <1>3, <2>3, <2>6
  <2> QED BY <1>2, <2>2, <2>6, <2>7, <2>8, Exchange
<1>11. ASSUME NEW k \in Containers, NEW i \in Nat, RemovePar(k, i)
       PROVE  OwnedOnce' /\ NothingLeaks'
  <2>1. PICK deleted \in DeletedAt(k, i) : Freeing(deleted, <<>>)
    BY <1>11 DEF RemovePar
  <2>2. i \in DOMAIN m_pars[k] /\ i \in 1..Len(m_pars[k])
    BY <1>2, <1>11, VectorsOf DEF RemovePar
  <2>3. deleted = Given(m_pars[k], m_alloc[k], i) /\ deleted \subseteq Owned(k)
    BY <1>2, <2>2, DeletedIsGiven
  <2> DEFINE pars  == RemoveAt(m_pars[k], i)
             alloc == RemoveAt(m_alloc[k], i)
  <2>4. /\ Once(pars, alloc)
        /\ Contents(pars, alloc) =
              Contents(m_pars[k], m_alloc[k]) \ Given(m_pars[k], m_alloc[k], i)
    BY <1>2, <1>3, <2>2, VectorsOf, ContentsOfRemove
  <2>5. Replace(k, pars, alloc)
    BY <1>11 DEF RemovePar
  <2>6. alive' = (alive \ deleted) \cup {}
    BY <2>1 DEF Freeing, Range
  <2> HIDE DEF pars, alloc
  <2>7. Contents(pars, alloc) = (Owned(k) \ deleted) \cup {}
    BY <1>3, <2>3, <2>4
  <2> QED BY <1>2, <2>3, <2>4, <2>5, <2>6, <2>7, Exchange
<1>12. ASSUME NEW k \in Containers, NEW pars \in Containers
       PROVE  ~ Extend(k, pars)
  BY DEF Extend
<1>13. CASE UNCHANGED vars
  BY <1>13 DEF vars, OwnedOnce, NothingLeaks, Flagged, Owned
<1> QED BY <1>4, <1>5, <1>6, <1>7, <1>8, <1>9, <1>10, <1>11, <1>12, <1>13 DEF Next

LEMMA Inductive == Spec => [](TypeOK /\ OwnedOnce /\ NothingLeaks)
<1>1. Init => TypeOK /\ OwnedOnce /\ NothingLeaks
  BY DEF Init, TypeOK, OwnedOnce, NothingLeaks, Flagged, Owned
<1> QED BY <1>1, NextKeepsTypes, NextKeepsOwnership, PTL DEF Spec

(* As long as only empty containers are copied and appended, no parameter  *)
(* is flagged in two places, of one container or of two: none is deleted   *)
(* twice, whatever pointers are handed from one container to another.      *)
THEOREM NothingDeletedTwice == Spec => []OwnedOnce
BY Inductive, PTL

(* And so long the parameters that exist are the client's and those that   *)
(* one container will delete.                                              *)
THEOREM NothingLost == Spec => []NothingLeaks
BY Inductive, PTL
=============================================================================

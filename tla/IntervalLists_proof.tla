------------------------- MODULE IntervalLists_proof -------------------------
(***************************************************************************)
(* What holds of lists of intervals for any bounds, any number of          *)
(* intervals and any sequence of calls, of clients that avoid the calls    *)
(* that such a list does not survive.                                      *)
(***************************************************************************)
EXTENDS IntervalLists, FiniteSetTheorems, SequenceTheorems, WellFoundedInduction, TLAPS

USE IntervalAssumption

Types ==
    /\ kind \in {"GGti", "GEbounds"}
    /\ list \in Seq(Interval)
    /\ pc \in {"idle", "merge"} /\ i \in Nat \ {0}
    /\ merged \in BOOLEAN
    /\ calls \in 0..MaxCalls

(* In the loop of merge() the list is ordered, and what the index has left *)
(* behind is separate from all that follows.                               *)
LoopInv ==
    pc = "merge" =>
        /\ Ordered(list)
        /\ \A j, k \in DOMAIN list : j < i /\ j < k => list[j].stop < list[k].start

(* First and last instant are current in the loop too.                     *)
LimitsInv ==
    IF list = <<>> THEN first = 0 /\ last = 0
    ELSE /\ first = Min(Starts(list)) /\ last = Max(Stops(list))
         /\ kind = "GGti" /\ ~merged => ontime = Duration(list)

IInv == Types /\ LoopInv /\ LimitsInv /\ SameInstants

-----------------------------------------------------------------------------
(* Lists                                                                   *)

LEMMA ElementOfList ==
    ASSUME NEW l \in Seq(Interval), NEW k \in DOMAIN l
    PROVE  /\ l[k] \in Interval
           /\ l[k].start \in Int /\ l[k].stop \in Int
           /\ k \in 1..Len(l)
<1>1. k \in 1..Len(l)
  OBVIOUS
<1>2. l[k] \in Interval
  BY <1>1
<1> QED
  BY <1>1, <1>2 DEF Interval

LEMMA InstantIsNumber == \A t \in Instants : t \in Int
OBVIOUS

LEMMA BoundIsNumber == \A a \in Bounds : a \in Int
OBVIOUS

LEMMA InsertedType ==
    ASSUME NEW l \in Seq(Interval), NEW k \in 1..(Len(l) + 1), NEW a \in Int, NEW b \in Int
    PROVE  /\ InsertedAt(l, k, a, b) \in Seq(Interval)
           /\ DOMAIN InsertedAt(l, k, a, b) = 1..(Len(l) + 1)
           /\ InsertedAt(l, k, a, b)[k] = [start |-> a, stop |-> b]
           /\ \A j \in 1..(k - 1) : InsertedAt(l, k, a, b)[j] = l[j]
           /\ \A j \in (k + 1)..(Len(l) + 1) : InsertedAt(l, k, a, b)[j] = l[j - 1]
<1> DEFINE new == InsertedAt(l, k, a, b)
<1>1. [start |-> a, stop |-> b] \in Interval
  BY DEF Interval
<1>2. \A j \in 1..(Len(l) + 1) :
        new[j] = IF j < k THEN l[j] ELSE IF j = k THEN [start |-> a, stop |-> b]
                 ELSE l[j - 1]
  BY DEF InsertedAt
<1>3. ASSUME NEW j \in 1..(Len(l) + 1) PROVE new[j] \in Interval
  <2>1. CASE j < k
    BY <1>2, <2>1
  <2>2. CASE j = k
    BY <1>1, <1>2, <2>2
  <2>3. CASE j > k
    <3>1. j - 1 \in 1..Len(l)
      BY <2>3
    <3> QED
      BY <1>2, <2>3, <3>1
  <2> QED
    BY <2>1, <2>2, <2>3
<1>4. new \in [1..(Len(l) + 1) -> Interval]
  BY <1>3 DEF InsertedAt
<1>5. new \in Seq(Interval)
  BY <1>4
<1>6. DOMAIN new = 1..(Len(l) + 1)
  BY DEF InsertedAt
<1>7. new[k] = [start |-> a, stop |-> b]
  BY <1>2
<1>8. \A j \in 1..(k - 1) : new[j] = l[j]
  BY <1>2
<1>9. \A j \in (k + 1)..(Len(l) + 1) : new[j] = l[j - 1]
  BY <1>2
<1> QED
  BY <1>5, <1>6, <1>7, <1>8, <1>9

(* The inserted interval is covered, and so is all that was.               *)
LEMMA InsertedCovers ==
    ASSUME NEW l \in Seq(Interval), NEW k \in 1..(Len(l) + 1), NEW a \in Int, NEW b \in Int
    PROVE  Covered(InsertedAt(l, k, a, b)) = Covered(l) \cup Between(a, b)
<1> DEFINE new == InsertedAt(l, k, a, b)
           In(x, t) == x.start <= t /\ t <= x.stop
<1> HIDE DEF new
<1>1. /\ DOMAIN new = 1..(Len(l) + 1)
      /\ new[k] = [start |-> a, stop |-> b]
      /\ \A j \in 1..(k - 1) : new[j] = l[j]
      /\ \A j \in (k + 1)..(Len(l) + 1) : new[j] = l[j - 1]
  BY InsertedType DEF new
<1>2. ASSUME NEW t \in Instants, NEW j \in DOMAIN new, In(new[j], t)
      PROVE  t \in Covered(l) \cup Between(a, b)
  <2>1. CASE j < k
    <3>1. j \in DOMAIN l /\ new[j] = l[j]
      BY <1>1, <2>1
    <3> QED
      BY <1>2, <3>1 DEF Covered
  <2>2. CASE j = k
    BY <1>1, <1>2, <2>2 DEF Between
  <2>3. CASE j > k
    <3>1. j - 1 \in DOMAIN l /\ new[j] = l[j - 1]
      BY <1>1, <2>3
    <3> QED
      BY <1>2, <3>1 DEF Covered
  <2> QED
    BY <1>1, <2>1, <2>2, <2>3
<1>3. ASSUME NEW t \in Instants, NEW j \in DOMAIN l, In(l[j], t)
      PROVE  t \in Covered(new)
  <2>1. CASE j < k
    <3>1. j \in DOMAIN new /\ new[j] = l[j]
      BY <1>1, <2>1
    <3> QED
      BY <1>3, <3>1 DEF Covered
  <2>2. CASE j >= k
    <3>1. j + 1 \in DOMAIN new /\ j + 1 \in (k + 1)..(Len(l) + 1)
      BY <1>1, <2>2
    <3>2. new[j + 1] = l[j]
      BY <1>1, <3>1
    <3> QED
      BY <1>3, <3>1, <3>2 DEF Covered
  <2> QED
    BY <2>1, <2>2
<1>4. ASSUME NEW t \in Between(a, b) PROVE t \in Covered(new)
  <2>1. k \in DOMAIN new /\ In(new[k], t) /\ t \in Instants
    BY <1>1, <1>4 DEF Between
  <2> QED
    BY <2>1 DEF Covered
<1>5. Covered(new) \subseteq Covered(l) \cup Between(a, b)
  BY <1>2 DEF Covered
<1>6. Covered(l) \cup Between(a, b) \subseteq Covered(new)
  BY <1>3, <1>4 DEF Covered
<1> QED
  BY <1>5, <1>6 DEF new

(* Between those that start earlier and those that start later, an         *)
(* interval is in order.                                                   *)
LEMMA InsertedInOrder ==
    ASSUME NEW l \in Seq(Interval), NEW k \in 1..(Len(l) + 1), NEW a \in Int, NEW b \in Int,
           Ordered(l),
           \A j \in 1..(k - 1) : l[j].start <= a,
           \A j \in k..Len(l) : a <= l[j].start
    PROVE  Ordered(InsertedAt(l, k, a, b))
<1> DEFINE new == InsertedAt(l, k, a, b)
<1> HIDE DEF new
<1>1. /\ DOMAIN new = 1..(Len(l) + 1)
      /\ new[k] = [start |-> a, stop |-> b]
      /\ \A j \in 1..(k - 1) : new[j] = l[j]
      /\ \A j \in (k + 1)..(Len(l) + 1) : new[j] = l[j - 1]
  BY InsertedType DEF new
<1>2. SUFFICES ASSUME NEW j \in DOMAIN new, NEW m \in DOMAIN new, j < m
               PROVE  new[j].start <= new[m].start
  BY DEF Ordered, new
<1>3. \A p, q \in 1..Len(l) : p < q => l[p].start <= l[q].start
  BY DEF Ordered
<1>4. CASE m < k
  BY <1>1, <1>2, <1>3, <1>4
<1>5. CASE m = k
  BY <1>1, <1>2, <1>5
<1>6. CASE m > k /\ j < k
  <2>1. new[j] = l[j] /\ new[m] = l[m - 1] /\ l[j].start <= a /\ a <= l[m - 1].start
    BY <1>1, <1>2, <1>6
  <2>2. l[j].start \in Int /\ l[m - 1].start \in Int
    BY <1>1, <1>2, <1>6, ElementOfList
  <2> QED
    BY <2>1, <2>2
<1>7. CASE j = k
  <2>1. m \in (k + 1)..(Len(l) + 1)
    BY <1>1, <1>2, <1>7
  <2>2. new[m] = l[m - 1] /\ m - 1 \in k..Len(l)
    BY <1>1, <2>1
  <2>3. new[j].start = a
    BY <1>1, <1>7
  <2> QED
    BY <2>2, <2>3
<1>8. CASE j > k
  <2>1. new[j] = l[j - 1] /\ new[m] = l[m - 1]
    BY <1>1, <1>2, <1>8
  <2>2. j - 1 \in 1..Len(l) /\ m - 1 \in 1..Len(l) /\ j - 1 < m - 1
    BY <1>1, <1>2, <1>8
  <2> QED
    BY <1>3, <2>1, <2>2
<1> QED
  BY <1>1, <1>2, <1>4, <1>5, <1>6, <1>7, <1>8

(* The hull of two intervals that overlap, or connect, covers what they    *)
(* do, and nothing else.                                                   *)
LEMMA HullCovers ==
    ASSUME NEW x \in Interval, NEW y \in Interval, x.start <= y.start, y.start <= x.stop,
           NEW t \in Int
    PROVE  /\ Hull(x, y) \in Interval
           /\ Hull(x, y).start = x.start
           /\ (Hull(x, y).start <= t /\ t <= Hull(x, y).stop) <=>
                 ((x.start <= t /\ t <= x.stop) \/ (y.start <= t /\ t <= y.stop))
<1>1. x.start \in Int /\ x.stop \in Int /\ y.start \in Int /\ y.stop \in Int
  BY DEF Interval
<1>2. Lesser(x.start, y.start) = x.start
  BY <1>1 DEF Lesser
<1>3. /\ Greater(x.stop, y.stop) \in Int
      /\ t <= Greater(x.stop, y.stop) <=> t <= x.stop \/ t <= y.stop
  BY <1>1 DEF Greater
<1>4. Hull(x, y) = [start |-> x.start, stop |-> Greater(x.stop, y.stop)]
  BY <1>2 DEF Hull
<1>5. Hull(x, y) \in Interval
  BY <1>1, <1>3, <1>4 DEF Interval
<1>6. Hull(x, y).start = x.start /\ Hull(x, y).stop = Greater(x.stop, y.stop)
  BY <1>4
<1> QED
  BY <1>1, <1>3, <1>5, <1>6

(* The list in which the intervals p and p + 1 are replaced by their hull. *)
Joined(l, p) ==
    [k \in 1..(Len(l) - 1) |->
        IF k < p THEN l[k] ELSE IF k = p THEN Hull(l[p], l[p + 1]) ELSE l[k + 1]]

LEMMA JoinedType ==
    ASSUME NEW l \in Seq(Interval), NEW p \in Nat \ {0}, p < Len(l), Ordered(l),
           l[p + 1].start <= l[p].stop
    PROVE  /\ Joined(l, p) \in Seq(Interval)
           /\ DOMAIN Joined(l, p) = 1..(Len(l) - 1)
           /\ \A k \in 1..(p - 1) : Joined(l, p)[k] = l[k]
           /\ Joined(l, p)[p] = Hull(l[p], l[p + 1])
           /\ \A k \in (p + 1)..(Len(l) - 1) : Joined(l, p)[k] = l[k + 1]
           /\ l[p].start <= l[p + 1].start
           /\ Hull(l[p], l[p + 1]) \in Interval
           /\ Hull(l[p], l[p + 1]).start = l[p].start
<1> DEFINE new == Joined(l, p)
<1>1. p \in DOMAIN l /\ p + 1 \in DOMAIN l
  OBVIOUS
<1>2. l[p] \in Interval /\ l[p + 1] \in Interval
  BY <1>1, ElementOfList
<1>3. l[p].start <= l[p + 1].start
  BY <1>1 DEF Ordered
<1>4. Hull(l[p], l[p + 1]) \in Interval /\ Hull(l[p], l[p + 1]).start = l[p].start
  BY <1>2, <1>3, HullCovers, 0 \in Int
<1>5. \A k \in 1..(Len(l) - 1) :
        new[k] = IF k < p THEN l[k] ELSE IF k = p THEN Hull(l[p], l[p + 1]) ELSE l[k + 1]
  BY DEF Joined
<1>6. ASSUME NEW k \in 1..(Len(l) - 1) PROVE new[k] \in Interval
  <2>1. k \in 1..Len(l) /\ k + 1 \in 1..Len(l)
    OBVIOUS
  <2>2. l[k] \in Interval /\ l[k + 1] \in Interval
    BY <2>1, ElementOfList
  <2> QED
    BY <1>4, <1>5, <2>2
<1>7. new \in [1..(Len(l) - 1) -> Interval] /\ Len(l) - 1 \in Nat
  BY <1>6 DEF Joined
<1>8. new \in Seq(Interval)
  BY <1>7
<1>9. DOMAIN new = 1..(Len(l) - 1)
  BY DEF Joined
<1>10. \A k \in 1..(p - 1) : new[k] = l[k]
  BY <1>5
<1>11. new[p] = Hull(l[p], l[p + 1])
  BY <1>5
<1>12. \A k \in (p + 1)..(Len(l) - 1) : new[k] = l[k + 1]
  BY <1>5
<1> QED
  BY <1>3, <1>4, <1>8, <1>9, <1>10, <1>11, <1>12

LEMMA JoinedCovers ==
    ASSUME NEW l \in Seq(Interval), NEW p \in Nat \ {0}, p < Len(l), Ordered(l),
           l[p + 1].start <= l[p].stop
    PROVE  Covered(Joined(l, p)) = Covered(l)
<1> DEFINE new == Joined(l, p)
           In(x, t) == x.start <= t /\ t <= x.stop
<1> HIDE DEF new
<1>1. /\ DOMAIN new = 1..(Len(l) - 1)
      /\ \A k \in 1..(p - 1) : new[k] = l[k]
      /\ new[p] = Hull(l[p], l[p + 1])
      /\ \A k \in (p + 1)..(Len(l) - 1) : new[k] = l[k + 1]
      /\ l[p].start <= l[p + 1].start
  BY JoinedType DEF new
<1>2. /\ p \in DOMAIN l /\ p + 1 \in DOMAIN l /\ p \in DOMAIN new
      /\ l[p] \in Interval /\ l[p + 1] \in Interval
  BY <1>1, ElementOfList
<1>3. \A t \in Int : In(new[p], t) <=> (In(l[p], t) \/ In(l[p + 1], t))
  BY <1>1, <1>2, HullCovers
<1>4. ASSUME NEW t \in Instants, NEW k \in DOMAIN new, In(new[k], t)
      PROVE  t \in Covered(l)
  <2>1. CASE k < p
    <3>1. k \in DOMAIN l /\ new[k] = l[k]
      BY <1>1, <2>1
    <3> QED
      BY <1>4, <3>1 DEF Covered
  <2>2. CASE k = p
    BY <1>2, <1>3, <1>4, <2>2, InstantIsNumber DEF Covered
  <2>3. CASE k > p
    <3>1. k + 1 \in DOMAIN l /\ new[k] = l[k + 1]
      BY <1>1, <2>3
    <3> QED
      BY <1>4, <3>1 DEF Covered
  <2> QED
    BY <1>1, <2>1, <2>2, <2>3
<1>5. ASSUME NEW t \in Instants, NEW k \in DOMAIN l, In(l[k], t)
      PROVE  t \in Covered(new)
  <2>1. CASE k < p
    <3>1. k \in DOMAIN new /\ new[k] = l[k]
      BY <1>1, <2>1
    <3> QED
      BY <1>5, <3>1 DEF Covered
  <2>2. CASE k = p \/ k = p + 1
    BY <1>2, <1>3, <1>5, <2>2, InstantIsNumber DEF Covered
  <2>3. CASE k > p + 1
    <3>1. k - 1 \in DOMAIN new /\ k - 1 \in (p + 1)..(Len(l) - 1)
      BY <1>1, <2>3
    <3>2. new[k - 1] = l[k]
      BY <1>1, <3>1
    <3> QED
      BY <1>5, <3>1, <3>2 DEF Covered
  <2> QED
    BY <2>1, <2>2, <2>3
<1>6. Covered(new) \subseteq Covered(l)
  BY <1>4 DEF Covered
<1>7. Covered(l) \subseteq Covered(new)
  BY <1>5 DEF Covered
<1> QED
  BY <1>6, <1>7 DEF new

LEMMA JoinedInOrder ==
    ASSUME NEW l \in Seq(Interval), NEW p \in Nat \ {0}, p < Len(l), Ordered(l),
           l[p + 1].start <= l[p].stop,
           \A j, k \in DOMAIN l : j < p /\ j < k => l[j].stop < l[k].start
    PROVE  /\ Ordered(Joined(l, p))
           /\ \A j, k \in DOMAIN Joined(l, p) :
                  j < p /\ j < k => Joined(l, p)[j].stop < Joined(l, p)[k].start
<1> DEFINE new == Joined(l, p)
           Old(k) == IF k <= p THEN k ELSE k + 1
<1> HIDE DEF new
<1>1. /\ DOMAIN new = 1..(Len(l) - 1)
      /\ \A k \in 1..(p - 1) : new[k] = l[k]
      /\ new[p] = Hull(l[p], l[p + 1])
      /\ \A k \in (p + 1)..(Len(l) - 1) : new[k] = l[k + 1]
      /\ Hull(l[p], l[p + 1]).start = l[p].start
  BY JoinedType DEF new
<1>2. \A k \in DOMAIN new : Old(k) \in DOMAIN l /\ new[k].start = l[Old(k)].start
  BY <1>1
<1>3. \A j, k \in DOMAIN new : j < k => Old(j) < Old(k)
  BY <1>1
<1>4. \A j \in DOMAIN new : j < p => Old(j) = j /\ new[j] = l[j]
  BY <1>1
<1> HIDE DEF Old
<1>5. ASSUME NEW j \in DOMAIN new, NEW k \in DOMAIN new, j < k
      PROVE  new[j].start <= new[k].start
  BY <1>2, <1>3, <1>5 DEF Ordered
<1>6. ASSUME NEW j \in DOMAIN new, NEW k \in DOMAIN new, j < p, j < k
      PROVE  new[j].stop < new[k].start
  <2>1. j \in DOMAIN l /\ Old(k) \in DOMAIN l /\ j < Old(k)
    BY <1>2, <1>3, <1>4, <1>6
  <2> QED
    BY <1>2, <1>4, <1>6, <2>1
<1> QED
  BY <1>5, <1>6 DEF Ordered, new

(* An interval that is left out takes its instants with it, unless another *)
(* one covers them; energies lose the last interval only.                  *)
LEMMA RemovedCovers ==
    ASSUME NEW l \in Seq(Interval), NEW p \in DOMAIN l, kind = "GGti" \/ p = Len(l)
    PROVE  /\ Removed(l, p) \in Seq(Interval)
           /\ Covered(Removed(l, p)) =
                {t \in Instants : \E j \in DOMAIN l \ {p} : l[j].start <= t /\ t <= l[j].stop}
<1> DEFINE new == Removed(l, p)
           In(x, t) == x.start <= t /\ t <= x.stop
<1>1. \A j \in 1..(Len(l) - 1) : new[j] = IF j < p THEN l[j] ELSE l[j + 1]
  BY DEF Removed
<1>2. DOMAIN new = 1..(Len(l) - 1)
  BY DEF Removed
<1>3. Len(l) - 1 \in Nat /\ p \in 1..Len(l)
  OBVIOUS
<1>4. ASSUME NEW j \in 1..(Len(l) - 1) PROVE new[j] \in Interval
  <2>1. j \in DOMAIN l /\ j + 1 \in DOMAIN l
    OBVIOUS
  <2>2. l[j] \in Interval /\ l[j + 1] \in Interval
    BY <2>1, ElementOfList
  <2> QED
    BY <1>1, <2>2
<1>5. new \in [1..(Len(l) - 1) -> Interval]
  BY <1>4 DEF Removed
<1>6. new \in Seq(Interval)
  BY <1>3, <1>5
<1> HIDE DEF new
<1>7. ASSUME NEW t \in Instants, NEW j \in DOMAIN new, In(new[j], t)
      PROVE  \E k \in DOMAIN l \ {p} : In(l[k], t)
  <2>1. CASE j < p
    <3>1. j \in DOMAIN l \ {p} /\ new[j] = l[j]
      BY <1>1, <1>2, <2>1
    <3> QED
      BY <1>7, <3>1
  <2>2. CASE j >= p
    <3>1. j + 1 \in DOMAIN l \ {p} /\ new[j] = l[j + 1]
      BY <1>1, <1>2, <1>3, <2>2
    <3> QED
      BY <1>7, <3>1
  <2> QED
    BY <1>2, <1>3, <2>1, <2>2
<1>8. ASSUME NEW t \in Instants, NEW k \in DOMAIN l \ {p}, In(l[k], t)
      PROVE  t \in Covered(new)
  <2>1. CASE k < p
    <3>1. k \in DOMAIN new /\ new[k] = l[k]
      BY <1>1, <1>2, <1>3, <2>1
    <3> QED
      BY <1>8, <3>1 DEF Covered
  <2>2. CASE k > p
    <3>1. k - 1 \in 1..(Len(l) - 1) /\ ~ (k - 1 < p) /\ k - 1 + 1 = k
      BY <1>3, <2>2
    <3>2. k - 1 \in DOMAIN new /\ new[k - 1] = l[k]
      BY <1>1, <1>2, <3>1
    <3> QED
      BY <1>8, <3>2 DEF Covered
  <2> QED
    BY <1>3, <2>1, <2>2
<1> QED
  BY <1>6, <1>7, <1>8 DEF Covered, new

(* Between the limits of reduce() the intervals cover what they did.       *)
LEMMA ReducedCovers ==
    ASSUME NEW l \in Seq(Interval), NEW a \in Int, NEW b \in Int, NEW n \in 0..Len(l),
           \A k \in DOMAIN l :
              k <= n <=> Limited(l, a, b)[k].start <= Limited(l, a, b)[k].stop
    PROVE  /\ [k \in 1..n |-> Limited(l, a, b)[k]] \in Seq(Interval)
           /\ Covered([k \in 1..n |-> Limited(l, a, b)[k]]) = Covered(l) \cap Between(a, b)
<1> DEFINE lim == Limited(l, a, b)
           new == [k \in 1..n |-> lim[k]]
           In(x, t) == x.start <= t /\ t <= x.stop
<1>1. ASSUME NEW k \in DOMAIN l
      PROVE  /\ lim[k] \in Interval
             /\ \A t \in Int : In(lim[k], t) <=> (In(l[k], t) /\ a <= t /\ t <= b)
  <2>1. l[k].start \in Int /\ l[k].stop \in Int
    BY ElementOfList
  <2>2. lim[k] = [start |-> Greater(l[k].start, a), stop |-> Lesser(l[k].stop, b)]
    BY DEF Limited
  <2>3. /\ Greater(l[k].start, a) \in Int
        /\ \A t \in Int : Greater(l[k].start, a) <= t <=> (l[k].start <= t /\ a <= t)
    BY <2>1 DEF Greater
  <2>4. /\ Lesser(l[k].stop, b) \in Int
        /\ \A t \in Int : t <= Lesser(l[k].stop, b) <=> (t <= l[k].stop /\ t <= b)
    BY <2>1 DEF Lesser
  <2>5. lim[k].start = Greater(l[k].start, a) /\ lim[k].stop = Lesser(l[k].stop, b)
    BY <2>2
  <2>6. lim[k] \in Interval
    BY <2>2, <2>3, <2>4 DEF Interval
  <2> QED
    BY <2>3, <2>4, <2>5, <2>6
<1>2. \A k \in DOMAIN l : k <= n <=> lim[k].start <= lim[k].stop
  OBVIOUS
<1> HIDE DEF lim
<1>3. new \in [1..n -> Interval]
  BY <1>1
<1>4. new \in Seq(Interval) /\ DOMAIN new = 1..n
  BY <1>3
<1>5. ASSUME NEW t \in Instants, NEW k \in 1..n, In(lim[k], t)
      PROVE  t \in Covered(l) /\ t \in Between(a, b)
  <2>1. k \in DOMAIN l /\ t \in Int
    BY InstantIsNumber
  <2>2. In(l[k], t) /\ a <= t /\ t <= b
    BY <1>1, <1>5, <2>1
  <2> QED
    BY <2>1, <2>2 DEF Covered, Between
<1>6. ASSUME NEW t \in Instants, NEW k \in DOMAIN l, In(l[k], t), a <= t, t <= b
      PROVE  k \in 1..n /\ In(lim[k], t)
  <2>1. t \in Int
    BY InstantIsNumber
  <2>2. In(lim[k], t) /\ lim[k] \in Interval
    BY <1>1, <1>6, <2>1
  <2>3. lim[k].start <= lim[k].stop
    BY <2>1, <2>2 DEF Interval
  <2>4. k <= n
    BY <1>2, <2>3
  <2> QED
    BY <2>2, <2>4
<1>7. Covered(new) = {t \in Instants : \E k \in 1..n : In(lim[k], t)}
  BY <1>4 DEF Covered
<1>8. Covered(l) \cap Between(a, b) = {t \in Instants : \E k \in 1..n : In(lim[k], t)}
  BY <1>5, <1>6 DEF Covered, Between
<1> QED
  BY <1>4, <1>7, <1>8 DEF lim

LEMMA JoinedListsCover ==
    ASSUME NEW l \in Seq(Interval), NEW m \in Seq(Interval)
    PROVE  l \o m \in Seq(Interval) /\ Covered(l \o m) = Covered(l) \cup Covered(m)
<1> DEFINE new == l \o m
           In(x, t) == x.start <= t /\ t <= x.stop
<1>1. /\ new \in Seq(Interval)
      /\ Len(new) = Len(l) + Len(m)
      /\ \A k \in 1..(Len(l) + Len(m)) :
            new[k] = IF k <= Len(l) THEN l[k] ELSE m[k - Len(l)]
  BY ConcatProperties
<1> HIDE DEF new
<1>2. DOMAIN new = 1..(Len(l) + Len(m))
  BY <1>1
<1>3. ASSUME NEW t \in Instants, NEW k \in DOMAIN new, In(new[k], t)
      PROVE  t \in Covered(l) \cup Covered(m)
  <2>1. CASE k <= Len(l)
    <3>1. k \in DOMAIN l /\ new[k] = l[k]
      BY <1>1, <1>2, <2>1
    <3> QED
      BY <1>3, <3>1 DEF Covered
  <2>2. CASE k > Len(l)
    <3>1. k - Len(l) \in DOMAIN m /\ new[k] = m[k - Len(l)]
      BY <1>1, <1>2, <2>2
    <3> QED
      BY <1>3, <3>1 DEF Covered
  <2> QED
    BY <1>2, <2>1, <2>2
<1>4. ASSUME NEW t \in Instants, NEW k \in DOMAIN l, In(l[k], t)
      PROVE  t \in Covered(new)
  <2>1. k \in DOMAIN new /\ new[k] = l[k]
    BY <1>1, <1>2
  <2> QED
    BY <1>4, <2>1 DEF Covered
<1>5. ASSUME NEW t \in Instants, NEW k \in DOMAIN m, In(m[k], t)
      PROVE  t \in Covered(new)
  <2>1. k + Len(l) \in DOMAIN new /\ ~ (k + Len(l) <= Len(l)) /\ k + Len(l) - Len(l) = k
    BY <1>2
  <2>2. new[k + Len(l)] = m[k]
    BY <1>1, <1>2, <2>1
  <2> QED
    BY <1>5, <2>1, <2>2 DEF Covered
<1> QED
  BY <1>1, <1>3, <1>4, <1>5 DEF Covered, new

LEMMA LeastNatural ==
    ASSUME NEW M \in SUBSET Nat, M # {}
    PROVE  \E x \in M : \A y \in M : x <= y
<1>1. PICK x \in M : \A y \in M : ~ (<<y, x>> \in OpToRel(<, Nat))
  BY WFMin, NatLessThanWellFounded
<1>2. \A y \in M : ~ (y < x)
  BY <1>1 DEF OpToRel
<1> QED
  BY <1>2

(* Bins that connect cover all from the first to the last bound: an        *)
(* instant lies in the first of those that do not end before it.           *)
LEMMA BinsCover ==
    ASSUME NEW n \in Nat \ {0}, NEW a \in Int, NEW width \in Nat
    PROVE  LET bins == [k \in 1..n |->
                          [start |-> a + (k - 1) * width, stop |-> a + k * width]]
           IN  /\ bins \in Seq(Interval)
               /\ Covered(bins) = Between(a, a + n * width)
<1> DEFINE At(k) == a + k * width
           bins == [k \in 1..n |-> [start |-> At(k - 1), stop |-> At(k)]]
<1>1. \A k \in Nat : At(k) \in Int
  OBVIOUS
<1>2. \A k \in 1..n : a <= At(k - 1) /\ At(k) <= At(n)
  <2>1. ASSUME NEW k \in 1..n PROVE a <= At(k - 1) /\ At(k) <= At(n)
    <3>1. (k - 1) * width >= 0 /\ (n - k) * width >= 0
      OBVIOUS
    <3>2. n * width = k * width + (n - k) * width
      OBVIOUS
    <3>3. (k - 1) * width \in Int /\ k * width \in Int /\ n * width \in Int
          /\ (n - k) * width \in Int
      OBVIOUS
    <3> QED
      BY <3>1, <3>2, <3>3
  <2> QED
    BY <2>1
<1>3. At(0) = a
  OBVIOUS
<1> HIDE DEF At
<1>4. bins \in [1..n -> Interval]
  BY <1>1 DEF Interval
<1>5. bins \in Seq(Interval) /\ DOMAIN bins = 1..n
  BY <1>4
<1>6. \A k \in 1..n : bins[k].start = At(k - 1) /\ bins[k].stop = At(k)
  OBVIOUS
<1>7. Covered(bins) = {t \in Instants : \E k \in 1..n : At(k - 1) <= t /\ t <= At(k)}
  BY <1>5, <1>6 DEF Covered
<1>8. ASSUME NEW t \in Instants, NEW k \in 1..n, At(k - 1) <= t, t <= At(k)
      PROVE  a <= t /\ t <= At(n)
  <2>1. k - 1 \in Nat /\ k \in Nat /\ n \in Nat /\ t \in Int
    BY InstantIsNumber
  <2> QED
    BY <1>1, <1>2, <1>8, <2>1
<1>9. ASSUME NEW t \in Instants, a <= t, t <= At(n)
      PROVE  \E k \in 1..n : At(k - 1) <= t /\ t <= At(k)
  <2>1. t \in Int
    BY InstantIsNumber
  <2>2. PICK k \in {j \in 1..n : t <= At(j)} : \A j \in {m \in 1..n : t <= At(m)} : k <= j
    <3>1. n \in {j \in 1..n : t <= At(j)}
      BY <1>9
    <3>2. {j \in 1..n : t <= At(j)} \in SUBSET Nat
      OBVIOUS
    <3> QED
      BY <3>1, <3>2, LeastNatural
  <2>3. CASE k = 1
    BY <1>3, <1>9, <2>2, <2>3
  <2>4. CASE k > 1
    <3>1. k - 1 \in 1..n /\ k - 1 \in Nat /\ ~ (k <= k - 1)
      BY <2>2, <2>4
    <3>2. ~ (t <= At(k - 1))
      BY <2>2, <3>1
    <3> QED
      BY <1>1, <2>1, <2>2, <3>1, <3>2
  <2> QED
    BY <2>2, <2>3, <2>4
<1>10. Covered(bins) = Between(a, At(n))
  BY <1>7, <1>8, <1>9 DEF Between
<1> QED
  BY <1>5, <1>10 DEF At

-----------------------------------------------------------------------------
(* First start and last stop                                               *)

(* Were there none in some front part of the list, then not in a shortest  *)
(* one; but there the last interval or the earlier limit is the limit.     *)
LEMMA SomeLimits ==
    ASSUME NEW l \in Seq(Interval), l # <<>>
    PROVE  /\ \E p \in DOMAIN l : \A k \in DOMAIN l : l[p].start <= l[k].start
           /\ \E p \in DOMAIN l : \A k \in DOMAIN l : l[k].stop <= l[p].stop
<1> DEFINE HasFirst(n) == \E p \in 1..n : \A k \in 1..n : l[p].start <= l[k].start
           HasLast(n) == \E p \in 1..n : \A k \in 1..n : l[k].stop <= l[p].stop
<1>1. \A k \in 1..Len(l) : l[k].start \in Int /\ l[k].stop \in Int
  BY ElementOfList
<1>2. HasFirst(1) /\ HasLast(1)
  <2>1. Len(l) >= 1
    OBVIOUS
  <2>2. 1 \in 1..1 /\ \A k \in 1..1 : k = 1
    OBVIOUS
  <2> QED
    BY <1>1, <2>1, <2>2
<1>3. ASSUME NEW n \in 2..Len(l), HasFirst(n - 1) PROVE HasFirst(n)
  <2>1. PICK p \in 1..(n - 1) : \A k \in 1..(n - 1) : l[p].start <= l[k].start
    BY <1>3
  <2>2. p \in 1..n /\ n \in 1..n /\ \A k \in 1..n : k \in 1..(n - 1) \/ k = n
    OBVIOUS
  <2>3. l[p].start \in Int /\ l[n].start \in Int /\ \A k \in 1..n : l[k].start \in Int
    BY <1>1
  <2>4. CASE l[p].start <= l[n].start
    BY <2>1, <2>2, <2>4
  <2>5. CASE l[n].start < l[p].start
    <3>1. \A k \in 1..n : l[n].start <= l[k].start
      BY <2>1, <2>2, <2>3, <2>5
    <3> QED
      BY <2>2, <3>1
  <2>6. l[p].start <= l[n].start \/ l[n].start < l[p].start
    BY <2>3
  <2> QED
    BY <2>4, <2>5, <2>6
<1>4. ASSUME NEW n \in 2..Len(l), HasLast(n - 1) PROVE HasLast(n)
  <2>1. PICK p \in 1..(n - 1) : \A k \in 1..(n - 1) : l[k].stop <= l[p].stop
    BY <1>4
  <2>2. p \in 1..n /\ n \in 1..n /\ \A k \in 1..n : k \in 1..(n - 1) \/ k = n
    OBVIOUS
  <2>3. l[p].stop \in Int /\ l[n].stop \in Int /\ \A k \in 1..n : l[k].stop \in Int
    BY <1>1
  <2>4. CASE l[n].stop <= l[p].stop
    BY <2>1, <2>2, <2>4
  <2>5. CASE l[p].stop < l[n].stop
    <3>1. \A k \in 1..n : l[k].stop <= l[n].stop
      BY <2>1, <2>2, <2>3, <2>5
    <3> QED
      BY <2>2, <3>1
  <2>6. l[n].stop <= l[p].stop \/ l[p].stop < l[n].stop
    BY <2>3
  <2> QED
    BY <2>4, <2>5, <2>6
<1> DEFINE Bad == {n \in 1..Len(l) : ~ (HasFirst(n) /\ HasLast(n))}
<1>5. Len(l) \in Nat /\ Len(l) >= 1
  OBVIOUS
<1> HIDE DEF HasFirst, HasLast
<1>6. Bad = {}
  <2>1. SUFFICES ASSUME Bad # {} PROVE FALSE
    OBVIOUS
  <2>2. PICK n \in Bad : \A m \in Bad : n <= m
    <3>1. Bad \in SUBSET Nat
      OBVIOUS
    <3> HIDE DEF Bad
    <3> QED
      BY <2>1, <3>1, LeastNatural
  <2>3. n # 1
    BY <1>2, <2>2
  <2>4. n \in 2..Len(l) /\ n - 1 \in 1..Len(l) /\ ~ (n <= n - 1)
    BY <2>2, <2>3
  <2>5. n - 1 \notin Bad
    BY <2>2, <2>4
  <2>6. HasFirst(n - 1) /\ HasLast(n - 1)
    BY <2>4, <2>5
  <2> QED
    BY <1>3, <1>4, <2>2, <2>4, <2>6
<1>7. HasFirst(Len(l)) /\ HasLast(Len(l))
  BY <1>5, <1>6
<1>8. DOMAIN l = 1..Len(l)
  OBVIOUS
<1> QED
  BY <1>7, <1>8 DEF HasFirst, HasLast

LEMMA LimitsOfList ==
    ASSUME NEW l \in Seq(Interval), l # <<>>
    PROVE  /\ Min(Starts(l)) \in Starts(l) /\ Max(Stops(l)) \in Stops(l)
           /\ Min(Starts(l)) \in Int /\ Max(Stops(l)) \in Int
           /\ \A k \in DOMAIN l : Min(Starts(l)) <= l[k].start /\ l[k].stop <= Max(Stops(l))
<1>1. \A k \in DOMAIN l : l[k].start \in Int /\ l[k].stop \in Int
  BY ElementOfList
<1>2. \E x \in Starts(l) : \A y \in Starts(l) : x =< y
  BY SomeLimits DEF Starts
<1>3. \E x \in Stops(l) : \A y \in Stops(l) : x >= y
  <2>1. PICK p \in DOMAIN l : \A k \in DOMAIN l : l[k].stop <= l[p].stop
    BY SomeLimits
  <2>2. \A k \in DOMAIN l : l[p].stop >= l[k].stop
    BY <1>1, <2>1
  <2> QED
    BY <2>2 DEF Stops
<1>4. Min(Starts(l)) \in Starts(l) /\ \A y \in Starts(l) : Min(Starts(l)) =< y
  BY <1>2 DEF Min
<1>5. Max(Stops(l)) \in Stops(l) /\ \A y \in Stops(l) : Max(Stops(l)) >= y
  BY <1>3 DEF Max
<1>6. \A x \in Starts(l) : x \in Int
  BY <1>1 DEF Starts
<1>7. \A x \in Stops(l) : x \in Int
  BY <1>1 DEF Stops
<1>8. \A k \in DOMAIN l : l[k].start \in Starts(l) /\ l[k].stop \in Stops(l)
  BY DEF Starts, Stops
<1>9. \A k \in DOMAIN l : l[k].stop <= Max(Stops(l))
  BY <1>5, <1>7, <1>8
<1> QED
  BY <1>4, <1>5, <1>6, <1>7, <1>8, <1>9

(* What is the limit of a list is Min or Max of it.                        *)
LEMMA LimitIs ==
    ASSUME NEW l \in Seq(Interval), NEW x \in Int, NEW y \in Int,
           x \in Starts(l), \A k \in DOMAIN l : x <= l[k].start,
           y \in Stops(l), \A k \in DOMAIN l : l[k].stop <= y
    PROVE  x = Min(Starts(l)) /\ y = Max(Stops(l))
<1>1. l # <<>>
  BY DEF Starts
<1>2. /\ Min(Starts(l)) \in Starts(l) /\ Max(Stops(l)) \in Stops(l)
      /\ Min(Starts(l)) \in Int /\ Max(Stops(l)) \in Int
      /\ \A k \in DOMAIN l : Min(Starts(l)) <= l[k].start /\ l[k].stop <= Max(Stops(l))
  BY <1>1, LimitsOfList
<1>3. Min(Starts(l)) <= x /\ x <= Min(Starts(l))
  BY <1>2 DEF Starts
<1>4. Max(Stops(l)) <= y /\ y <= Max(Stops(l))
  BY <1>2 DEF Stops
<1> QED
  BY <1>2, <1>3, <1>4

(* Two intervals that are joined leave the limits of the list.             *)
LEMMA JoinedLimits ==
    ASSUME NEW l \in Seq(Interval), NEW p \in Nat \ {0}, p < Len(l), Ordered(l),
           l[p + 1].start <= l[p].stop
    PROVE  /\ Joined(l, p) # <<>>
           /\ Min(Starts(l)) = Min(Starts(Joined(l, p)))
           /\ Max(Stops(l)) = Max(Stops(Joined(l, p)))
<1> DEFINE new == Joined(l, p)
           x == Min(Starts(l))
           y == Max(Stops(l))
           hull == Hull(l[p], l[p + 1])
<1>1. /\ new \in Seq(Interval)
      /\ DOMAIN new = 1..(Len(l) - 1)
      /\ \A k \in 1..(p - 1) : new[k] = l[k]
      /\ new[p] = hull
      /\ \A k \in (p + 1)..(Len(l) - 1) : new[k] = l[k + 1]
      /\ l[p].start <= l[p + 1].start
      /\ hull \in Interval
      /\ hull.start = l[p].start
  BY JoinedType
<1>2. /\ p \in DOMAIN l /\ p + 1 \in DOMAIN l /\ p \in DOMAIN new
      /\ l[p].stop \in Int /\ l[p + 1].stop \in Int
      /\ l[p].start \in Int /\ l[p + 1].start \in Int
  BY <1>1, ElementOfList
<1>3. hull.stop = Greater(l[p].stop, l[p + 1].stop)
  BY DEF Hull
<1>4. /\ x \in Starts(l) /\ y \in Stops(l) /\ x \in Int /\ y \in Int
      /\ \A k \in DOMAIN l : x <= l[k].start /\ l[k].stop <= y
  BY <1>2, LimitsOfList
<1> HIDE DEF new, x, y, hull
<1>5. ASSUME NEW k \in DOMAIN new
      PROVE  x <= new[k].start /\ new[k].stop <= y
  <2>1. CASE k < p
    <3>1. k \in DOMAIN l /\ new[k] = l[k]
      BY <1>1, <2>1
    <3> QED
      BY <1>4, <3>1
  <2>2. CASE k = p
    BY <1>1, <1>2, <1>3, <1>4, <2>2 DEF Greater
  <2>3. CASE k > p
    <3>1. k + 1 \in DOMAIN l /\ new[k] = l[k + 1]
      BY <1>1, <2>3
    <3> QED
      BY <1>4, <3>1
  <2> QED
    BY <1>1, <2>1, <2>2, <2>3
<1>6. x \in Starts(new)
  <2>1. PICK k \in DOMAIN l : x = l[k].start
    BY <1>4 DEF Starts
  <2>2. CASE k < p
    <3>1. k \in DOMAIN new /\ new[k] = l[k]
      BY <1>1, <2>2
    <3> QED
      BY <2>1, <3>1 DEF Starts
  <2>3. CASE k = p \/ k = p + 1
    <3>1. x = l[p].start
      BY <1>1, <1>2, <1>4, <2>1, <2>3
    <3> QED
      BY <1>1, <1>2, <3>1 DEF Starts
  <2>4. CASE k > p + 1
    <3>1. k - 1 \in DOMAIN new /\ k - 1 \in (p + 1)..(Len(l) - 1) /\ k - 1 + 1 = k
      BY <1>1, <2>4
    <3>2. new[k - 1] = l[k]
      BY <1>1, <3>1
    <3> QED
      BY <2>1, <3>1, <3>2 DEF Starts
  <2> QED
    BY <2>2, <2>3, <2>4
<1>7. y \in Stops(new)
  <2>1. PICK k \in DOMAIN l : y = l[k].stop
    BY <1>4 DEF Stops
  <2>2. CASE k < p
    <3>1. k \in DOMAIN new /\ new[k] = l[k]
      BY <1>1, <2>2
    <3> QED
      BY <2>1, <3>1 DEF Stops
  <2>3. CASE k = p \/ k = p + 1
    <3>1. l[p].stop <= y /\ l[p + 1].stop <= y /\ (y = l[p].stop \/ y = l[p + 1].stop)
      BY <1>2, <1>4, <2>1, <2>3
    <3>2. y = hull.stop
      BY <1>2, <1>3, <1>4, <3>1 DEF Greater
    <3> QED
      BY <1>1, <1>2, <3>2 DEF Stops
  <2>4. CASE k > p + 1
    <3>1. k - 1 \in DOMAIN new /\ k - 1 \in (p + 1)..(Len(l) - 1) /\ k - 1 + 1 = k
      BY <1>1, <2>4
    <3>2. new[k - 1] = l[k]
      BY <1>1, <3>1
    <3> QED
      BY <2>1, <3>1, <3>2 DEF Stops
  <2> QED
    BY <2>2, <2>3, <2>4
<1>8. x = Min(Starts(new)) /\ y = Max(Stops(new))
  BY <1>1, <1>4, <1>5, <1>6, <1>7, LimitIs
<1>9. new # <<>>
  BY <1>2
<1> QED
  BY <1>8, <1>9 DEF new, x, y

-----------------------------------------------------------------------------
(* The calls                                                               *)

(* A call that changes the list sets its limits, and leaves merge() to be  *)
(* started, or not.                                                        *)
LEMMA ChangeKeeps ==
    ASSUME Types, NEW l \in Seq(Interval), Call, Change(l)
    PROVE  /\ kind' \in {"GGti", "GEbounds"} /\ list' = l /\ list' \in Seq(Interval)
           /\ merged' \in BOOLEAN /\ calls' \in 0..MaxCalls /\ pc = "idle"
           /\ LimitsInv'
<1>1. /\ kind' = kind /\ list' = l
      /\ first' = (IF l = <<>> THEN 0 ELSE Min(Starts(l)))
      /\ last' = (IF l = <<>> THEN 0 ELSE Max(Stops(l)))
      /\ ontime' = (IF kind = "GGti" THEN Duration(l) ELSE 0)
      /\ merged' = FALSE
  BY DEF Change, SetAttributes
<1>2. pc = "idle" /\ calls' \in 0..MaxCalls
  BY DEF Call, Types
<1>3. LimitsInv'
  BY <1>1 DEF LimitsInv
<1> QED
  BY <1>1, <1>2, <1>3 DEF Types

LEMMA StayKeeps ==
    ASSUME Types, pc = "idle", Stay
    PROVE  pc' \in {"idle", "merge"} /\ i' \in Nat \ {0} /\ LoopInv'
BY DEF Types, Stay, LoopInv

LEMMA StartMergeKeeps ==
    ASSUME list' \in Seq(Interval), Ordered(list)', StartMerge
    PROVE  pc' \in {"idle", "merge"} /\ i' \in Nat \ {0} /\ LoopInv'
<1>1. pc' = "merge" /\ i' = 1
  BY DEF StartMerge
<1>2. \A j \in DOMAIN list' : ~ (j < 1)
  OBVIOUS
<1> QED
  BY <1>1, <1>2 DEF LoopInv

LEMMA AppendKeeps ==
    ASSUME IInv, NEW a \in Bounds, NEW b \in Bounds, AppendInterval(a, b)
    PROVE  IInv'
<1> DEFINE l == InsertedAt(list, Len(list) + 1, a, b)
<1>1. list \in Seq(Interval) /\ Len(list) + 1 \in 1..(Len(list) + 1) /\ a \in Int /\ b \in Int
  BY DEF IInv, Types
<1>2. l \in Seq(Interval) /\ Covered(l) = Covered(list) \cup Between(a, b)
  BY <1>1, InsertedType, InsertedCovers
<1> HIDE DEF l
<1>3. /\ Types /\ Call /\ Change(l) /\ Stay /\ Covered(list) = meant
      /\ meant' = meant \cup Between(a, b)
  BY DEF AppendInterval, IInv, SameInstants, l
<1>4. /\ kind' \in {"GGti", "GEbounds"} /\ list' = l /\ list' \in Seq(Interval)
      /\ merged' \in BOOLEAN /\ calls' \in 0..MaxCalls /\ pc = "idle"
      /\ LimitsInv'
  BY <1>2, <1>3, ChangeKeeps
<1>5. pc' \in {"idle", "merge"} /\ i' \in Nat \ {0} /\ LoopInv'
  BY <1>3, <1>4, StayKeeps
<1>6. Covered(list') = meant'
  BY <1>2, <1>3, <1>4
<1> QED
  BY <1>4, <1>5, <1>6 DEF IInv, Types, SameInstants, Covered

LEMMA InsertKeeps ==
    ASSUME IInv, NEW a \in Bounds, NEW b \in Bounds, Insert(a, b)
    PROVE  IInv'
<1>1. PICK k \in 1..(Len(list) + 1) :
          IsPlace(list, k, a) /\ Change(InsertedAt(list, k, a, b))
  BY DEF Insert
<1> DEFINE l == InsertedAt(list, k, a, b)
<1>2. list \in Seq(Interval) /\ a \in Int /\ b \in Int
  BY DEF IInv, Types
<1>3. l \in Seq(Interval) /\ Covered(l) = Covered(list) \cup Between(a, b)
  BY <1>2, InsertedType, InsertedCovers
<1>4. Change(l)
  BY <1>1
<1> HIDE DEF l
<1>5. /\ Types /\ Call /\ Stay /\ Covered(list) = meant
      /\ meant' = meant \cup Between(a, b)
  BY DEF Insert, IInv, SameInstants
<1>6. /\ kind' \in {"GGti", "GEbounds"} /\ list' = l /\ list' \in Seq(Interval)
      /\ merged' \in BOOLEAN /\ calls' \in 0..MaxCalls /\ pc = "idle"
      /\ LimitsInv'
  BY <1>3, <1>4, <1>5, ChangeKeeps
<1>7. pc' \in {"idle", "merge"} /\ i' \in Nat \ {0} /\ LoopInv'
  BY <1>5, <1>6, StayKeeps
<1>8. Covered(list') = meant'
  BY <1>3, <1>5, <1>6
<1> QED
  BY <1>6, <1>7, <1>8 DEF IInv, Types, SameInstants, Covered

LEMMA MergeKeeps ==
    ASSUME IInv, Merge
    PROVE  IInv'
<1>1. /\ Call /\ Ordered(list) /\ StartMerge
      /\ UNCHANGED <<kind, list, attributes, meant>>
  BY DEF Merge
<1>2. /\ kind' \in {"GGti", "GEbounds"} /\ list' = list /\ list' \in Seq(Interval)
      /\ merged' \in BOOLEAN /\ calls' \in 0..MaxCalls
  BY <1>1 DEF IInv, Types, attributes, Call
<1>3. Ordered(list)'
  BY <1>1, <1>2 DEF Ordered
<1>4. pc' \in {"idle", "merge"} /\ i' \in Nat \ {0} /\ LoopInv'
  BY <1>1, <1>2, <1>3, StartMergeKeeps
<1>5. LimitsInv'
  BY <1>1 DEF IInv, LimitsInv, attributes
<1>6. SameInstants'
  BY <1>1, <1>2 DEF IInv, SameInstants, Covered
<1> QED
  BY <1>2, <1>4, <1>5, <1>6 DEF IInv, Types

LEMMA MergeInKeeps ==
    ASSUME Careful, IInv, NEW a \in Bounds, NEW b \in Bounds, MergeIn(a, b)
    PROVE  IInv'
<1>1. PICK k \in 1..(Len(list) + 1) :
          /\ IsPlace(list, k, a)
          /\ \A j \in k..Len(list) : a <= list[j].start
          /\ Change(InsertedAt(list, k, a, b))
  BY DEF MergeIn
<1> DEFINE l == InsertedAt(list, k, a, b)
<1>2. list \in Seq(Interval) /\ a \in Int /\ b \in Int /\ Ordered(list)
  BY DEF IInv, Types, MergeIn
<1>3. l \in Seq(Interval) /\ Covered(l) = Covered(list) \cup Between(a, b)
  BY <1>2, InsertedType, InsertedCovers
<1>4. \A j \in 1..(k - 1) : list[j].start <= a
  BY <1>1 DEF IsPlace
<1>5. Ordered(l)
  BY <1>1, <1>2, <1>4, InsertedInOrder
<1>6. Change(l)
  BY <1>1
<1> HIDE DEF l
<1>7. /\ Types /\ Call /\ StartMerge /\ Covered(list) = meant
      /\ meant' = meant \cup Between(a, b)
  BY DEF MergeIn, IInv, SameInstants
<1>8. /\ kind' \in {"GGti", "GEbounds"} /\ list' = l /\ list' \in Seq(Interval)
      /\ merged' \in BOOLEAN /\ calls' \in 0..MaxCalls /\ pc = "idle"
      /\ LimitsInv'
  BY <1>3, <1>6, <1>7, ChangeKeeps
<1>9. Ordered(list)'
  BY <1>5, <1>8 DEF Ordered
<1>10. pc' \in {"idle", "merge"} /\ i' \in Nat \ {0} /\ LoopInv'
  BY <1>7, <1>8, <1>9, StartMergeKeeps
<1>11. Covered(list') = meant'
  BY <1>3, <1>7, <1>8
<1> QED
  BY <1>8, <1>10, <1>11 DEF IInv, Types, SameInstants, Covered

LEMMA MergePairKeeps ==
    ASSUME IInv, MergePair
    PROVE  IInv'
<1>1. /\ list \in Seq(Interval) /\ i \in Nat \ {0} /\ i < Len(list) /\ Ordered(list)
      /\ list[i + 1].start <= list[i].stop
      /\ \A j, k \in DOMAIN list : j < i /\ j < k => list[j].stop < list[k].start
  BY DEF MergePair, IInv, Types, LoopInv, Overlap
<1>2. /\ list' = Joined(list, i) /\ merged' = TRUE
      /\ UNCHANGED <<kind, first, last, ontime, pc, i, meant, calls>>
  BY DEF MergePair, Joined
<1>3. Joined(list, i) \in Seq(Interval)
  BY <1>1, JoinedType
<1>4. Covered(Joined(list, i)) = Covered(list)
  BY <1>1, JoinedCovers
<1>5. /\ Ordered(Joined(list, i))
      /\ \A j, k \in DOMAIN Joined(list, i) :
            j < i /\ j < k => Joined(list, i)[j].stop < Joined(list, i)[k].start
  BY <1>1, JoinedInOrder
<1>6. /\ Joined(list, i) # <<>> /\ list # <<>>
      /\ Min(Starts(list)) = Min(Starts(Joined(list, i)))
      /\ Max(Stops(list)) = Max(Stops(Joined(list, i)))
  BY <1>1, JoinedLimits
<1>7. Types'
  BY <1>2, <1>3 DEF IInv, Types
<1>8. LoopInv'
  <2>1. Ordered(list)'
    BY <1>2, <1>5 DEF Ordered
  <2>2. \A j, k \in DOMAIN list' : j < i' /\ j < k => list'[j].stop < list'[k].start
    BY <1>2, <1>5
  <2> QED
    BY <2>1, <2>2 DEF LoopInv
<1>9. LimitsInv'
  BY <1>2, <1>6 DEF IInv, LimitsInv
<1>10. SameInstants'
  BY <1>2, <1>4 DEF IInv, SameInstants, Covered
<1> QED
  BY <1>7, <1>8, <1>9, <1>10 DEF IInv

LEMMA MergeNextKeeps ==
    ASSUME IInv, MergeNext
    PROVE  IInv'
<1>1. /\ list \in Seq(Interval) /\ i \in Nat \ {0} /\ i < Len(list) /\ Ordered(list)
      /\ ~ (list[i + 1].start <= list[i].stop)
      /\ \A j, k \in DOMAIN list : j < i /\ j < k => list[j].stop < list[k].start
  BY DEF MergeNext, IInv, Types, LoopInv, Overlap
<1>2. i' = i + 1 /\ UNCHANGED <<kind, list, attributes, pc, meant, calls>>
  BY DEF MergeNext
<1>3. ASSUME NEW j \in DOMAIN list, NEW k \in DOMAIN list, j < i + 1, j < k
      PROVE  list[j].stop < list[k].start
  <2>1. CASE j < i
    BY <1>1, <1>3, <2>1
  <2>2. CASE j = i
    <3>1. i + 1 \in DOMAIN list /\ (k = i + 1 \/ i + 1 < k)
      BY <1>1, <1>3, <2>2
    <3>2. list[i + 1].start <= list[k].start
      <4>1. CASE k = i + 1
        BY <1>1, <3>1, <4>1, ElementOfList
      <4>2. CASE i + 1 < k
        BY <1>1, <3>1, <4>2 DEF Ordered
      <4> QED
        BY <3>1, <4>1, <4>2
    <3>3. list[i].stop \in Int /\ list[i + 1].start \in Int /\ list[k].start \in Int
      BY <1>1, <2>2, <3>1, ElementOfList
    <3> QED
      BY <1>1, <2>2, <3>2, <3>3
  <2> QED
    BY <1>1, <1>3, <2>1, <2>2
<1>4. Types'
  BY <1>1, <1>2 DEF IInv, Types, attributes
<1>5. LoopInv'
  <2>1. Ordered(list)'
    BY <1>1, <1>2 DEF Ordered
  <2>2. \A j, k \in DOMAIN list' : j < i' /\ j < k => list'[j].stop < list'[k].start
    BY <1>2, <1>3
  <2> QED
    BY <2>1, <2>2 DEF LoopInv
<1>6. LimitsInv'
  BY <1>2 DEF IInv, LimitsInv, attributes
<1>7. SameInstants'
  BY <1>2 DEF IInv, SameInstants, Covered
<1> QED
  BY <1>4, <1>5, <1>6, <1>7 DEF IInv

LEMMA MergeEndsKeeps ==
    ASSUME IInv, MergeEnds
    PROVE  IInv'
<1>1. pc' = "idle" /\ UNCHANGED <<kind, list, attributes, i, meant, calls>>
  BY DEF MergeEnds
<1>2. Types'
  BY <1>1 DEF IInv, Types, attributes
<1>3. LoopInv'
  BY <1>1 DEF LoopInv
<1>4. LimitsInv'
  BY <1>1 DEF IInv, LimitsInv, attributes
<1>5. SameInstants'
  BY <1>1 DEF IInv, SameInstants, Covered
<1> QED
  BY <1>2, <1>3, <1>4, <1>5 DEF IInv

(* The other calls change the list in one step.                            *)
LEMMA OneStepKeeps ==
    ASSUME IInv, NEW l \in Seq(Interval), Call, Change(l), Stay, meant' = Covered(l)
    PROVE  IInv'
<1>1. /\ kind' \in {"GGti", "GEbounds"} /\ list' = l /\ list' \in Seq(Interval)
      /\ merged' \in BOOLEAN /\ calls' \in 0..MaxCalls /\ pc = "idle"
      /\ LimitsInv'
  BY ChangeKeeps DEF IInv
<1>2. pc' \in {"idle", "merge"} /\ i' \in Nat \ {0} /\ LoopInv'
  BY <1>1, StayKeeps DEF IInv
<1>3. SameInstants'
  BY <1>1 DEF SameInstants, Covered
<1> QED
  BY <1>1, <1>2, <1>3 DEF IInv, Types

LEMMA ReduceKeeps ==
    ASSUME IInv, NEW a \in Bounds, NEW b \in Bounds, Reduce(a, b)
    PROVE  IInv'
<1>1. PICK n \in 0..Len(list) :
        /\ \A k \in DOMAIN list :
              k <= n <=> Limited(list, a, b)[k].start <= Limited(list, a, b)[k].stop
        /\ Change([k \in 1..n |-> Limited(list, a, b)[k]])
  BY DEF Reduce
<1> DEFINE l == [k \in 1..n |-> Limited(list, a, b)[k]]
<1>2. list \in Seq(Interval) /\ a \in Int /\ b \in Int
  BY DEF IInv, Types
<1>3. l \in Seq(Interval) /\ Covered(l) = Covered(list) \cap Between(a, b)
  BY <1>1, <1>2, ReducedCovers
<1>4. Change(l)
  BY <1>1
<1> HIDE DEF l
<1>5. Call /\ Stay /\ meant' = meant \cap Between(a, b) /\ Covered(list) = meant
  BY DEF Reduce, IInv, SameInstants
<1> QED
  BY <1>3, <1>4, <1>5, OneStepKeeps

LEMMA RemoveKeeps ==
    ASSUME Careful, IInv, NEW k \in DOMAIN list, Remove(k)
    PROVE  IInv'
<1>1. list \in Seq(Interval) /\ (kind = "GGti" \/ k = Len(list))
  BY DEF IInv, Types, Remove
<1>2. /\ Removed(list, k) \in Seq(Interval)
      /\ Covered(Removed(list, k)) =
           {t \in Instants : \E j \in DOMAIN list \ {k} : list[j].start <= t /\ t <= list[j].stop}
  BY <1>1, RemovedCovers
<1>3. Call /\ Change(Removed(list, k)) /\ Stay /\ meant' = Covered(Removed(list, k))
  BY <1>2 DEF Remove
<1> QED
  BY <1>2, <1>3, OneStepKeeps

LEMMA ExtendKeeps ==
    ASSUME IInv, NEW l \in Others, Extend(l)
    PROVE  IInv'
<1>1. list \in Seq(Interval) /\ l \in Seq(Interval)
  BY DEF IInv, Types
<1>2. list \o l \in Seq(Interval) /\ Covered(list \o l) = Covered(list) \cup Covered(l)
  BY <1>1, JoinedListsCover
<1>3. Call /\ Change(list \o l) /\ Stay /\ meant' = Covered(list) \cup Covered(l)
  BY DEF Extend, IInv, SameInstants
<1> QED
  BY <1>2, <1>3, OneStepKeeps

LEMMA ReadKeeps ==
    ASSUME IInv, NEW l \in Others, Read(l)
    PROVE  IInv'
<1>1. l \in Seq(Interval)
  OBVIOUS
<1>2. Call /\ Change(l) /\ Stay /\ meant' = Covered(l)
  BY DEF Read
<1> QED
  BY <1>1, <1>2, OneStepKeeps

LEMMA SetBinsKeeps ==
    ASSUME IInv, NEW n \in Nat \ {0}, NEW a \in Bounds, NEW width \in Nat,
           SetBins(n, a, width)
    PROVE  IInv'
<1> DEFINE bins == [k \in 1..n |-> [start |-> a + (k - 1) * width, stop |-> a + k * width]]
<1>1. a \in Int
  OBVIOUS
<1>2. bins \in Seq(Interval) /\ Covered(bins) = Between(a, a + n * width)
  BY <1>1, BinsCover
<1>3. Call /\ Change(bins) /\ Stay /\ meant' = Between(a, a + n * width)
  BY DEF SetBins
<1> HIDE DEF bins
<1> QED
  BY <1>2, <1>3, OneStepKeeps

LEMMA ClearKeeps ==
    ASSUME IInv, Clear
    PROVE  IInv'
<1>1. <<>> \in Seq(Interval) /\ Covered(<<>>) = {}
  BY DEF Covered
<1>2. Call /\ Change(<<>>) /\ Stay /\ meant' = Covered(<<>>)
  BY <1>1 DEF Clear
<1> QED
  BY <1>1, <1>2, OneStepKeeps

LEMMA StutterKeeps ==
    ASSUME IInv, UNCHANGED vars
    PROVE  IInv'
<1>1. UNCHANGED <<kind, list, first, last, ontime, merged, pc, i, meant, calls>>
  BY DEF vars, attributes
<1> QED
  BY <1>1 DEF IInv, Types, LoopInv, LimitsInv, SameInstants, Covered, Ordered

LEMMA InitHolds == Init => IInv
<1> SUFFICES ASSUME Init PROVE IInv
  OBVIOUS
<1>1. <<>> \in Seq(Interval) /\ Covered(<<>>) = {}
  BY DEF Covered
<1>2. Types
  <2>1. 0 \in 0..MaxCalls /\ 1 \in Nat \ {0}
    OBVIOUS
  <2>2. list \in Seq(Interval)
    BY <1>1 DEF Init
  <2> QED
    BY <2>1, <2>2 DEF Init, Types
<1>3. SameInstants
  BY <1>1 DEF Init, SameInstants
<1>4. LoopInv
  BY DEF Init, LoopInv
<1>5. LimitsInv
  BY DEF Init, LimitsInv
<1> QED
  BY <1>2, <1>3, <1>4, <1>5 DEF IInv

-----------------------------------------------------------------------------
(* Theorems                                                                *)

(* Every call, and every round of merge(), keeps the invariant.            *)
LEMMA StepKeeps ==
    ASSUME Careful, IInv, [Next]_vars
    PROVE  IInv'
<1>1. ASSUME NEW a \in Bounds, NEW b \in Bounds,
             AppendInterval(a, b) \/ Insert(a, b) \/ MergeIn(a, b) \/ Reduce(a, b)
      PROVE  IInv'
  BY <1>1, AppendKeeps, InsertKeeps, MergeInKeeps, ReduceKeeps
<1>2. ASSUME NEW k \in DOMAIN list, Remove(k) PROVE IInv'
  BY <1>2, RemoveKeeps
<1>3. ASSUME NEW l \in Others, Extend(l) \/ Read(l) PROVE IInv'
  BY <1>3, ExtendKeeps, ReadKeeps
<1>4. ASSUME NEW n \in 1..MaxSize, NEW a \in Bounds, NEW width \in 0..2, SetBins(n, a, width)
      PROVE  IInv'
  <2>1. n \in Nat \ {0} /\ width \in Nat
    OBVIOUS
  <2> QED
    BY <1>4, <2>1, SetBinsKeeps
<1>5. CASE Clear
  BY <1>5, ClearKeeps
<1>6. CASE Merge \/ MergePair \/ MergeNext \/ MergeEnds
  BY <1>6, MergeKeeps, MergePairKeeps, MergeNextKeeps, MergeEndsKeeps
<1>7. CASE UNCHANGED vars
  BY <1>7, StutterKeeps
<1> QED
  BY <1>1, <1>2, <1>3, <1>4, <1>5, <1>6, <1>7 DEF Next

LEMMA Invariance == ASSUME Careful PROVE Spec => []IInv
<1>1. Init => IInv
  BY InitHolds
<1>2. IInv /\ [Next]_vars => IInv'
  BY StepKeeps
<1> QED
  BY <1>1, <1>2, PTL DEF Spec

(* The lists stay lists of intervals, with an index that is one, of        *)
(* clients that avoid what GGti and GEbounds do not survive.  That first,  *)
(* last and ontime are numbers is left to the runs.                        *)
THEOREM TypesKept == ASSUME Careful PROVE Spec => []Types
<1>1. IInv => Types
  BY DEF IInv
<1> QED
  BY <1>1, Invariance, PTL

(* SameInstants: whatever is appended, inserted, merged, reduced and       *)
(* removed, for any bounds and any number of intervals, contains() says    *)
(* what the calls have asked for.                                          *)
THEOREM InstantsKept == ASSUME Careful PROVE Spec => []SameInstants
<1>1. IInv => SameInstants
  BY DEF IInv
<1> QED
  BY <1>1, Invariance, PTL

(* MergeSeparates: a list that merge() has gone through is one of          *)
(* intervals that neither overlap nor connect.                             *)
THEOREM MergedAreApart == ASSUME Careful PROVE Spec => []MergeSeparates
<1>1. ASSUME IInv, AtEnd, NEW j \in DOMAIN list, NEW k \in DOMAIN list, j < k
      PROVE  list[j].stop < list[k].start
  <2>1. list \in Seq(Interval) /\ i \in Nat \ {0} /\ pc = "merge" /\ i >= Len(list)
    BY <1>1 DEF IInv, Types, AtEnd
  <2>2. j < i
    BY <1>1, <2>1
  <2> QED
    BY <1>1, <2>1, <2>2 DEF IInv, LoopInv
<1>2. IInv => MergeSeparates
  BY <1>1 DEF MergeSeparates
<1> QED
  BY <1>2, Invariance, PTL

(* AttributesAreCurrent: first and last instant are those of the list,     *)
(* after merge() too, and the on-time is its sum until intervals are       *)
(* merged.                                                                 *)
THEOREM AttributesKept == ASSUME Careful PROVE Spec => []AttributesAreCurrent
<1>1. IInv => AttributesAreCurrent
  BY DEF IInv, LimitsInv, AttributesAreCurrent
<1> QED
  BY <1>1, Invariance, PTL
=============================================================================

---------------------------- MODULE IntervalLists ----------------------------
(***************************************************************************)
(* The lists of good time intervals (src/src/obs/GGti.cpp) and of energy   *)
(* intervals (src/src/obs/GEbounds.cpp).  The two classes are written      *)
(* alike; where they differ, kind tells which one the list is.  A call of  *)
(* an object that belongs to one thread is one step, but for the loop of   *)
(* merge(), which is a step per round.                                     *)
(*                                                                         *)
(* A time or an energy is an integer; its scale and its unit are left out, *)
(* as GTime and GEnergy convert them when they are set and when they are   *)
(* read.                                                                   *)
(***************************************************************************)
EXTENDS Integers, Sequences, FiniteSets, FiniteSetsExt

CONSTANTS
    Bounds,        \* starts and stops that clients pass
    Instants,      \* the instants that are told apart
    Others,        \* lists that are read from files, or appended
    Careful,       \* clients avoid the calls that lists do not survive
    MaxSize,       \* bound: intervals of a list
    MaxCalls       \* bound: number of calls

Interval == [start : Int, stop : Int]

ASSUME IntervalAssumption ==
    /\ Bounds \subseteq Int /\ Instants \subseteq Int
    /\ Others \subseteq Seq(Interval)
    /\ Careful \in BOOLEAN /\ MaxSize \in Nat /\ MaxCalls \in Nat

VARIABLES
    kind,          \* "GGti" or "GEbounds"
    list,          \* m_start and m_stop, or m_min and m_max, up to m_num
    first, last,   \* m_tstart and m_tstop, or m_emin and m_emax
    ontime,        \* m_ontime of good time intervals
    pc, i,         \* "merge" in the loop of merge(), and its index
    meant,         \* history: the instants that the calls have asked for
    merged,        \* history: intervals were merged since set_attributes()
    calls          \* number of calls

attributes == <<first, last, ontime, merged>>
vars == <<kind, list, attributes, pc, i, meant, calls>>

Lesser(a, b) == IF a < b THEN a ELSE b
Greater(a, b) == IF a > b THEN a ELSE b

(* contains() of an instant.                                               *)
Between(a, b) == {t \in Instants : a <= t /\ t <= b}
Covered(l) == {t \in Instants : \E k \in DOMAIN l : l[k].start <= t /\ t <= l[k].stop}

Ordered(l) == \A j, k \in DOMAIN l : j < k => l[j].start <= l[k].start

Starts(l) == {l[k].start : k \in DOMAIN l}
Stops(l) == {l[k].stop : k \in DOMAIN l}
Duration(l) == MapThenSumSet(LAMBDA k : l[k].stop - l[k].start, DOMAIN l)

Init ==
    /\ kind \in {"GGti", "GEbounds"}
    /\ list = <<>>
    /\ first = 0 /\ last = 0 /\ ontime = 0
    /\ pc = "idle" /\ i = 1
    /\ meant = {}
    /\ merged = FALSE
    /\ calls = 0

-----------------------------------------------------------------------------
Call == pc = "idle" /\ calls < MaxCalls /\ calls' = calls + 1

MutantKeepsAttributes(l) == UNCHANGED attributes

SetAttributes(l) ==
    /\ first' = IF l = <<>> THEN 0 ELSE Min(Starts(l))
    /\ last' = IF l = <<>> THEN 0 ELSE Max(Stops(l))
    /\ ontime' = IF kind = "GGti" THEN Duration(l) ELSE 0
    /\ merged' = FALSE

Change(l) ==
    /\ Len(l) <= MaxSize
    /\ list' = l
    /\ SetAttributes(l)
    /\ UNCHANGED kind

Stay == UNCHANGED <<pc, i>>

(* insert_gti() and insert_eng().                                          *)
InsertedAt(l, k, a, b) ==
    [j \in 1..(Len(l) + 1) |->
        IF j < k THEN l[j]
        ELSE IF j = k THEN [start |-> a, stop |-> b]
        ELSE l[j - 1]]

(* The place before the first interval that starts later.  GGti looks for  *)
(* it, and forgets to store what it has found.                             *)
IsPlace(l, k, a) ==
    IF kind = "GGti" THEN k = 1
    ELSE /\ \A j \in 1..(k - 1) : l[j].start <= a
         /\ k \in DOMAIN l => a < l[k].start

AppendInterval(a, b) ==
    /\ Call
    /\ Change(InsertedAt(list, Len(list) + 1, a, b))
    /\ meant' = meant \cup Between(a, b)
    /\ Stay

Insert(a, b) ==
    /\ Call
    /\ \E k \in 1..(Len(list) + 1) :
          IsPlace(list, k, a) /\ Change(InsertedAt(list, k, a, b))
    /\ meant' = meant \cup Between(a, b)
    /\ Stay

-----------------------------------------------------------------------------
(* merge(): "The method implicitely assumes that the intervals are ordered *)
(* by increasing start time".  The interval that GGti::merge() inserts in  *)
(* front is in order if it starts before the others.                       *)

StartMerge == pc' = "merge" /\ i' = 1

Merge ==
    /\ Call
    /\ Ordered(list)
    /\ StartMerge
    /\ UNCHANGED <<kind, list, attributes, meant>>

MergeIn(a, b) ==
    /\ Call
    /\ Ordered(list)
    /\ \E k \in 1..(Len(list) + 1) :
          /\ IsPlace(list, k, a)
          /\ Careful => \A j \in k..Len(list) : a <= list[j].start
          /\ Change(InsertedAt(list, k, a, b))
    /\ meant' = meant \cup Between(a, b)
    /\ StartMerge

Overlap == list[i + 1].start <= list[i].stop

MutantTakesStop(x, y) == [start |-> Lesser(x.start, y.start), stop |-> y.stop]

Hull(x, y) == [start |-> Lesser(x.start, y.start), stop |-> Greater(x.stop, y.stop)]

MergePair ==
    /\ pc = "merge" /\ i < Len(list) /\ Overlap
    /\ list' = [k \in 1..(Len(list) - 1) |->
                   IF k < i THEN list[k]
                   ELSE IF k = i THEN Hull(list[i], list[i + 1])
                   ELSE list[k + 1]]
    /\ merged' = TRUE
    /\ UNCHANGED <<kind, first, last, ontime, pc, i, meant, calls>>

(* The index stays at an interval that was merged, which may overlap with  *)
(* its new successor.                                                      *)
MergeNext ==
    /\ pc = "merge" /\ i < Len(list) /\ ~Overlap
    /\ i' = i + 1
    /\ UNCHANGED <<kind, list, attributes, pc, meant, calls>>

MutantEndsEarly == pc = "merge" /\ i >= Len(list) - 1

AtEnd == pc = "merge" /\ i >= Len(list)

MergeEnds ==
    /\ AtEnd
    /\ pc' = "idle"
    /\ UNCHANGED <<kind, list, attributes, i, meant, calls>>

-----------------------------------------------------------------------------
(* reduce() limits all intervals and keeps those that are not empty.  It   *)
(* copies them to new memory for their number at their old indices: what   *)
(* happens when one before them is dropped is undefined.                   *)
Limited(l, a, b) ==
    [k \in DOMAIN l |-> [start |-> Greater(l[k].start, a), stop |-> Lesser(l[k].stop, b)]]

Reduce(a, b) ==
    LET limited == Limited(list, a, b)
    IN  /\ Call /\ kind = "GGti"
        /\ \E n \in 0..Len(list) :
              /\ \A k \in DOMAIN list :
                    k <= n <=> limited[k].start <= limited[k].stop
              /\ Change([k \in 1..n |-> limited[k]])
        /\ meant' = meant \cap Between(a, b)
        /\ Stay

(* remove(): GEbounds moves the upper limits to the lower ones.            *)
Removed(l, k) ==
    [j \in 1..(Len(l) - 1) |->
        IF j < k THEN l[j]
        ELSE IF kind = "GGti" THEN l[j + 1]
        ELSE [start |-> l[j + 1].stop, stop |-> l[j].stop]]

Remove(k) ==
    /\ Call
    /\ Careful => kind = "GGti" \/ k = Len(list)
    /\ Change(Removed(list, k))
    /\ meant' = {t \in Instants : \E j \in DOMAIN list \ {k} :
                                      list[j].start <= t /\ t <= list[j].stop}
    /\ Stay

(* extend(), read(), and set_lin() and set_log(), which append intervals   *)
(* that connect.                                                           *)
Extend(l) ==
    /\ Call /\ l # <<>>
    /\ Change(list \o l)
    /\ meant' = meant \cup Covered(l)
    /\ Stay

Read(l) ==
    /\ Call
    /\ Change(l)
    /\ meant' = Covered(l)
    /\ Stay

SetBins(n, a, width) ==
    LET bins == [k \in 1..n |-> [start |-> a + (k - 1) * width, stop |-> a + k * width]]
    IN  /\ Call /\ kind = "GEbounds"
        /\ Change(bins)
        /\ meant' = IF n = 0 THEN {} ELSE Between(a, a + n * width)
        /\ Stay

Clear ==
    /\ Call
    /\ Change(<<>>)
    /\ meant' = {}
    /\ Stay

Next ==
    \/ \E a, b \in Bounds :
          a <= b /\ (AppendInterval(a, b) \/ Insert(a, b) \/ MergeIn(a, b) \/ Reduce(a, b))
    \/ \E k \in DOMAIN list : Remove(k)
    \/ \E l \in Others : Extend(l) \/ Read(l)
    \/ \E n \in 1..MaxSize, a \in Bounds, width \in 0..2 : SetBins(n, a, width)
    \/ Clear
    \/ Merge \/ MergePair \/ MergeNext \/ MergeEnds

Spec == Init /\ [][Next]_vars

-----------------------------------------------------------------------------
(* Properties                                                              *)

(* Whatever was appended, inserted, merged, reduced and removed, contains()*)
(* says what the calls have asked for, and no round of merge() changes it. *)
SameInstants == Covered(list) = meant

(* When merge() is done, each interval ends before the next one begins.    *)
MergeSeparates ==
    AtEnd => \A j, k \in DOMAIN list : j < k => list[j].stop < list[k].start

(* First and last instant are those of the list, after merge() too, which  *)
(* does not set them; the on-time is the sum of the intervals, unless some *)
(* were merged, whose overlap it then still counts twice.                  *)
AttributesAreCurrent ==
    pc = "idle" =>
        IF list = <<>> THEN first = 0 /\ last = 0
        ELSE /\ first = Min(Starts(list)) /\ last = Max(Stops(list))
             /\ kind = "GGti" /\ ~merged => ontime = Duration(list)

(* merge() "then merges any overlapping or connecting Good Time Intervals":*)
(* what the list contains stays the same while they are merged.            *)
MergeAddsNothing == [][pc = "merge" => Covered(list') \subseteq Covered(list)]_vars
=============================================================================

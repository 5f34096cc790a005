-------------------- MODULE GObservationsLikelihood_proof --------------------
(***************************************************************************)
(* What holds of the evaluation of the likelihood for any number of        *)
(* threads and observations.                                               *)
(***************************************************************************)
EXTENDS GObservationsLikelihood, SequenceTheorems, TLAPS

USE EvalAssumption

(* The sum in which the observations of a set are counted once.            *)
Ones(S) == [o \in Obs |-> IF o \in S THEN 1 ELSE 0]

Registered == {t \in team : pc[t] \in {"loop", "barrier", "joined"}}

(* Each observation is given to one thread of the team.                    *)
Shared ==
    /\ \A o \in Obs : \E t \in team : o \in share[t]
    /\ \A t, u \in team : share[t] \cap share[u] # {} => t = u

(* A thread in the parallel region: what it has counted, on the stack or   *)
(* not, is what it has computed.                                           *)
CountedDone(t) ==
    /\ stacked[t] \subseteq share[t] \cap done
    /\ \A q \in Quantities \ {"curvature"} : copy[t][q] = Ones(share[t] \cap done)
    /\ copy[t]["curvature"] = Ones((share[t] \cap done) \ stacked[t])

ThreadInv(t) ==
    /\ pc[t] # "out"
    /\ pc[t] \in {"allocate", "register", "push"} => share[t] \cap done = {}
    /\ pc[t] # "allocate" => CountedDone(t)
    /\ pc[t] \in {"barrier", "joined"} => share[t] \subseteq done
    /\ pc[t] = "joined" => stacked[t] = {}
    /\ pc[t] = "push" => slot[t] = Len(vect["value"])
    /\ \A u \in team : pc[t] = "push" /\ pc[u] = "push" => t = u

(* The lists are equal, and hold each thread that has registered once.     *)
ListsInv ==
    /\ \A q \in Quantities : vect[q] = vect["value"]
    /\ {vect["value"][i] : i \in 1..Len(vect["value"])} = Registered
    /\ \A i, j \in 1..Len(vect["value"]) : vect["value"][i] = vect["value"][j] => i = j

TeamInv == Shared /\ ListsInv /\ \A t \in team : ThreadInv(t)

ParallelInv ==
    main = "parallel" =>
        /\ TeamInv
        /\ \A t \in Threads \ team : pc[t] = "out"
        /\ alive = {t \in team : pc[t] # "allocate"} \X Quantities
        /\ \A q \in Quantities : result[q] = Nothing

(* In the sections, each result is complete, untouched, or the sum of the  *)
(* copies before the index.                                                *)
Merged == UNION {share[vect["value"][i]] : i \in 1..(index - 1)}

MergeInv ==
    main = "merge" =>
        /\ TeamInv /\ AllJoined
        /\ index \in 1..(Len(vect["value"]) + 1)
        /\ \A s \in 1..4 :
              /\ s < section => result[Sections[s]] = Everything
              /\ s = section => result[Sections[s]] = Ones(Merged)
              /\ s > section => result[Sections[s]] = Nothing
        /\ \A t \in Threads, s \in 1..4 : <<t, Sections[s]>> \in alive <=>
              /\ t \in team
              /\ \/ s > section
                 \/ s = section /\ \E i \in index..Len(vect["value"]) : vect["value"][i] = t

DeliverInv ==
    main = "deliver" =>
        /\ TeamInv /\ AllJoined
        /\ \A q \in Quantities : result[q] = Everything
        /\ alive = {}

IdleInv == main = "idle" => alive = {}

IInv == TypeOK /\ ParallelInv /\ MergeInv /\ DeliverInv /\ IdleInv

-----------------------------------------------------------------------------
(* Sums and sections                                                       *)

LEMMA SectionList ==
    /\ Len(Sections) = 4
    /\ \A s \in 1..4 : Sections[s] \in Quantities
    /\ \A q \in Quantities : \E s \in 1..4 : Sections[s] = q
    /\ \A r, s \in 1..4 : Sections[r] = Sections[s] => r = s
BY DEF Sections, Quantities

LEMMA OnesType == \A S : Ones(S) \in [Obs -> Nat]
BY DEF Ones

LEMMA SumsOfOnes ==
    /\ Nothing = Ones({})
    /\ Everything = Ones(Obs)
    /\ \A A : With(Ones(A), {}) = Ones(A)
    /\ \A A, B : A \cap B = {} => With(Ones(A), B) = Ones(A \cup B)
    /\ \A A, B : A \cap B = {} => Sum(Ones(A), Ones(B)) = Ones(A \cup B)
BY DEF Nothing, Everything, Ones, With, Sum

-----------------------------------------------------------------------------
(* Types                                                                   *)

LEMMA FullSubSeq ==
    ASSUME NEW S, NEW s \in Seq(S), NEW n, n = Len(s)
    PROVE  SubSeq(s, 1, n) = s
<1>1. Len(s) \in Nat /\ \A i \in 1..Len(s) : s[i] \in S
  BY LenProperties, ElementOfSeq
<1>2. /\ SubSeq(s, 1, n) \in Seq(S)
      /\ Len(SubSeq(s, 1, n)) = IF 1 <= n THEN n - 1 + 1 ELSE 0
      /\ \A i \in 1..(n - 1 + 1) : SubSeq(s, 1, n)[i] = s[1 + i - 1]
  BY <1>1, SubSeqProperties
<1>3. Len(SubSeq(s, 1, n)) = Len(s) /\ \A i \in 1..Len(s) : SubSeq(s, 1, n)[i] = s[i]
  BY <1>1, <1>2
<1> QED
  BY <1>2, <1>3, SeqEqual

(* A thread that writes behind the last element extends the lists.         *)
LEMMA ListsExtended ==
    ASSUME IInv, NEW t \in Threads, PushBack(t)
    PROVE  /\ vect' = [q \in Quantities |-> Append(vect[q], t)]
           /\ \A q \in Quantities : Append(vect[q], t) \in Seq(Threads)
<1>1. t \in team /\ pc[t] = "push" /\ TeamInv
  BY DEF IInv, ParallelInv, PushBack, At
<1>2. slot[t] = Len(vect["value"])
  BY <1>1 DEF TeamInv, ThreadInv
<1>3. ASSUME NEW q \in Quantities
      PROVE  /\ vect[q] \in Seq(Threads)
             /\ SubSeq(vect[q], 1, slot[t]) = vect[q]
  <2>1. vect[q] \in Seq(Threads)
    BY DEF IInv, TypeOK
  <2>2. slot[t] = Len(vect[q])
    BY <1>1, <1>2 DEF TeamInv, ListsInv
  <2> QED
    BY <2>1, <2>2, FullSubSeq
<1>4. vect' = [q \in Quantities |-> Append(SubSeq(vect[q], 1, slot[t]), t)]
  BY DEF PushBack
<1> QED
  BY <1>3, <1>4, AppendProperties

LEMMA TypeStep == IInv /\ [Next]_vars => TypeOK'
<1> SUFFICES ASSUME IInv, [Next]_vars PROVE TypeOK'
  OBVIOUS
<1> TypeOK
  BY DEF IInv
<1> USE DEF TypeOK, Places
<1>a. Nothing \in [Obs -> Nat]
  BY DEF Nothing
<1>1. CASE UNCHANGED vars
  BY <1>1 DEF vars
<1>2. ASSUME NEW T \in (SUBSET Threads) \ {{}}, NEW f \in [Obs -> T], Eval(T, f)
      PROVE  TypeOK'
  <2>1. share' \in [Threads -> SUBSET Obs]
    BY <1>2 DEF Eval, Shares
  <2>2. evals' \in 0..MaxEvals
    BY <1>2 DEF Eval
  <2>3. vect' \in [Quantities -> Seq(Threads)]
    BY <1>2, EmptySeq DEF Eval
  <2> QED
    BY <1>2, <1>a, <2>1, <2>2, <2>3 DEF Eval, Cleared
<1>3. CASE EvalNothing
  BY <1>3 DEF EvalNothing
<1>4. ASSUME NEW t \in Threads, Allocate(t) PROVE TypeOK'
  BY <1>4, <1>a DEF Allocate, GoTo
<1>5. ASSUME NEW t \in Threads, EnterCritical(t) PROVE TypeOK'
  <2>1. Len(vect["value"]) \in Nat
    BY LenProperties DEF Quantities
  <2> QED
    BY <1>5, <2>1 DEF EnterCritical, GoTo
<1>6. ASSUME NEW t \in Threads, PushBack(t) PROVE TypeOK'
  <2>1. vect' \in [Quantities -> Seq(Threads)]
    BY <1>6, ListsExtended
  <2> QED
    BY <1>6, <2>1 DEF PushBack, GoTo
<1>7. ASSUME NEW t \in Threads, NEW o \in Obs, NEW flushed \in BOOLEAN, Compute(t, o, flushed)
      PROVE  TypeOK'
  <2>1. Counted(t, o, flushed) \in [Quantities -> [Obs -> Nat]]
    <3>1. \A q \in Quantities : copy[t][q] \in [Obs -> Nat]
      OBVIOUS
    <3>2. \A q \in Quantities : \A S : With(copy[t][q], S) \in [Obs -> Nat]
      BY <3>1 DEF With
    <3> QED
      BY <3>1, <3>2 DEF Counted
  <2> QED
    BY <1>7, <2>1 DEF Compute
<1>8. ASSUME NEW t \in Threads, NEW o \in Obs, LikelihoodThrows(t, o) PROVE TypeOK'
  BY <1>8 DEF LikelihoodThrows
<1>9. ASSUME NEW t \in Threads, LoopEnds(t) PROVE TypeOK'
  BY <1>9 DEF LoopEnds, GoTo
<1>10. ASSUME NEW t \in Threads, StackDestroy(t) PROVE TypeOK'
  <2>1. Flushed(t) \in [Obs -> Nat]
    <3>1. copy[t]["curvature"] \in [Obs -> Nat]
      BY DEF Quantities
    <3> QED
      BY <3>1 DEF Flushed, With
  <2> QED
    BY <1>10, <2>1 DEF StackDestroy, GoTo
<1>11. CASE Join
  BY <1>11, SectionList DEF Join
<1>12. CASE Merge
  <2>1. Sections[section] \in Quantities
    BY SectionList
  <2> DEFINE q == Sections[section]
             t == vect[q][index]
  <2>2. ASSUME index \in 1..Len(vect[q]) PROVE Sum(result[q], copy[t][q]) \in [Obs -> Nat]
    <3>1. t \in Threads
      BY <2>1, <2>2, ElementOfSeq
    <3>2. result[q] \in [Obs -> Nat] /\ copy[t][q] \in [Obs -> Nat]
      BY <2>1, <3>1
    <3> HIDE DEF q, t
    <3> QED
      BY <3>2 DEF Sum
  <2>3. index \in 1..Len(vect[q])
    BY <1>12, <2>1, LenProperties DEF Merge
  <2> QED
    BY <1>12, <2>1, <2>2, <2>3 DEF Merge, Deleted
<1>13. CASE NextSection
  BY <1>13, SectionList DEF NextSection, MoreSections
<1>14. CASE Deliver
  BY <1>14 DEF Deliver, Quantities
<1> HIDE DEF TypeOK, Places
<1>15. ASSUME NEW t \in Threads, InThread(t) PROVE TypeOK'
  BY <1>4, <1>5, <1>6, <1>7, <1>8, <1>9, <1>10, <1>15 DEF InThread
<1>16. CASE InCaller
  BY <1>11, <1>12, <1>13, <1>14, <1>16 DEF InCaller
<1> QED
  BY <1>1, <1>2, <1>3, <1>15, <1>16 DEF Next

-----------------------------------------------------------------------------
(* The parallel region                                                     *)

Phases == ParallelInv /\ MergeInv /\ DeliverInv /\ IdleInv

LEMMA EvalPhases ==
    ASSUME IInv, NEW T \in (SUBSET Threads) \ {{}}, NEW f \in [Obs -> T], Eval(T, f)
    PROVE  Phases'
<1>1. /\ main' = "parallel" /\ team' = T /\ done' = {}
      /\ pc' = [t \in Threads |-> IF t \in T THEN "allocate" ELSE "out"]
      /\ share' = [t \in Threads |-> {o \in Obs : t \in T /\ f[o] = t}]
      /\ \A q \in Quantities : vect'[q] = <<>> /\ result'[q] = Nothing
      /\ alive' = {}
  BY DEF Eval, Shares, Cleared, IInv, IdleInv
<1>2. Shared'
  BY <1>1 DEF Shared
<1>3. ListsInv'
  BY <1>1 DEF ListsInv, Registered, Quantities
<1>4. \A t \in T : ThreadInv(t)'
  BY <1>1 DEF ThreadInv
<1>5. ParallelInv'
  BY <1>1, <1>2, <1>3, <1>4 DEF ParallelInv, TeamInv
<1> QED
  BY <1>1, <1>5 DEF Phases, MergeInv, DeliverInv, IdleInv

(* What is common to the steps of a thread in the parallel region.         *)
LEMMA InTeam ==
    ASSUME IInv, main = "parallel", NEW t \in Threads, pc[t] # "out"
    PROVE  t \in team /\ TeamInv /\ ThreadInv(t)
BY DEF IInv, ParallelInv, TeamInv

LEMMA ThreadPhases ==
    ASSUME main' = "parallel", ParallelInv'
    PROVE  Phases'
BY DEF Phases, MergeInv, DeliverInv, IdleInv

LEMMA AllocatePhases ==
    ASSUME IInv, NEW t \in Threads, Allocate(t)
    PROVE  Phases'
<1>1. /\ main = "parallel" /\ pc[t] = "allocate" /\ main' = main
      /\ pc' = [pc EXCEPT ![t] = "register"]
      /\ copy' = [copy EXCEPT ![t] = [q \in Quantities |-> Nothing]]
      /\ stacked' = [stacked EXCEPT ![t] = {}]
      /\ alive' = alive \cup ({t} \X Quantities)
      /\ UNCHANGED <<team, share, slot, done, vect, result>>
  BY DEF Allocate, At, GoTo
<1>2. t \in team /\ TeamInv /\ ThreadInv(t)
  BY <1>1, InTeam
<1>3. /\ pc \in [Threads -> Places] /\ team \subseteq Threads
      /\ copy \in [Threads -> [Quantities -> [Obs -> Nat]]]
      /\ stacked \in [Threads -> SUBSET Obs]
  BY DEF IInv, TypeOK
<1>4. Shared'
  BY <1>1, <1>2 DEF TeamInv, Shared
<1>5. Registered' = Registered
  BY <1>1, <1>3 DEF Registered
<1>6. ListsInv'
  BY <1>1, <1>2, <1>5 DEF TeamInv, ListsInv
<1>7. CountedDone(t)'
  <2>1. share[t] \cap done = {}
    BY <1>1, <1>2 DEF ThreadInv
  <2>2. \A q \in Quantities : copy'[t][q] = Ones({})
    BY <1>1, <1>3, SumsOfOnes
  <2>3. stacked'[t] = {}
    BY <1>1, <1>3
  <2> QED
    BY <1>1, <2>1, <2>2, <2>3 DEF CountedDone, Quantities
<1>8. ASSUME NEW u \in team PROVE ThreadInv(u)'
  <2>1. CASE u = t
    <3>1. pc'[u] = "register" /\ share[u] \cap done = {}
      BY <1>1, <1>2, <1>3, <2>1 DEF ThreadInv
    <3> QED
      BY <1>1, <1>7, <2>1, <3>1 DEF ThreadInv
  <2>2. CASE u # t
    <3>1. ThreadInv(u)
      BY <1>2 DEF TeamInv
    <3>2. pc'[u] = pc[u] /\ copy'[u] = copy[u] /\ stacked'[u] = stacked[u]
      BY <1>1, <1>3, <2>2
    <3>3. pc'[t] # "push"
      BY <1>1, <1>3
    <3>4. \A w \in team : pc'[w] = "push" => pc[w] = "push"
      BY <1>1, <1>3
    <3> QED
      BY <1>1, <3>1, <3>2, <3>3, <3>4 DEF ThreadInv, CountedDone
  <2> QED
    BY <2>1, <2>2
<1>9. alive' = {u \in team : pc'[u] # "allocate"} \X Quantities
  <2>1. alive = {u \in team : pc[u] # "allocate"} \X Quantities
    BY <1>1 DEF IInv, ParallelInv
  <2>2. {u \in team : pc'[u] # "allocate"} = {u \in team : pc[u] # "allocate"} \cup {t}
    BY <1>1, <1>2, <1>3
  <2> QED
    BY <1>1, <2>1, <2>2
<1>10. ParallelInv'
  BY <1>1, <1>2, <1>3, <1>4, <1>6, <1>8, <1>9 DEF ParallelInv, TeamInv, IInv
<1> QED
  BY <1>1, <1>10, ThreadPhases

(* A step in which a thread moves on and changes nothing else.             *)
LEMMA MoveOn ==
    ASSUME IInv, NEW t \in team, NEW place \in {"push", "barrier", "joined"},
           main = "parallel", main' = main,
           pc[t] # "allocate", pc' = [pc EXCEPT ![t] = place],
           UNCHANGED <<team, share, done, vect, result, alive>>,
           \A u \in Threads \ {t} :
               copy'[u] = copy[u] /\ stacked'[u] = stacked[u] /\ slot'[u] = slot[u],
           pc[t] = "register" <=> place = "push",
           pc[t] # "push",
           ThreadInv(t)'
    PROVE  Phases'
<1>1. TeamInv /\ pc \in [Threads -> Places] /\ team \subseteq Threads
  BY DEF IInv, ParallelInv, TypeOK
<1>2. Shared'
  BY <1>1 DEF TeamInv, Shared
<1>3. Registered' = Registered
  <2>1. t \in Registered <=> t \in Registered'
    <3>1. ThreadInv(t) /\ pc[t] \in {"register", "loop", "barrier", "joined"}
      BY <1>1 DEF TeamInv, ThreadInv, IInv, TypeOK, Places
    <3> QED
      BY <1>1, <3>1 DEF Registered
  <2> QED
    BY <1>1, <2>1 DEF Registered
<1>4. ListsInv'
  BY <1>1, <1>3 DEF TeamInv, ListsInv
<1>5. ASSUME NEW u \in team, u # t PROVE ThreadInv(u)'
  <2>1. ThreadInv(u)
    BY <1>1 DEF TeamInv
  <2>2. pc'[u] = pc[u] /\ copy'[u] = copy[u] /\ stacked'[u] = stacked[u] /\ slot'[u] = slot[u]
    BY <1>1, <1>5
  <2>3. ~(pc'[u] = "push" /\ pc'[t] = "push")
    BY <1>1, <1>5 DEF ThreadInv
  <2>4. \A w \in team \ {t} : pc'[w] = pc[w]
    BY <1>1
  <2> QED
    BY <2>1, <2>2, <2>3, <2>4 DEF ThreadInv, CountedDone
<1>6. alive' = {u \in team : pc'[u] # "allocate"} \X Quantities
  <2>1. {u \in team : pc'[u] # "allocate"} = {u \in team : pc[u] # "allocate"}
    BY <1>1
  <2> QED
    BY <2>1 DEF IInv, ParallelInv
<1>7. ParallelInv'
  BY <1>1, <1>2, <1>4, <1>5, <1>6 DEF ParallelInv, TeamInv, IInv
<1> QED
  BY <1>7, ThreadPhases

LEMMA EnterPhases ==
    ASSUME IInv, NEW t \in Threads, EnterCritical(t)
    PROVE  Phases'
<1>1. /\ main = "parallel" /\ pc[t] = "register" /\ main' = main
      /\ \A u \in Threads : pc[u] # "push"
      /\ pc' = [pc EXCEPT ![t] = "push"]
      /\ slot' = [slot EXCEPT ![t] = Len(vect["value"])]
      /\ UNCHANGED <<team, share, done, copy, stacked, alive, vect, result>>
  BY DEF EnterCritical, At, GoTo, CriticalIsFree
<1>2. t \in team /\ TeamInv /\ ThreadInv(t)
  BY <1>1, InTeam
<1>3. pc \in [Threads -> Places] /\ slot \in [Threads -> Nat] /\ team \subseteq Threads
  BY DEF IInv, TypeOK
<1>4. ThreadInv(t)'
  <2>1. pc'[t] = "push" /\ slot'[t] = Len(vect["value"])
    BY <1>1, <1>3
  <2>2. \A u \in team : pc'[u] = "push" => u = t
    BY <1>1, <1>3
  <2> QED
    BY <1>1, <1>2, <2>1, <2>2 DEF ThreadInv, CountedDone
<1> QED
  BY <1>1, <1>2, <1>3, <1>4, MoveOn

LEMMA LoopEndsPhases ==
    ASSUME IInv, NEW t \in Threads, LoopEnds(t)
    PROVE  Phases'
<1>1. /\ main = "parallel" /\ pc[t] = "loop" /\ main' = main
      /\ share[t] \subseteq done
      /\ pc' = [pc EXCEPT ![t] = "barrier"]
      /\ UNCHANGED <<team, share, slot, done, copy, stacked, alive, vect, result>>
  BY DEF LoopEnds, At, GoTo, Left
<1>2. t \in team /\ TeamInv /\ ThreadInv(t)
  BY <1>1, InTeam
<1>3. pc \in [Threads -> Places] /\ pc'[t] = "barrier"
  BY <1>1 DEF IInv, TypeOK
<1>4. ThreadInv(t)'
  BY <1>1, <1>2, <1>3 DEF ThreadInv, CountedDone
<1> QED
  BY <1>1, <1>2, <1>4, MoveOn

LEMMA DestroyPhases ==
    ASSUME IInv, NEW t \in Threads, StackDestroy(t)
    PROVE  Phases'
<1>1. /\ main = "parallel" /\ pc[t] = "barrier" /\ main' = main
      /\ pc' = [pc EXCEPT ![t] = "joined"]
      /\ copy' = [copy EXCEPT ![t]["curvature"] = With(copy[t]["curvature"], stacked[t])]
      /\ stacked' = [stacked EXCEPT ![t] = {}]
      /\ UNCHANGED <<team, share, slot, done, alive, vect, result>>
  BY DEF StackDestroy, At, GoTo, Flushed
<1>2. t \in team /\ TeamInv /\ ThreadInv(t)
  BY <1>1, InTeam
<1>3. /\ pc \in [Threads -> Places] /\ pc'[t] = "joined"
      /\ copy \in [Threads -> [Quantities -> [Obs -> Nat]]]
      /\ stacked \in [Threads -> SUBSET Obs] /\ stacked'[t] = {}
  BY <1>1 DEF IInv, TypeOK
<1>4. CountedDone(t) /\ share[t] \subseteq done
  BY <1>1, <1>2 DEF ThreadInv
<1>5. With(copy[t]["curvature"], stacked[t]) = Ones(share[t] \cap done)
  <2> DEFINE all == share[t] \cap done
  <2>1. copy[t]["curvature"] = Ones(all \ stacked[t]) /\ stacked[t] \subseteq all
    BY <1>4 DEF CountedDone
  <2>2. (all \ stacked[t]) \cap stacked[t] = {} /\ (all \ stacked[t]) \cup stacked[t] = all
    BY <2>1
  <2> QED
    BY <2>1, <2>2, SumsOfOnes
<1>6. CountedDone(t)'
  <2>1. copy'[t]["curvature"] = Ones(share[t] \cap done)
    BY <1>1, <1>3, <1>5 DEF Quantities
  <2>2. \A q \in Quantities \ {"curvature"} : copy'[t][q] = copy[t][q]
    BY <1>1, <1>3
  <2> QED
    BY <1>1, <1>3, <1>4, <2>1, <2>2 DEF CountedDone
<1>7. ThreadInv(t)'
  BY <1>1, <1>3, <1>4, <1>6 DEF ThreadInv
<1>8. \A u \in Threads \ {t} : copy'[u] = copy[u] /\ stacked'[u] = stacked[u]
  BY <1>1, <1>3
<1> QED
  BY <1>1, <1>2, <1>7, <1>8, MoveOn

LEMMA PushBackPhases ==
    ASSUME IInv, NEW t \in Threads, PushBack(t)
    PROVE  Phases'
<1> DEFINE n == Len(vect["value"])
<1>1. /\ main = "parallel" /\ pc[t] = "push" /\ main' = main
      /\ pc' = [pc EXCEPT ![t] = "loop"]
      /\ UNCHANGED <<team, share, slot, done, copy, stacked, alive, result>>
  BY DEF PushBack, At, GoTo
<1>2. t \in team /\ TeamInv /\ ThreadInv(t)
  BY <1>1, InTeam
<1>3. /\ pc \in [Threads -> Places] /\ team \subseteq Threads
      /\ "value" \in Quantities /\ vect["value"] \in Seq(Threads)
  BY DEF IInv, TypeOK, Quantities
<1>4. /\ vect' = [q \in Quantities |-> Append(vect[q], t)]
      /\ \A q \in Quantities : vect'[q] = vect'["value"]
  <2>1. vect' = [q \in Quantities |-> Append(vect[q], t)]
    BY ListsExtended
  <2>2. \A q \in Quantities : vect[q] = vect["value"]
    BY <1>2 DEF TeamInv, ListsInv
  <2> QED
    BY <1>3, <2>1, <2>2
<1>5. /\ n \in Nat /\ Len(vect'["value"]) = n + 1
      /\ \A i \in 1..n : vect'["value"][i] = vect["value"][i]
      /\ vect'["value"][n + 1] = t
  BY <1>3, <1>4, AppendProperties, LenProperties
<1>6. Registered' = Registered \cup {t} /\ t \notin Registered
  BY <1>1, <1>2, <1>3 DEF Registered
<1>7. {vect["value"][i] : i \in 1..n} = Registered
      /\ \A i, j \in 1..n : vect["value"][i] = vect["value"][j] => i = j
  BY <1>2 DEF TeamInv, ListsInv
<1> HIDE DEF n
<1>8. ListsInv'
  <2>1. 1..(n + 1) = (1..n) \cup {n + 1}
    BY <1>5
  <2>2. {vect'["value"][i] : i \in 1..(n + 1)} = Registered'
    <3>1. {vect'["value"][i] : i \in 1..(n + 1)} = {vect'["value"][i] : i \in 1..n} \cup {t}
      BY <1>5, <2>1
    <3>2. {vect'["value"][i] : i \in 1..n} = {vect["value"][i] : i \in 1..n}
      BY <1>5
    <3> QED
      BY <1>6, <1>7, <3>1, <3>2
  <2>3. \A i \in 1..n : vect'["value"][i] # t
    BY <1>5, <1>6, <1>7
  <2>4. \A i, j \in 1..(n + 1) : vect'["value"][i] = vect'["value"][j] => i = j
    BY <1>5, <1>7, <2>1, <2>3
  <2> QED
    BY <1>4, <1>5, <2>2, <2>4 DEF ListsInv
<1>9. Shared'
  BY <1>1, <1>2 DEF TeamInv, Shared
<1>10. ASSUME NEW u \in team PROVE ThreadInv(u)'
  <2>1. ThreadInv(u)
    BY <1>2 DEF TeamInv
  <2>2. u # t => pc'[u] = pc[u] /\ pc[u] # "push"
    BY <1>1, <1>2, <1>3 DEF ThreadInv
  <2>3. pc'[t] = "loop"
    BY <1>1, <1>3
  <2> QED
    BY <1>1, <2>1, <2>2, <2>3 DEF ThreadInv, CountedDone
<1>11. alive' = {u \in team : pc'[u] # "allocate"} \X Quantities
  <2>1. {u \in team : pc'[u] # "allocate"} = {u \in team : pc[u] # "allocate"}
    BY <1>1, <1>3
  <2> QED
    BY <1>1, <2>1 DEF IInv, ParallelInv
<1>12. ParallelInv'
  BY <1>1, <1>2, <1>3, <1>8, <1>9, <1>10, <1>11 DEF ParallelInv, TeamInv, IInv
<1> QED
  BY <1>1, <1>12, ThreadPhases

(* An observation that is computed belongs to one thread only.             *)
LEMMA ComputePhases ==
    ASSUME IInv, NEW t \in Threads, NEW o \in Obs, NEW flushed \in BOOLEAN,
           Compute(t, o, flushed)
    PROVE  Phases'
<1>1. /\ main = "parallel" /\ pc[t] = "loop" /\ main' = main
      /\ o \in share[t] /\ o \notin done
      /\ done' = done \cup {o}
      /\ copy' = [copy EXCEPT ![t] = Counted(t, o, flushed)]
      /\ stacked' = [stacked EXCEPT ![t] = IF flushed THEN {o} ELSE @ \cup {o}]
      /\ UNCHANGED <<team, share, pc, slot, alive, vect, result>>
  BY DEF Compute, NextOf, At, Left
<1>2. t \in team /\ TeamInv /\ ThreadInv(t)
  BY <1>1, InTeam
<1>3. /\ copy \in [Threads -> [Quantities -> [Obs -> Nat]]]
      /\ stacked \in [Threads -> SUBSET Obs] /\ team \subseteq Threads
  BY DEF IInv, TypeOK
<1>4. Shared' /\ ListsInv' /\ Registered' = Registered
  BY <1>1, <1>2 DEF TeamInv, Shared, ListsInv, Registered
<1> DEFINE old == share[t] \cap done
<1>5. share'[t] \cap done' = old \cup {o} /\ old \cap {o} = {}
  BY <1>1
<1>6. CountedDone(t)
  BY <1>1, <1>2 DEF ThreadInv
<1> HIDE DEF old
<1>7. CountedDone(t)'
  <2>1. stacked[t] \subseteq old
        /\ copy[t]["curvature"] = Ones(old \ stacked[t])
        /\ \A q \in Quantities \ {"curvature"} : copy[t][q] = Ones(old)
    BY <1>6 DEF CountedDone, old
  <2>2. stacked'[t] = IF flushed THEN {o} ELSE stacked[t] \cup {o}
    BY <1>1, <1>3
  <2>3. stacked'[t] \subseteq old \cup {o}
    BY <2>1, <2>2
  <2>4. copy'[t] = Counted(t, o, flushed)
    BY <1>1, <1>3
  <2>5. \A q \in Quantities \ {"curvature"} : copy'[t][q] = Ones(old \cup {o})
    BY <1>5, <2>1, <2>4, SumsOfOnes DEF Counted
  <2>6. copy'[t]["curvature"] = Ones((old \cup {o}) \ stacked'[t])
    <3>1. CASE flushed
      <4>1. copy'[t]["curvature"] = With(copy[t]["curvature"], stacked[t])
        BY <2>4, <3>1 DEF Counted, Quantities
      <4>2. (old \ stacked[t]) \cap stacked[t] = {} /\ (old \ stacked[t]) \cup stacked[t] = old
        BY <2>1
      <4>3. (old \cup {o}) \ stacked'[t] = old
        BY <1>5, <2>2, <3>1
      <4> QED
        BY <2>1, <4>1, <4>2, <4>3, SumsOfOnes
    <3>2. CASE ~flushed
      <4>1. copy'[t]["curvature"] = copy[t]["curvature"]
        BY <2>4, <3>2 DEF Counted, Quantities
      <4>2. (old \cup {o}) \ stacked'[t] = old \ stacked[t]
        BY <1>5, <2>2, <3>2
      <4> QED
        BY <2>1, <4>1, <4>2
    <3> QED
      BY <3>1, <3>2
  <2> QED
    BY <1>5, <2>3, <2>5, <2>6 DEF CountedDone
<1>8. ASSUME NEW u \in team PROVE ThreadInv(u)'
  <2>1. ThreadInv(u)
    BY <1>2 DEF TeamInv
  <2>2. CASE u = t
    BY <1>1, <1>7, <2>1, <2>2 DEF ThreadInv
  <2>3. CASE u # t
    <3>1. o \notin share[u]
      BY <1>1, <1>2, <2>3 DEF TeamInv, Shared
    <3>2. share'[u] \cap done' = share[u] \cap done
      BY <1>1, <3>1
    <3>3. copy'[u] = copy[u] /\ stacked'[u] = stacked[u]
      BY <1>1, <1>3, <2>3
    <3>4. share[u] \subseteq done => share'[u] \subseteq done'
      BY <1>1
    <3>5. CountedDone(u) => CountedDone(u)'
      BY <3>2, <3>3 DEF CountedDone
    <3> QED
      BY <1>1, <2>1, <3>2, <3>3, <3>4, <3>5 DEF ThreadInv
  <2> QED
    BY <2>2, <2>3
<1>9. ParallelInv'
  BY <1>1, <1>4, <1>8 DEF ParallelInv, TeamInv, IInv
<1> QED
  BY <1>1, <1>9, ThreadPhases

-----------------------------------------------------------------------------
(* Merging                                                                 *)

(* The parts of the invariant on the threads do not read what the caller   *)
(* changes while it merges.                                                *)
LEMMA TeamKept ==
    ASSUME TeamInv, AllJoined,
           UNCHANGED <<team, share, pc, slot, done, copy, stacked, vect>>
    PROVE  TeamInv' /\ AllJoined'
<1>1. Shared' /\ AllJoined'
  BY DEF TeamInv, Shared, AllJoined
<1>2. Registered' = Registered
  BY DEF Registered
<1>3. ListsInv'
  BY <1>2 DEF TeamInv, ListsInv
<1>4. ASSUME NEW t \in team PROVE ThreadInv(t)'
  <2>1. CountedDone(t) => CountedDone(t)'
    BY DEF CountedDone
  <2>2. ThreadInv(t)
    BY DEF TeamInv
  <2> QED
    BY <2>1, <2>2 DEF ThreadInv
<1> QED
  BY <1>1, <1>3, <1>4 DEF TeamInv

(* When the team has joined, the lists hold all of it.                     *)
LEMMA JoinedTeam ==
    ASSUME IInv, TeamInv, AllJoined
    PROVE  /\ vect["value"] \in Seq(Threads) /\ Len(vect["value"]) \in Nat
           /\ {vect["value"][i] : i \in 1..Len(vect["value"])} = team
           /\ \A t \in team, q \in Quantities : copy[t][q] = Ones(share[t])
<1>1. vect["value"] \in Seq(Threads) /\ Len(vect["value"]) \in Nat
  BY LenProperties DEF IInv, TypeOK, Quantities
<1>2. Registered = team
  BY DEF Registered, AllJoined
<1>3. ASSUME NEW t \in team, NEW q \in Quantities PROVE copy[t][q] = Ones(share[t])
  <2>1. CountedDone(t) /\ share[t] \subseteq done /\ stacked[t] = {}
    BY DEF TeamInv, ThreadInv, AllJoined
  <2>2. share[t] \cap done = share[t] /\ (share[t] \cap done) \ stacked[t] = share[t]
    BY <2>1
  <2> QED
    BY <2>1, <2>2 DEF CountedDone
<1> QED
  BY <1>1, <1>2, <1>3 DEF TeamInv, ListsInv

LEMMA JoinPhases ==
    ASSUME IInv, Join
    PROVE  Phases'
<1>1. /\ main = "parallel" /\ main' = "merge" /\ section' = 1 /\ index' = 1
      /\ AllJoined
      /\ UNCHANGED <<team, share, pc, slot, done, copy, stacked, alive, vect, result>>
  BY DEF Join
<1>2. /\ TeamInv /\ \A q \in Quantities : result[q] = Nothing
      /\ alive = {t \in team : pc[t] # "allocate"} \X Quantities
  BY <1>1 DEF IInv, ParallelInv
<1>3. /\ TeamInv' /\ AllJoined'
  BY <1>1, <1>2, TeamKept
<1>4. /\ Len(vect["value"]) \in Nat
      /\ {vect["value"][i] : i \in 1..Len(vect["value"])} = team
  BY <1>1, <1>2, JoinedTeam
<1>5. Merged' = {}
  BY <1>1 DEF Merged
<1>6. \A s \in 1..4 :
         /\ s < section' => result'[Sections[s]] = Everything
         /\ s = section' => result'[Sections[s]] = Ones(Merged')
         /\ s > section' => result'[Sections[s]] = Nothing
  BY <1>1, <1>2, <1>5, SectionList, SumsOfOnes
<1>7. ASSUME NEW t \in Threads, NEW s \in 1..4
      PROVE  <<t, Sections[s]>> \in alive' <=>
              /\ t \in team'
              /\ \/ s > section'
                 \/ s = section' /\ \E i \in index'..Len(vect'["value"]) : vect'["value"][i] = t
  <2>1. <<t, Sections[s]>> \in alive <=> t \in team
    BY <1>1, <1>2, SectionList DEF AllJoined
  <2>2. t \in team => \E i \in 1..Len(vect["value"]) : vect["value"][i] = t
    BY <1>4
  <2> QED
    BY <1>1, <2>1, <2>2
<1>8. MergeInv'
  BY <1>1, <1>3, <1>4, <1>6, <1>7 DEF MergeInv
<1> QED
  BY <1>1, <1>8 DEF Phases, ParallelInv, DeliverInv, IdleInv

LEMMA MergePhases ==
    ASSUME IInv, Merge
    PROVE  Phases'
<1> DEFINE q == Sections[section]
           v == vect["value"]
           t == v[index]
<1>1. section \in 1..4 /\ q \in Quantities
  BY SectionList DEF IInv, TypeOK
<1>2. /\ main = "merge" /\ TeamInv /\ AllJoined
  BY DEF Merge, IInv, MergeInv
<1>3. vect[q] = v
  BY <1>1, <1>2 DEF TeamInv, ListsInv
<1>4. /\ main' = main /\ index <= Len(v) /\ index' = index + 1
      /\ result' = [result EXCEPT ![q] = Sum(result[q], copy[t][q])]
      /\ alive' = alive \ {<<t, q>>}
      /\ UNCHANGED <<section, team, share, pc, slot, done, copy, stacked, vect>>
  BY <1>3 DEF Merge, Deleted
<1>5. /\ Len(v) \in Nat /\ {v[i] : i \in 1..Len(v)} = team
      /\ \A u \in team, r \in Quantities : copy[u][r] = Ones(share[u])
  BY <1>2, JoinedTeam
<1>6. /\ index \in 1..Len(v)
      /\ t \in team
      /\ \A i, j \in 1..Len(v) : v[i] = v[j] => i = j
  BY <1>2, <1>4, <1>5 DEF TeamInv, ListsInv, IInv, MergeInv
<1>7. result \in [Quantities -> [Obs -> Nat]] /\ team \subseteq Threads
  BY DEF IInv, TypeOK
<1>8. TeamInv' /\ AllJoined'
  BY <1>2, <1>4, TeamKept
<1>9. Merged' = Merged \cup share[t] /\ Merged \cap share[t] = {}
  <2>1. 1..(index' - 1) = (1..(index - 1)) \cup {index}
    BY <1>4, <1>6
  <2>2. Merged' = Merged \cup share[t]
    BY <1>4, <2>1 DEF Merged
  <2>3. ASSUME NEW i \in 1..(index - 1) PROVE share[v[i]] \cap share[t] = {}
    <3>1. i \in 1..Len(v) /\ i # index
      BY <1>5, <1>6
    <3>2. v[i] \in team /\ v[i] # t
      BY <1>5, <1>6, <3>1
    <3> QED
      BY <1>2, <1>6, <3>2 DEF TeamInv, Shared
  <2> QED
    BY <2>2, <2>3 DEF Merged
<1>10. result[q] = Ones(Merged) /\ copy[t][q] = Ones(share[t])
  BY <1>1, <1>2, <1>5, <1>6 DEF IInv, MergeInv
<1>11. Sum(result[q], copy[t][q]) = Ones(Merged')
  BY <1>9, <1>10, SumsOfOnes
<1>12. index' \in 1..(Len(vect'["value"]) + 1)
  BY <1>4, <1>5, <1>6
<1>13. \A u \in Threads, s \in 1..4 : <<u, Sections[s]>> \in alive <=>
              /\ u \in team
              /\ \/ s > section
                 \/ s = section /\ \E i \in index..Len(v) : v[i] = u
  BY <1>2 DEF IInv, MergeInv
<1>14. \A s \in 1..4 :
              /\ s < section => result[Sections[s]] = Everything
              /\ s > section => result[Sections[s]] = Nothing
  BY <1>2 DEF IInv, MergeInv
<1> HIDE DEF q, v, t
<1>15. ASSUME NEW s \in 1..4
       PROVE  /\ s < section' => result'[Sections[s]] = Everything
              /\ s = section' => result'[Sections[s]] = Ones(Merged')
              /\ s > section' => result'[Sections[s]] = Nothing
  <2>1. CASE s = section
    BY <1>1, <1>4, <1>7, <1>11, <2>1 DEF q
  <2>2. CASE s # section
    <3>1. Sections[s] \in Quantities /\ Sections[s] # q
      BY <1>1, <2>2, SectionList DEF q
    <3>2. result'[Sections[s]] = result[Sections[s]]
      BY <1>4, <1>7, <3>1
    <3> QED
      BY <1>1, <1>4, <1>14, <2>2, <3>2
  <2> QED
    BY <2>1, <2>2
<1>16. ASSUME NEW u \in Threads, NEW s \in 1..4
       PROVE  <<u, Sections[s]>> \in alive' <=>
              /\ u \in team'
              /\ \/ s > section'
                 \/ s = section' /\ \E i \in index'..Len(v) : v[i] = u
  <2>1. CASE s # section
    <3>1. Sections[s] # q
      BY <1>1, <2>1, SectionList DEF q
    <3> QED
      BY <1>1, <1>4, <1>13, <2>1, <3>1
  <2>2. CASE s = section /\ u = t
    <3>1. ~\E i \in (index + 1)..Len(v) : v[i] = u
      <4>1. \A i \in (index + 1)..Len(v) : i \in 1..Len(v) /\ i # index
        BY <1>5, <1>6
      <4>2. v[index] = t
        BY DEF t
      <4> QED
        BY <1>6, <2>2, <4>1, <4>2
    <3> QED
      BY <1>4, <2>2, <3>1 DEF q
  <2>3. CASE s = section /\ u # t
    <3>1. (\E i \in index..Len(v) : v[i] = u) <=> \E i \in (index + 1)..Len(v) : v[i] = u
      <4>1. index..Len(v) = {index} \cup ((index + 1)..Len(v))
        BY <1>5, <1>6
      <4>2. v[index] # u
        BY <2>3 DEF t
      <4> QED
        BY <4>1, <4>2
    <3>2. <<u, Sections[s]>> \in alive' <=> <<u, Sections[s]>> \in alive
      BY <1>4, <2>3
    <3> QED
      BY <1>4, <1>13, <2>3, <3>1, <3>2
  <2> QED
    BY <2>1, <2>2, <2>3
<1>17. v = vect'["value"]
  BY <1>4 DEF v
<1>18. MergeInv'
  BY <1>8, <1>12, <1>15, <1>16, <1>17 DEF MergeInv
<1> QED
  BY <1>2, <1>4, <1>18 DEF Phases, ParallelInv, DeliverInv, IdleInv

LEMMA NextSectionPhases ==
    ASSUME IInv, NextSection
    PROVE  Phases'
<1> DEFINE v == vect["value"]
<1>1. /\ main = "merge" /\ TeamInv /\ AllJoined /\ section \in 1..4
  BY SectionList DEF NextSection, IInv, MergeInv, TypeOK
<1>2. vect[Sections[section]] = v
  BY <1>1, SectionList DEF TeamInv, ListsInv
<1>3. /\ index > Len(v) /\ index' = 1
      /\ IF section < 4 THEN section' = section + 1 /\ main' = main
         ELSE main' = "deliver" /\ section' = section
      /\ UNCHANGED <<team, share, pc, slot, done, copy, stacked, alive, vect, result>>
  BY <1>2, SectionList DEF NextSection, MoreSections
<1>4. Len(v) \in Nat /\ {v[i] : i \in 1..Len(v)} = team
  BY <1>1, JoinedTeam
<1>5. index = Len(v) + 1
  BY <1>1, <1>3, <1>4 DEF IInv, MergeInv
<1>6. TeamInv' /\ AllJoined'
  BY <1>1, <1>3, TeamKept
<1>7. Ones(Merged) = Everything
  <2>1. 1..(index - 1) = 1..Len(v)
    BY <1>4, <1>5
  <2>2. Merged = UNION {share[u] : u \in team}
    BY <1>4, <2>1 DEF Merged
  <2>3. \A o \in Obs : o \in Merged
    BY <1>1, <2>2 DEF TeamInv, Shared
  <2> QED
    BY <2>3 DEF Ones, Everything
<1>8. \A s \in 1..4 :
         /\ s <= section => result[Sections[s]] = Everything
         /\ s > section => result[Sections[s]] = Nothing
  <2>1. \A s \in 1..4 :
           /\ s < section => result[Sections[s]] = Everything
           /\ s = section => result[Sections[s]] = Ones(Merged)
           /\ s > section => result[Sections[s]] = Nothing
    BY <1>1 DEF IInv, MergeInv
  <2> QED
    BY <1>1, <1>7, <2>1
<1>9. \A t \in Threads, s \in 1..4 : <<t, Sections[s]>> \in alive <=>
         t \in team /\ s > section
  <2>1. \A t \in Threads, s \in 1..4 : <<t, Sections[s]>> \in alive <=>
              /\ t \in team
              /\ \/ s > section
                 \/ s = section /\ \E i \in index..Len(v) : v[i] = t
    BY <1>1 DEF IInv, MergeInv
  <2>2. index..Len(v) = {}
    BY <1>4, <1>5
  <2> QED
    BY <2>1, <2>2
<1> HIDE DEF v
<1>10. CASE section < 4
  <2>1. section' = section + 1 /\ section' \in 1..4 /\ main' = "merge"
    BY <1>1, <1>3, <1>10
  <2>2. Merged' = {}
    BY <1>3 DEF Merged
  <2>3. Ones(Merged') = Nothing
    BY <2>2, SumsOfOnes
  <2>4. ASSUME NEW s \in 1..4
        PROVE  /\ s < section' => result'[Sections[s]] = Everything
               /\ s = section' => result'[Sections[s]] = Ones(Merged')
               /\ s > section' => result'[Sections[s]] = Nothing
    BY <1>1, <1>3, <1>8, <2>1, <2>3
  <2>5. ASSUME NEW t \in Threads, NEW s \in 1..4
        PROVE  <<t, Sections[s]>> \in alive' <=>
              /\ t \in team'
              /\ \/ s > section'
                 \/ s = section' /\ \E i \in index'..Len(v) : v[i] = t
    <3>1. t \in team => \E i \in 1..Len(v) : v[i] = t
      BY <1>4
    <3>2. s > section <=> s > section' \/ s = section'
      BY <1>1, <2>1
    <3>3. <<t, Sections[s]>> \in alive' <=> t \in team /\ s > section
      BY <1>3, <1>9
    <3>4. index' = 1 /\ team' = team
      BY <1>3
    <3> QED
      BY <3>1, <3>2, <3>3, <3>4
  <2>6. v = vect'["value"] /\ index' \in 1..(Len(v) + 1)
    BY <1>3, <1>4 DEF v
  <2>7. MergeInv'
    BY <1>6, <2>4, <2>5, <2>6 DEF MergeInv
  <2> QED
    BY <2>1, <2>7 DEF Phases, ParallelInv, DeliverInv, IdleInv
<1>11. CASE ~(section < 4)
  <2>1. section = 4 /\ main' = "deliver"
    BY <1>1, <1>3, <1>11
  <2>2. \A q \in Quantities : result'[q] = Everything
    <3>1. \A s \in 1..4 : result'[Sections[s]] = Everything
      BY <1>3, <1>8, <2>1
    <3> QED
      BY <3>1, SectionList
  <2>3. alive' = {}
    <3>1. alive \subseteq Threads \X Quantities
      BY DEF IInv, TypeOK
    <3>2. ASSUME NEW t \in Threads, NEW q \in Quantities PROVE <<t, q>> \notin alive
      <4>1. PICK s \in 1..4 : Sections[s] = q
        BY SectionList
      <4>2. ~(s > section)
        BY <2>1
      <4> QED
        BY <1>9, <4>1, <4>2
    <3> QED
      BY <1>3, <3>1, <3>2
  <2>4. DeliverInv'
    BY <1>6, <2>2, <2>3 DEF DeliverInv
  <2> QED
    BY <2>1, <2>4 DEF Phases, ParallelInv, MergeInv, IdleInv
<1> QED
  BY <1>10, <1>11

LEMMA DeliverPhases ==
    ASSUME IInv, Deliver
    PROVE  Phases'
BY DEF Deliver, IInv, Phases, ParallelInv, MergeInv, DeliverInv, IdleInv

(* What no phase reads: the gradients and the number of evaluations.       *)
LEMMA PhasesKept ==
    ASSUME IInv,
           UNCHANGED <<main, section, index, team, share, pc, slot, done, copy, stacked,
                       alive, vect, result>>
    PROVE  Phases'
<1>1. TeamInv /\ AllJoined => TeamInv' /\ AllJoined'
  BY TeamKept
<1>2. TeamInv => TeamInv'
  <2> SUFFICES ASSUME TeamInv PROVE TeamInv'
    OBVIOUS
  <2>1. Shared' /\ Registered' = Registered
    BY DEF TeamInv, Shared, Registered
  <2>2. ListsInv'
    BY <2>1 DEF TeamInv, ListsInv
  <2>3. ASSUME NEW t \in team PROVE ThreadInv(t)'
    <3>1. CountedDone(t) => CountedDone(t)'
      BY DEF CountedDone
    <3>2. ThreadInv(t)
      BY DEF TeamInv
    <3> QED
      BY <3>1, <3>2 DEF ThreadInv
  <2> QED
    BY <2>1, <2>2, <2>3 DEF TeamInv
<1>3. ParallelInv'
  BY <1>2 DEF IInv, ParallelInv
<1>4. MergeInv'
  <2>1. Merged' = Merged
    BY DEF Merged
  <2> QED
    BY <1>1, <2>1 DEF IInv, MergeInv
<1>5. DeliverInv' /\ IdleInv'
  BY <1>1 DEF IInv, DeliverInv, IdleInv
<1> QED
  BY <1>3, <1>4, <1>5 DEF Phases

LEMMA PhasesStep == IInv /\ [Next]_vars => Phases'
<1> SUFFICES ASSUME IInv, [Next]_vars PROVE Phases'
  OBVIOUS
<1>1. CASE UNCHANGED vars
  BY <1>1, PhasesKept DEF vars
<1>2. CASE EvalNothing
  BY <1>2, PhasesKept DEF EvalNothing
<1>3. ASSUME NEW t \in Threads, NEW o \in Obs, LikelihoodThrows(t, o) PROVE Phases'
  BY <1>3 DEF LikelihoodThrows, Phases, ParallelInv, MergeInv, DeliverInv, IdleInv
<1>4. ASSUME NEW t \in Threads, InThread(t) PROVE Phases'
  BY <1>3, <1>4, AllocatePhases, EnterPhases, PushBackPhases, ComputePhases,
     LoopEndsPhases, DestroyPhases DEF InThread
<1>5. CASE InCaller
  BY <1>5, JoinPhases, MergePhases, NextSectionPhases, DeliverPhases DEF InCaller
<1> QED
  BY <1>1, <1>2, <1>4, <1>5, EvalPhases DEF Next

-----------------------------------------------------------------------------
(* Theorems                                                                *)

LEMMA InitIInv == Init => IInv
<1> SUFFICES ASSUME Init PROVE IInv
  OBVIOUS
<1>1. TypeOK
  <2>1. Nothing \in [Obs -> Nat]
    BY DEF Nothing
  <2>2. vect \in [Quantities -> Seq(Threads)]
    BY EmptySeq DEF Init
  <2> QED
    BY <2>1, <2>2, SectionList DEF Init, TypeOK, Places
<1> QED
  BY <1>1 DEF Init, IInv, ParallelInv, MergeInv, DeliverInv, IdleInv

LEMMA Invariance == Safe => []IInv
<1>1. IInv /\ [Next]_vars => IInv'
  BY TypeStep, PhasesStep DEF IInv, Phases
<1> QED
  BY InitIInv, <1>1, PTL DEF Safe

(* Every variable keeps its type.                                          *)
THEOREM TypesKept == Safe => []TypeOK
<1>1. IInv => TypeOK
  BY DEF IInv
<1> QED
  BY Invariance, <1>1, PTL

(* When the team has joined, the critical region has put each of its       *)
(* threads on each list of working copies once.                            *)
THEOREM AllRegisteredOnce == Safe => []RegisteredOnce
<1>1. IInv => RegisteredOnce
  <2> SUFFICES ASSUME IInv, main \in {"merge", "deliver"}, NEW q \in Quantities
               PROVE  /\ {vect[q][i] : i \in DOMAIN vect[q]} = team
                      /\ \A i, j \in DOMAIN vect[q] : vect[q][i] = vect[q][j] => i = j
    BY DEF RegisteredOnce
  <2>1. TeamInv /\ AllJoined
    BY DEF IInv, MergeInv, DeliverInv
  <2>2. vect[q] = vect["value"]
    BY <2>1 DEF TeamInv, ListsInv
  <2>3. /\ vect["value"] \in Seq(Threads)
        /\ {vect["value"][i] : i \in 1..Len(vect["value"])} = team
    BY <2>1, JoinedTeam
  <2>4. DOMAIN vect["value"] = 1..Len(vect["value"])
    BY <2>3, LenProperties
  <2> QED
    BY <2>1, <2>2, <2>3, <2>4 DEF TeamInv, ListsInv
<1> QED
  BY Invariance, <1>1, PTL

(* The sections merge no working copy that has been deleted, and an        *)
(* evaluation leaves none behind.                                          *)
THEOREM CopiesDeletedOnce == Safe => []CopiesAreDeletedOnce
<1>1. IInv => CopiesAreDeletedOnce
  <2> SUFFICES ASSUME IInv, main = "merge"
               PROVE  LET q == Sections[section]
                      IN  \A i \in index..Len(vect[q]) : <<vect[q][i], q>> \in alive
    BY DEF CopiesAreDeletedOnce, IInv, IdleInv
  <2>1. TeamInv /\ AllJoined /\ section \in 1..4 /\ index \in Nat \ {0}
    BY SectionList DEF IInv, MergeInv, TypeOK
  <2>2. vect[Sections[section]] = vect["value"]
    BY <2>1, SectionList DEF TeamInv, ListsInv
  <2>3. /\ {vect["value"][i] : i \in 1..Len(vect["value"])} = team
        /\ Len(vect["value"]) \in Nat /\ team \subseteq Threads
    BY <2>1, JoinedTeam DEF IInv, TypeOK
  <2>4. ASSUME NEW i \in index..Len(vect["value"])
        PROVE  <<vect["value"][i], Sections[section]>> \in alive
    <3>1. vect["value"][i] \in team /\ vect["value"][i] \in Threads
      BY <2>1, <2>3
    <3> QED
      BY <2>1, <3>1 DEF IInv, MergeInv
  <2> QED
    BY <2>2, <2>4
<1> QED
  BY Invariance, <1>1, PTL

(* For any team, and any distribution of the observations over it, an      *)
(* evaluation that comes to its end has counted each observation once in   *)
(* the curvature, the gradient, the number of events and the value.        *)
THEOREM CountedOnce == Safe => []EachCountedOnce
<1>1. IInv => EachCountedOnce
  BY DEF IInv, DeliverInv, EachCountedOnce
<1> QED
  BY Invariance, <1>1, PTL

(* An evaluation with threads implements, as far as safety goes, an        *)
(* evaluation in one step.                                                 *)
THEOREM SafeRefinement == Safe => ImplementsSafely
<1>1. Init => Sums!Init
  BY DEF Init, Sums!Init, Phase
<1>2. IInv /\ [Next]_vars => [Sums!Next]_(Sums!vars)
  <2> SUFFICES ASSUME IInv, [Next]_vars PROVE [Sums!Next]_(Sums!vars)
    OBVIOUS
  <2> USE DEF Phase, Sums!vars
  <2>1. CASE UNCHANGED vars
    BY <2>1 DEF vars
  <2>2. ASSUME NEW T \in (SUBSET Threads) \ {{}}, NEW f \in [Obs -> T], Eval(T, f)
        PROVE  [Sums!Next]_(Sums!vars)
    BY <2>2 DEF Eval, Sums!Next, Sums!Begin
  <2>3. CASE EvalNothing
    BY <2>3 DEF EvalNothing
  <2>4. ASSUME NEW t \in Threads, NEW o \in Obs, LikelihoodThrows(t, o)
        PROVE  [Sums!Next]_(Sums!vars)
    BY <2>4 DEF LikelihoodThrows, NextOf, At, Sums!Next, Sums!Die
  <2>5. ASSUME NEW t \in Threads, InThread(t), main' = main, main # "idle",
               UNCHANGED gradients
        PROVE  [Sums!Next]_(Sums!vars)
    BY <2>5
  <2>6. ASSUME NEW t \in Threads, InThread(t) PROVE [Sums!Next]_(Sums!vars)
    <3>1. CASE \E o \in Obs : LikelihoodThrows(t, o)
      BY <2>4, <3>1
    <3>2. CASE ~\E o \in Obs : LikelihoodThrows(t, o)
      <4>1. main = "parallel" /\ main' = main /\ UNCHANGED gradients
        BY <2>6, <3>2 DEF InThread, Allocate, EnterCritical, PushBack, Compute, NextOf,
           LoopEnds, StackDestroy, At
      <4> QED
        BY <2>5, <2>6, <4>1
    <3> QED
      BY <3>1, <3>2
  <2>7. CASE Join
    BY <2>7 DEF Join
  <2>8. CASE Merge
    BY <2>8 DEF Merge
  <2>9. CASE NextSection
    BY <2>9 DEF NextSection
  <2>10. CASE Deliver
    <3>1. main = "deliver" /\ main' = "idle" /\ UNCHANGED result
          /\ gradients' = result["gradient"]
      BY <2>10 DEF Deliver
    <3>2. \A q \in Quantities : result[q] = Everything
      BY <3>1 DEF IInv, DeliverInv
    <3>3. result = [q \in Quantities |-> Everything] /\ gradients' = Everything
      BY <3>1, <3>2 DEF IInv, TypeOK, Quantities
    <3> QED
      BY <3>1, <3>3 DEF Sums!Next, Sums!End
  <2> QED
    BY <2>1, <2>2, <2>3, <2>6, <2>7, <2>8, <2>9, <2>10 DEF Next, InCaller
<1> QED
  BY Invariance, <1>1, <1>2, PTL DEF Safe, ImplementsSafely, Sums!Safe
=============================================================================
